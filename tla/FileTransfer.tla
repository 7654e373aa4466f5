---------------------------- MODULE FileTransfer ----------------------------
(***************************************************************************)
(* What Etapa1 promises the person who runs `server <ip> <port> <file>`:   *)
(* every run of the program is one session; the blocks of its file reach   *)
(* the receiver's output file in order and once each; and a run that prints *)
(* "Envio exitoso" has left all of them there.  There are two reservations. *)
(* The receiver does not go back to its first bit between two sessions, so *)
(* the first block of any session but the first may be taken for a          *)
(* duplicate.  And a receiver that was restarted, or could not write,       *)
(* keeps nothing but the order of what it stores.                           *)
(*                                                                          *)
(* A run that fails promises nothing but order: any prefix of the file may *)
(* have arrived, and blocks still on their way may arrive after it gave up. *)
(***************************************************************************)
EXTENDS Naturals, Sequences

CONSTANT Files      \* Files[s] is the number of blocks of session s's file

VARIABLES
    session,        \* the last session started (0: none)
    result,         \* what each session has told its user
    outputFile,     \* the blocks stored by the receiver, as <<session, block>>
    receiverFailed  \* has the receiver been restarted, or failed to write?

promiseVars == <<session, result, outputFile, receiverFailed>>

Stored(s) == {outputFile[i][2] : i \in {j \in DOMAIN outputFile : outputFile[j][1] = s}}

\* Blocks of session s that the receiver must have before block k.
Needed(s, k) == IF s = 1 THEN 1 .. k - 1 ELSE 2 .. k - 1

Init ==
    /\ session = 0
    /\ result = [s \in DOMAIN Files |-> "none"]
    /\ outputFile = << >>
    /\ receiverFailed = FALSE

Begin ==
    /\ session < Len(Files)
    /\ session' = session + 1
    /\ UNCHANGED <<result, outputFile, receiverFailed>>

\* Block k comes after all those stored before it, and leaves no hole.
Deliver(s, k) ==
    /\ \A j \in Stored(s) : j < k
    /\ \A t \in s + 1 .. session : Stored(t) = {}
    /\ receiverFailed \/ Needed(s, k) \subseteq Stored(s)
    /\ outputFile' = Append(outputFile, <<s, k>>)
    /\ UNCHANGED <<session, result, receiverFailed>>

Succeed ==
    /\ session > 0 /\ result[session] = "none"
    /\ receiverFailed \/ Needed(session, Files[session] + 1) \subseteq Stored(session)
    /\ result' = [result EXCEPT ![session] = "ok"]
    /\ UNCHANGED <<session, outputFile, receiverFailed>>

Fail ==
    /\ session > 0 /\ result[session] = "none"
    /\ result' = [result EXCEPT ![session] = "failed"]
    /\ UNCHANGED <<session, outputFile, receiverFailed>>

\* A session that fails before it sends anything (unreadable file) begins and
\* fails in one step.
BeginAndFail ==
    /\ session < Len(Files)
    /\ session' = session + 1
    /\ result' = [result EXCEPT ![session + 1] = "failed"]
    /\ UNCHANGED <<outputFile, receiverFailed>>

\* A block that could not be written, or a receiver that starts over.
ReceiverFails ==
    /\ receiverFailed' = TRUE
    /\ outputFile' \in {outputFile, << >>}
    /\ UNCHANGED <<session, result>>

Next ==
    \/ Begin
    \/ BeginAndFail
    \/ \E s \in 1 .. session : \E k \in 1 .. Files[s] : Deliver(s, k)
    \/ Succeed
    \/ Fail
    \/ ReceiverFails

Spec == Init /\ [][Next]_promiseVars
=============================================================================
