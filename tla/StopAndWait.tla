---------------------------- MODULE StopAndWait -----------------------------
(***************************************************************************)
(* Etapa1: reliable file transfer over UDP.  One step per system call or   *)
(* datagram: the `server` program (user/src/serverSender.c) inside the     *)
(* sendFrame and initProtocol system calls (kernel/src/syscallModule.c,    *)
(* stopAndWait.c, kernelSocket.c), the network, and the receiver           *)
(* (user/src/clientUser.c), which outlives the sender's runs.              *)
(*                                                                         *)
(* Every run of `server` is a session, numbered in order; the ephemeral    *)
(* port of the socket a session creates is named by the session's number.  *)
(* Blocks of a file are numbered from 1; the END frame of session s is     *)
(* numbered Files[s] + 1, so frames are ordered as they are first sent.    *)
(***************************************************************************)
EXTENDS Naturals, SequencesExt

CONSTANTS
    Files,          \* Files[s]: number of blocks (freads) session s reads before the end
    MaxRetries,     \* MAX_RETRIES of stopAndWait.c
    ChanCap,        \* bound on the datagrams in flight, each way
    Faults          \* what may go wrong besides loss and delay: see FaultKinds

FaultKinds ==
    {"file",        \* the input file cannot be opened
     "socket",      \* the kernel socket cannot be created
     "send",        \* kernel_sendmsg or kernel_recvmsg returns an error
     "kill",        \* the server process is killed during a session
     "disk",        \* the receiver's fwrite fails
     "restart",     \* the receiver is stopped and started again
     "dup",         \* the network delivers a frame twice
     "reorder"}     \* the network delivers a frame before an older one

ASSUME StopAndWaitAssumption ==
    /\ Files \in Seq(Nat)
    /\ MaxRetries \in Nat \ {0}
    /\ ChanCap \in Nat \ {0}
    /\ Faults \subseteq FaultKinds

VARIABLES
    pc,               \* sender: "idle", "send" (about to transmit), "wait" (in recvfrom)
    session,          \* the last session started; also the port of its socket
    blk,              \* the frame being sent
    success,          \* `success` of sendFileOverProtocol
    currentSeq,       \* the sender's bit
    kSocket,          \* port of the kernel socket, 0 when NULL
    attempt,          \* loop counter of sendFrameStopAndWait
    result,           \* what each session told its user
    frames,           \* frames in flight to the receiver
    acks,             \* bits of the ACKs in flight to kSocket
    expectedSequence, \* the receiver's bit
    outputFile,       \* blocks the receiver has stored
    receiverFailed    \* has it been restarted, or failed to write? (for the properties)

kernelVars   == <<currentSeq, kSocket, attempt>>
senderVars   == <<pc, session, blk, success, currentSeq, kSocket, attempt, result>>
receiverVars == <<expectedSequence, outputFile, receiverFailed>>
vars         == <<senderVars, frames, acks, receiverVars>>

Sessions == DOMAIN Files
EndOf(s) == Files[s] + 1
IsEnd(f) == f.blk = EndOf(f.port)
Frame    == [port : Sessions, seq : {0, 1}, blk : Nat]

-----------------------------------------------------------------------------
(* The network: a full queue drops, and any datagram may be lost, or        *)
(* doubled.  Both happen when the datagram is handed over, which no one can *)
(* tell from the same on the way.                                           *)

Carried(q, m) ==
    {r \in {q, Append(q, m), Append(Append(q, m), m)} :
        /\ Len(r) <= ChanCap
        /\ Len(r) = Len(q) + 2 => "dup" \in Faults}

Arrivals == IF "reorder" \in Faults THEN DOMAIN frames ELSE DOMAIN frames \cap {1}

-----------------------------------------------------------------------------
(* The sender.                                                              *)

Init ==
    /\ pc = "idle" /\ session = 0 /\ blk = 0 /\ success = TRUE
    /\ currentSeq = 0 /\ kSocket = 0 /\ attempt = 1
    /\ result = [s \in Sessions |-> "none"]
    /\ frames = << >> /\ acks = << >>
    /\ expectedSequence = 0 /\ outputFile = << >> /\ receiverFailed = FALSE

\* sendFrameSockets enters the system call with frame b.
SendFrame(b) == pc' = "send" /\ blk' = b /\ attempt' = 1

\* Mutant of Finish: the failure of an earlier block is forgotten.
FinishForgets(ok) ==
    /\ pc' = "idle"
    /\ result' = [result EXCEPT ![session] = "ok"]
    /\ UNCHANGED <<blk, attempt>>

\* sendFileOverProtocol returns.
Finish(ok) ==
    /\ pc' = "idle"
    /\ result' = [result EXCEPT ![session] = IF ok THEN "ok" ELSE "failed"]
    /\ UNCHANGED <<blk, attempt>>

\* The system call returned 0: the next block, or END, or the end.
FrameConfirmed ==
    IF blk = EndOf(session)
    THEN Finish(success)
    ELSE SendFrame(blk + 1) /\ UNCHANGED result

\* Mutants of FrameFailed: the loop goes on after a failure; `success` is not
\* reset.
FrameFailedGoesOn ==
    /\ success' = FALSE
    /\ IF blk = EndOf(session)
       THEN Finish(FALSE)
       ELSE SendFrame(blk + 1) /\ UNCHANGED result

FrameFailedSilently ==
    /\ UNCHANGED success
    /\ IF blk = EndOf(session)
       THEN Finish(FALSE)
       ELSE SendFrame(EndOf(session)) /\ UNCHANGED result

\* The system call failed: a failed block is followed by END all the same.
FrameFailed ==
    /\ success' = FALSE
    /\ IF blk = EndOf(session)
       THEN Finish(FALSE)
       ELSE SendFrame(EndOf(session)) /\ UNCHANGED result

\* A new session whose file opens: sys_initProtocol resets the bit and
\* replaces the socket (and what was queued on the old one goes with it),
\* then the first frame is built.  A failure to create the socket is ignored.
StartTransfer ==
    /\ pc = "idle" /\ session < Len(Files)
    /\ session' = session + 1
    /\ success' = TRUE
    /\ currentSeq' = 0
    /\ kSocket' \in {session + 1} \cup (IF "socket" \in Faults THEN {0} ELSE {})
    /\ acks' = << >>
    /\ SendFrame(1)
    /\ UNCHANGED <<result, frames, receiverVars>>

\* openInputFile fails: nothing is sent and the kernel state is not reset.
OpenFails ==
    /\ "file" \in Faults
    /\ pc = "idle" /\ session < Len(Files)
    /\ session' = session + 1
    /\ result' = [result EXCEPT ![session + 1] = "failed"]
    /\ UNCHANGED <<pc, blk, success, kernelVars, frames, acks, receiverVars>>

\* sendFrameStopAndWait without a socket: -ENOTSOCK.
NotSock ==
    /\ pc = "send" /\ kSocket = 0
    /\ FrameFailed
    /\ UNCHANGED <<session, currentSeq, kSocket, frames, acks, receiverVars>>

\* One attempt.  The simulated loss of 30% of the frames is the network's.
Transmit ==
    /\ pc = "send" /\ kSocket # 0
    /\ frames' \in Carried(frames, [port |-> kSocket, seq |-> currentSeq, blk |-> blk])
    /\ pc' = "wait"
    /\ UNCHANGED <<session, blk, success, kernelVars, result, acks, receiverVars>>

\* kernel_sendmsg or kernel_recvmsg fails with something else than -EAGAIN.
SocketError ==
    /\ "send" \in Faults
    /\ pc \in {"send", "wait"} /\ kSocket # 0
    /\ FrameFailed
    /\ UNCHANGED <<session, currentSeq, kSocket, frames, acks, receiverVars>>

\* Mutants of Retry: one turn too many; the turn is not counted.
RetryOnceMore ==
    IF attempt <= MaxRetries
    THEN /\ attempt' = attempt + 1 /\ pc' = "send"
         /\ UNCHANGED <<blk, success, kSocket, result>>
    ELSE /\ FrameFailed
         /\ kSocket' = 0

RetryForever ==
    /\ pc' = "send"
    /\ UNCHANGED <<attempt, blk, success, kSocket, result>>

\* The next turn of the loop; after the last, -ETIMEDOUT, and sys_sendFrame
\* releases the socket.
Retry ==
    IF attempt < MaxRetries
    THEN /\ attempt' = attempt + 1 /\ pc' = "send"
         /\ UNCHANGED <<blk, success, kSocket, result>>
    ELSE /\ FrameFailed
         /\ kSocket' = 0

\* recvfrom returns -EAGAIN.  An ACK may still be on its way.
Timeout ==
    /\ pc = "wait"
    /\ Retry
    /\ acks' = IF kSocket' = 0 THEN << >> ELSE acks
    /\ UNCHANGED <<session, currentSeq, frames, receiverVars>>

\* Mutant of ValidAck: isValidAck does not look at the bit.
AnyAck ==
    /\ pc = "wait" /\ acks # << >>
    /\ acks' = Tail(acks)
    /\ currentSeq' = 1 - currentSeq
    /\ FrameConfirmed
    /\ UNCHANGED <<session, success, kSocket, frames, receiverVars>>

\* recvfrom returns the ACK the sender waits for.
ValidAck ==
    /\ pc = "wait" /\ acks # << >> /\ Head(acks) = 1 - currentSeq
    /\ acks' = Tail(acks)
    /\ currentSeq' = Head(acks)
    /\ FrameConfirmed
    /\ UNCHANGED <<session, success, kSocket, frames, receiverVars>>

\* recvfrom returns another ACK: it uses up the attempt.
InvalidAck ==
    /\ pc = "wait" /\ acks # << >> /\ Head(acks) # 1 - currentSeq
    /\ Retry
    /\ acks' = IF kSocket' = 0 THEN << >> ELSE Tail(acks)
    /\ UNCHANGED <<session, currentSeq, frames, receiverVars>>

\* The server process is killed: the system call returns early, the kernel
\* keeps the socket until the next session.
Kill ==
    /\ "kill" \in Faults
    /\ pc # "idle"
    /\ pc' = "idle"
    /\ result' = [result EXCEPT ![session] = "failed"]
    /\ UNCHANGED <<session, blk, success, kernelVars, frames, acks, receiverVars>>

-----------------------------------------------------------------------------
(* The receiver.                                                            *)

\* sendAck answers the address the frame came from; nobody hears it when that
\* socket is gone.
SendAck(port, bit) == IF port = kSocket THEN acks' \in Carried(acks, bit) ELSE UNCHANGED acks

\* An END frame flips the bit when it is the expected one.
ReceiveEnd(f) ==
    /\ IsEnd(f)
    /\ expectedSequence' = IF f.seq = expectedSequence THEN 1 - expectedSequence ELSE expectedSequence
    /\ UNCHANGED <<outputFile, receiverFailed>>
    /\ SendAck(f.port, expectedSequence')

\* The payload is stored, or fwrite fails, which the code only reports.
WriteBlock(f) ==
    \/ outputFile' = Append(outputFile, <<f.port, f.blk>>) /\ UNCHANGED receiverFailed
    \/ "disk" \in Faults /\ receiverFailed' = TRUE /\ UNCHANGED outputFile

\* Mutant of ReceiveNew: the bit of the frame is not looked at.
ReceiveAny(f) ==
    /\ ~ IsEnd(f)
    /\ WriteBlock(f)
    /\ expectedSequence' = 1 - f.seq
    /\ SendAck(f.port, expectedSequence')

\* A DATA frame with the expected bit is stored, or lost when fwrite fails,
\* and confirmed in both cases.
ReceiveNew(f) ==
    /\ ~ IsEnd(f) /\ f.seq = expectedSequence
    /\ WriteBlock(f)
    /\ expectedSequence' = 1 - expectedSequence
    /\ SendAck(f.port, expectedSequence')

\* A DATA frame with the other bit is taken for a duplicate and confirmed.
ReceiveDuplicate(f) ==
    /\ ~ IsEnd(f) /\ f.seq # expectedSequence
    /\ UNCHANGED receiverVars
    /\ SendAck(f.port, expectedSequence)

Receive ==
    /\ \E i \in Arrivals :
          /\ frames' = RemoveAt(frames, i)
          /\ ReceiveEnd(frames[i]) \/ ReceiveNew(frames[i]) \/ ReceiveDuplicate(frames[i])
    /\ UNCHANGED senderVars

\* The receiver is started again: its file is opened with "w" and its bit is 0.
RestartReceiver ==
    /\ "restart" \in Faults
    /\ expectedSequence' = 0 /\ outputFile' = << >> /\ receiverFailed' = TRUE
    /\ UNCHANGED <<senderVars, frames, acks>>

-----------------------------------------------------------------------------
SenderStep == NotSock \/ Transmit \/ SocketError \/ Timeout \/ ValidAck \/ InvalidAck \/ Kill

Next == StartTransfer \/ OpenFails \/ SenderStep \/ Receive \/ RestartReceiver

Spec == Init /\ [][Next]_vars

\* The sender's own steps need nobody: a transmission returns, and recvfrom
\* has a timer (ACK_TIMEOUT_MS).  Nothing is assumed of the network, of the
\* receiver, or of anyone starting a session.
FairSpec == Spec /\ WF_vars(SenderStep)

-----------------------------------------------------------------------------
(* Properties.                                                              *)

\* The types of the variables, and the bounds of attempts and queues.
TypeOK ==
    /\ pc \in {"idle", "send", "wait"}
    /\ session \in 0 .. Len(Files)
    /\ blk \in Nat
    /\ success \in BOOLEAN
    /\ currentSeq \in {0, 1}
    /\ kSocket \in 0 .. session
    /\ attempt \in 1 .. MaxRetries
    /\ result \in [Sessions -> {"none", "ok", "failed"}]
    /\ frames \in Seq(Frame)
    /\ Len(frames) <= ChanCap
    /\ acks \in Seq({0, 1})
    /\ Len(acks) <= ChanCap
    /\ expectedSequence \in {0, 1}
    /\ outputFile \in Seq(Sessions \X Nat)
    /\ receiverFailed \in BOOLEAN

Before(x, y) == x[1] < y[1] \/ (x[1] = y[1] /\ x[2] < y[2])

\* The receiver's file holds the blocks in the order the sessions sent them,
\* none of them twice: the bit and the re-sent ACK of clientUser.c:139-160
\* filter every duplicate, over any sequence of sessions, failed and killed
\* ones included, as long as the network keeps the order of the frames.
InOrder ==
    \A i, j \in DOMAIN outputFile : i < j => Before(outputFile[i], outputFile[j])

\* The file has no hole between two blocks of the same session: a block is
\* stored only after the one before it, as long as the receiver does its part.
Contiguous ==
    receiverFailed \/ \A i \in DOMAIN outputFile \ {1} :
        outputFile[i][1] = outputFile[i - 1][1] => outputFile[i][2] = outputFile[i - 1][2] + 1

\* A session that reported success has stored all its blocks, save perhaps
\* the first, which the receiver may have taken for a duplicate because it
\* does not go back to bit 0 at END (clientUser.c:120-131).
OkMeansAllButFirst ==
    receiverFailed \/ \A s \in Sessions : result[s] = "ok" =>
        \A k \in 2 .. Files[s] : Contains(outputFile, <<s, k>>)

\* "Retorna 0 si el receptor confirmó" (stopAndWait.c:56), and what `server`
\* tells its user: a session that reported success has stored all its blocks.
OkMeansDelivered ==
    \A s \in Sessions : result[s] = "ok" =>
        \A k \in 1 .. Files[s] : Contains(outputFile, <<s, k>>)

\* "Es lo que permite al receptor detectar tramas duplicadas y descartarlas"
\* (stopAndWait.c:13-14): no block is stored twice.
NoDuplicate ==
    \A i, j \in DOMAIN outputFile : outputFile[i] = outputFile[j] => i = j

\* When the sender takes an ACK for its own and turns its bit over, a receiver
\* that was never restarted is at that very bit: no stale ACK of an earlier
\* frame, attempt or session is ever taken for the one awaited (isValidAck).
AckMeansInPhase ==
    [][currentSeq' # currentSeq /\ session' = session /\ ~ receiverFailed
           => expectedSequence = currentSeq']_vars

\* A session that began ends, with or without a receiver: the timer and
\* MAX_RETRIES bound every call.
SessionEnds == pc # "idle" ~> pc = "idle"

\* Whatever the sessions, their failures and those of the receiver, the
\* protocol keeps the promise of FileTransfer: what `server` tells its user of
\* a session, and what the receiver's file holds by then.
Promise == INSTANCE FileTransfer
KeepsPromise == Promise!Spec
=============================================================================
