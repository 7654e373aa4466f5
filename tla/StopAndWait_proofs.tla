------------------------- MODULE StopAndWait_proofs -------------------------
(* Theorems about StopAndWait, for every number of sessions, length of file, *)
(* number of retries and capacity of the network.                            *)
EXTENDS StopAndWait, SequenceTheorems, TLAPS

Pos(f) == <<f.port, f.blk>>
Cur    == <<session, blk>>

\* Where the sender stands while a session runs.
SenderInv ==
    pc # "idle" => /\ session > 0
                   /\ blk \in 1 .. EndOf(session)
                   /\ kSocket \in {0, session}

\* Frames are in flight in the order of their first transmission, none beyond
\* the sender, and the transmissions of one block carry one bit.
FramesInv ==
    /\ \A i \in DOMAIN frames : frames[i].blk <= EndOf(frames[i].port)
    /\ \A i \in DOMAIN frames : ~ Before(Cur, Pos(frames[i]))
    /\ \A i, j \in DOMAIN frames : i < j => ~ Before(Pos(frames[j]), Pos(frames[i]))
    /\ \A i, j \in DOMAIN frames : Pos(frames[i]) = Pos(frames[j]) /\ ~ IsEnd(frames[i])
                                      => frames[i].seq = frames[j].seq
    /\ \A i \in DOMAIN frames : pc # "idle" /\ Pos(frames[i]) = Cur /\ ~ IsEnd(frames[i])
                                      => frames[i].seq = currentSeq

\* What is stored is behind what is in flight and behind the sender; and what
\* is stored and can still arrive carries the bit the receiver refuses.
StoredInv ==
    /\ \A i \in DOMAIN outputFile : outputFile[i][2] < EndOf(outputFile[i][1])
    /\ \A i \in DOMAIN outputFile : ~ Before(Cur, outputFile[i])
    /\ \A i \in DOMAIN outputFile : pc # "idle" /\ outputFile[i] = Cur
                                      => currentSeq # expectedSequence
    /\ \A i \in DOMAIN outputFile : \A j \in DOMAIN frames :
            /\ ~ Before(Pos(frames[j]), outputFile[i])
            /\ outputFile[i] = Pos(frames[j]) => frames[j].seq # expectedSequence

OrderInv == TypeOK /\ SenderInv /\ FramesInv /\ StoredInv /\ InOrder

-----------------------------------------------------------------------------
(* The network.                                                             *)

\* A queue that was handed a datagram m holds what it held, then copies of m.
LEMMA CarriedShape ==
    ASSUME NEW S, NEW q \in Seq(S), NEW m \in S, NEW r \in Carried(q, m)
    PROVE  /\ r \in Seq(S)
           /\ Len(r) <= ChanCap
           /\ Len(q) <= Len(r)
           /\ \A i \in 1 .. Len(q) : r[i] = q[i]
           /\ \A i \in Len(q) + 1 .. Len(r) : r[i] = m
<1>1. CASE r = q
  BY <1>1 DEF Carried
<1>2. CASE r = Append(q, m)
  BY <1>2 DEF Carried
<1>3. CASE r = Append(Append(q, m), m)
  <2>1. Append(q, m) \in Seq(S) /\ Len(Append(q, m)) = Len(q) + 1
    OBVIOUS
  <2>2. \A i \in 1 .. Len(q) + 1 : Append(q, m)[i] = IF i = Len(q) + 1 THEN m ELSE q[i]
    OBVIOUS
  <2> QED
    BY <1>3, <2>1, <2>2 DEF Carried
<1> QED
  BY <1>1, <1>2, <1>3 DEF Carried

\* The delivery of the i-th datagram moves the younger ones up.
LEMMA RemoveAtProperties ==
    ASSUME NEW S, NEW q \in Seq(S), NEW i \in DOMAIN q
    PROVE  /\ RemoveAt(q, i) \in Seq(S)
           /\ Len(RemoveAt(q, i)) = Len(q) - 1
           /\ \A k \in 1 .. Len(q) - 1 :
                 RemoveAt(q, i)[k] = IF k < i THEN q[k] ELSE q[k + 1]
<1> DEFINE before == SubSeq(q, 1, i - 1)
           after  == SubSeq(q, i + 1, Len(q))
<1>1. /\ before \in Seq(S)
      /\ Len(before) = i - 1
      /\ \A k \in 1 .. i - 1 : before[k] = q[k]
  <2>1. \A k \in 1 .. i - 1 : q[k] \in S
    OBVIOUS
  <2> QED
    BY <2>1, SubSeqProperties, SMTT(30)
<1>2. /\ after \in Seq(S)
      /\ Len(after) = Len(q) - i
      /\ \A k \in 1 .. Len(q) - i : after[k] = q[i + k]
  <2>1. \A k \in i + 1 .. Len(q) : q[k] \in S
    OBVIOUS
  <2>2. i + 1 \in Int /\ Len(q) \in Int
    OBVIOUS
  <2>3. /\ after \in Seq(S)
        /\ Len(after) = IF i + 1 <= Len(q) THEN Len(q) - (i + 1) + 1 ELSE 0
        /\ \A k \in 1 .. Len(q) - (i + 1) + 1 : after[k] = q[i + 1 + k - 1]
    BY <2>1, <2>2, SubSeqProperties
  <2> QED
    BY <2>3
<1>3. RemoveAt(q, i) = before \o after
  BY DEF RemoveAt
<1> HIDE DEF before, after
<1> QED
  BY <1>1, <1>2, <1>3, SMTT(30)

-----------------------------------------------------------------------------
(* Types.                                                                   *)

TypeInv == TypeOK /\ SenderInv

\* The session numbers are those of the files.
LEMMA SessionFacts ==
    ASSUME TypeOK
    PROVE  /\ Sessions = 1 .. Len(Files)
           /\ Len(Files) \in Nat
           /\ session \in Nat /\ kSocket \in Nat
           /\ \A s \in Sessions : Files[s] \in Nat /\ EndOf(s) \in Nat /\ EndOf(s) = Files[s] + 1
  BY StopAndWaitAssumption DEF TypeOK, Sessions, EndOf

\* What the three ways out of a system call leave of the sender's variables.
LEMMA SenderMoves ==
    ASSUME TypeInv, pc # "idle", session' = session,
           \/ FrameConfirmed /\ success' = success /\ kSocket' = kSocket
           \/ FrameFailed /\ kSocket' \in {0, kSocket}
           \/ Retry
    PROVE  /\ pc' \in {"idle", "send"}
           /\ blk' \in Nat
           /\ success' \in BOOLEAN
           /\ attempt' \in 1 .. MaxRetries
           /\ result' \in [Sessions -> {"none", "ok", "failed"}]
           /\ kSocket' \in {0, kSocket}
           /\ SenderInv'
<1> USE SessionFacts, StopAndWaitAssumption DEF TypeInv, TypeOK, SenderInv
<1>1. session \in Sessions /\ EndOf(session) \in Nat /\ blk \in 1 .. EndOf(session)
  <2>1. session \in 0 .. Len(Files) /\ session > 0 /\ blk \in 1 .. EndOf(session)
    OBVIOUS
  <2> QED
    BY <2>1, SessionFacts
<1>2. EndOf(session)' = EndOf(session)
  BY DEF EndOf
<1>f. ASSUME NEW ok \in BOOLEAN, Finish(ok)
      PROVE  /\ pc' = "idle" /\ blk' = blk /\ attempt' = attempt
             /\ result' \in [Sessions -> {"none", "ok", "failed"}]
  <2>1. (IF ok THEN "ok" ELSE "failed") \in {"none", "ok", "failed"}
    BY <1>f
  <2> QED
    BY <1>f, <2>1, <1>1 DEF Finish
<1>3. CASE FrameConfirmed /\ success' = success /\ kSocket' = kSocket
  <2>1. CASE blk = EndOf(session)
    <3>1. Finish(success)
      BY <1>3, <2>1 DEF FrameConfirmed
    <3>2. success \in BOOLEAN
      OBVIOUS
    <3>3. /\ pc' = "idle" /\ blk' = blk /\ attempt' = attempt
          /\ result' \in [Sessions -> {"none", "ok", "failed"}]
      BY <3>1, <3>2, <1>f
    <3>4. SenderInv'
      BY <3>3
    <3>5. success' \in BOOLEAN /\ kSocket' \in {0, kSocket}
      BY <1>3
    <3>6. blk' \in Nat /\ attempt' \in 1 .. MaxRetries
      BY <3>3
    <3> HIDE DEF TypeOK, SenderInv
    <3> QED
      BY <3>3, <3>4, <3>5, <3>6
  <2>2. CASE blk # EndOf(session)
    BY <1>1, <1>2, <1>3, <2>2, SMTT(30) DEF FrameConfirmed, SendFrame
  <2> QED
    BY <2>1, <2>2
<1>4. CASE FrameFailed /\ kSocket' \in {0, kSocket}
  <2>1. CASE blk = EndOf(session)
    <3>1. Finish(FALSE) /\ success' = FALSE
      BY <1>4, <2>1 DEF FrameFailed
    <3> QED
      BY <1>4, <3>1, <1>f
  <2>2. CASE blk # EndOf(session)
    <3>1. /\ pc' = "send" /\ blk' = EndOf(session) /\ attempt' = 1
          /\ success' = FALSE /\ result' = result
      BY <1>4, <2>2 DEF FrameFailed, SendFrame
    <3>2. EndOf(session) \in 1 .. EndOf(session)' /\ session' > 0 /\ kSocket' \in {0, session'}
      BY <1>1, <1>2, <1>4, SMTT(30)
    <3>3. SenderInv'
      BY <3>1, <3>2
    <3>4. kSocket' \in {0, kSocket} /\ blk' \in Nat /\ attempt' \in 1 .. MaxRetries
      BY <1>1, <1>4, <3>1
    <3>5. result' \in [Sessions -> {"none", "ok", "failed"}] /\ success' \in BOOLEAN
      BY <3>1
    <3> QED
      BY <3>1, <3>3, <3>4, <3>5
  <2> QED
    BY <2>1, <2>2
<1>5. CASE Retry
  <2>1. CASE attempt < MaxRetries
    BY <1>1, <1>2, <1>5, <2>1 DEF Retry
  <2>2. CASE ~ (attempt < MaxRetries)
    BY <1>4, <1>5, <2>2 DEF Retry
  <2> QED
    BY <2>1, <2>2
<1> QED
  BY <1>3, <1>4, <1>5

\* A step of the sender that takes one of these ways out keeps the types.
LEMMA SenderMovesKeepTypes ==
    ASSUME TypeInv, pc # "idle", session' = session,
           \/ FrameConfirmed /\ success' = success /\ kSocket' = kSocket
           \/ FrameFailed /\ kSocket' \in {0, kSocket}
           \/ Retry,
           currentSeq' \in {0, 1}, acks' \in Seq({0, 1}), Len(acks') <= ChanCap,
           frames' = frames, UNCHANGED receiverVars
    PROVE  TypeInv'
<1> USE SessionFacts DEF TypeInv
<1>1. /\ pc' \in {"idle", "send"} /\ blk' \in Nat /\ success' \in BOOLEAN
      /\ attempt' \in 1 .. MaxRetries
      /\ result' \in [Sessions -> {"none", "ok", "failed"}]
      /\ kSocket' \in {0, kSocket} /\ SenderInv'
  BY SenderMoves
<1>2. session' \in 0 .. Len(Files) /\ kSocket' \in 0 .. session'
  BY <1>1 DEF TypeOK
<1>3. /\ frames' \in Seq(Frame) /\ Len(frames') <= ChanCap
      /\ expectedSequence' \in {0, 1} /\ outputFile' \in Seq(Sessions \X Nat)
      /\ receiverFailed' \in BOOLEAN
  BY DEF TypeOK, receiverVars
<1>4. TypeOK'
  BY <1>1, <1>2, <1>3 DEF TypeOK
<1> QED
  BY <1>1, <1>4

\* An answer leaves a queue of bits, within its bound.
LEMMA AcksAfterSendAck ==
    ASSUME TypeOK, NEW port, NEW bit \in {0, 1}, SendAck(port, bit)
    PROVE  acks' \in Seq({0, 1}) /\ Len(acks') <= ChanCap
<1>1. CASE port = kSocket
  <2>1. acks' \in Carried(acks, bit)
    BY <1>1 DEF SendAck
  <2> QED
    BY <2>1, CarriedShape DEF TypeOK
<1>2. CASE port # kSocket
  BY <1>2 DEF SendAck, TypeOK
<1> QED
  BY <1>1, <1>2

\* Every step keeps the types and the sender in the session it began.
LEMMA TypeInvStep == TypeInv /\ [Next]_vars => TypeInv'
<1> SUFFICES ASSUME TypeInv, [Next]_vars PROVE TypeInv'
  OBVIOUS
<1> USE SessionFacts, StopAndWaitAssumption DEF TypeInv
<1>1. CASE StartTransfer
  <2>1. session' \in Sessions /\ session' \in Nat
    BY <1>1 DEF StartTransfer, TypeOK
  <2>2. EndOf(session)' \in Nat /\ 1 <= EndOf(session)'
    BY <2>1 DEF EndOf
  <2>3. kSocket' \in {0, session'}
    BY <1>1 DEF StartTransfer
  <2>4. TypeOK'
    <3>1. /\ pc' = "send" /\ blk' = 1 /\ attempt' = 1
          /\ success' = TRUE /\ currentSeq' = 0 /\ acks' = << >>
          /\ result' = result /\ frames' = frames
          /\ expectedSequence' = expectedSequence /\ outputFile' = outputFile
          /\ receiverFailed' = receiverFailed
      BY <1>1 DEF StartTransfer, SendFrame, receiverVars
    <3>2. session' \in 0 .. Len(Files) /\ kSocket' \in 0 .. session'
      BY <2>1, <2>3
    <3>3. attempt' \in 1 .. MaxRetries
      BY <3>1
    <3>4. acks' \in Seq({0, 1}) /\ Len(acks') <= ChanCap
      BY <3>1
    <3>5. /\ result' \in [Sessions -> {"none", "ok", "failed"}]
          /\ frames' \in Seq(Frame) /\ Len(frames') <= ChanCap
          /\ expectedSequence' \in {0, 1} /\ outputFile' \in Seq(Sessions \X Nat)
          /\ receiverFailed' \in BOOLEAN
      BY <3>1 DEF TypeOK
    <3> QED
      BY <3>1, <3>2, <3>3, <3>4, <3>5 DEF TypeOK
  <2>5. SenderInv'
    BY <1>1, <2>1, <2>2, <2>3 DEF StartTransfer, SenderInv, SendFrame
  <2> QED
    BY <2>4, <2>5
<1>2. CASE OpenFails
  BY <1>2 DEF OpenFails, TypeOK, SenderInv, kernelVars, receiverVars
<1>3. CASE NotSock
  <2>1. pc # "idle" /\ session' = session /\ FrameFailed /\ kSocket' = kSocket
    BY <1>3 DEF NotSock
  <2>2. frames' = frames /\ acks' = acks /\ currentSeq' = currentSeq /\ UNCHANGED receiverVars
    BY <1>3 DEF NotSock
  <2>3. acks' \in Seq({0, 1}) /\ Len(acks') <= ChanCap /\ currentSeq' \in {0, 1}
    BY <2>2 DEF TypeOK
  <2> QED
    BY <2>1, <2>2, <2>3, SenderMovesKeepTypes
<1>4. CASE Transmit
  <2> DEFINE f == [port |-> kSocket, seq |-> currentSeq, blk |-> blk]
  <2>1. f \in Frame
    BY <1>4 DEF Transmit, TypeOK, Frame
  <2>2. frames' \in Carried(frames, f)
    BY <1>4 DEF Transmit
  <2> HIDE DEF f
  <2>3. frames' \in Seq(Frame) /\ Len(frames') <= ChanCap
    BY <2>1, <2>2, CarriedShape DEF TypeOK
  <2>4. TypeOK'
    BY <1>4, <2>3 DEF Transmit, TypeOK, kernelVars, receiverVars
  <2>5. SenderInv'
    BY <1>4 DEF Transmit, TypeOK, SenderInv, kernelVars, EndOf
  <2> QED
    BY <2>4, <2>5
<1>5. CASE SocketError
  <2>1. pc # "idle" /\ session' = session /\ FrameFailed /\ kSocket' = kSocket
    BY <1>5 DEF SocketError
  <2>2. frames' = frames /\ acks' = acks /\ currentSeq' = currentSeq /\ UNCHANGED receiverVars
    BY <1>5 DEF SocketError
  <2>3. acks' \in Seq({0, 1}) /\ Len(acks') <= ChanCap /\ currentSeq' \in {0, 1}
    BY <2>2 DEF TypeOK
  <2> QED
    BY <2>1, <2>2, <2>3, SenderMovesKeepTypes
<1>6. CASE Timeout
  <2>1. pc # "idle" /\ session' = session /\ Retry
    BY <1>6 DEF Timeout
  <2>2. acks' \in Seq({0, 1}) /\ Len(acks') <= ChanCap
    BY <1>6 DEF Timeout, TypeOK
  <2>3. frames' = frames /\ currentSeq' \in {0, 1} /\ UNCHANGED receiverVars
    BY <1>6 DEF Timeout, TypeOK
  <2> QED
    BY <2>1, <2>2, <2>3, SenderMovesKeepTypes
<1>7. CASE ValidAck
  <2>1. /\ pc # "idle" /\ session' = session
        /\ FrameConfirmed /\ success' = success /\ kSocket' = kSocket
    BY <1>7 DEF ValidAck
  <2>2. /\ acks' \in Seq({0, 1}) /\ Len(acks') <= ChanCap
        /\ currentSeq' \in {0, 1}
    BY <1>7 DEF ValidAck, TypeOK
  <2>3. frames' = frames /\ UNCHANGED receiverVars
    BY <1>7 DEF ValidAck
  <2> QED
    BY <2>1, <2>2, <2>3, SenderMovesKeepTypes
<1>8. CASE InvalidAck
  <2>1. pc # "idle" /\ session' = session /\ Retry
    BY <1>8 DEF InvalidAck
  <2>2. acks' \in Seq({0, 1}) /\ Len(acks') <= ChanCap
    BY <1>8 DEF InvalidAck, TypeOK
  <2>3. frames' = frames /\ currentSeq' \in {0, 1} /\ UNCHANGED receiverVars
    BY <1>8 DEF InvalidAck, TypeOK
  <2> QED
    BY <2>1, <2>2, <2>3, SenderMovesKeepTypes
<1>9. CASE Kill
  BY <1>9 DEF Kill, TypeOK, SenderInv, kernelVars, receiverVars
<1>10. CASE Receive
  <2>1. PICK i \in Arrivals :
           /\ frames' = RemoveAt(frames, i)
           /\ ReceiveEnd(frames[i]) \/ ReceiveNew(frames[i]) \/ ReceiveDuplicate(frames[i])
    BY <1>10 DEF Receive
  <2>2. i \in DOMAIN frames /\ frames[i] \in Frame
    BY DEF Arrivals, TypeOK
  <2>3. frames' \in Seq(Frame) /\ Len(frames') <= ChanCap
    <3>1. RemoveAt(frames, i) \in Seq(Frame) /\ Len(RemoveAt(frames, i)) = Len(frames) - 1
      BY <2>2, RemoveAtProperties DEF TypeOK
    <3> QED
      BY <2>1, <3>1 DEF TypeOK
  <2> DEFINE f == frames[i]
  <2>4. expectedSequence' \in {0, 1} /\ outputFile' \in Seq(Sessions \X Nat)
    <3>1. <<f.port, f.blk>> \in Sessions \X Nat
      BY <2>2 DEF Frame
    <3> HIDE DEF f
    <3>2. CASE ReceiveEnd(f)
      BY <3>2 DEF ReceiveEnd, TypeOK
    <3>3. CASE ReceiveNew(f)
      <4>1. outputFile \in Seq(Sessions \X Nat) /\ expectedSequence \in {0, 1}
        BY DEF TypeOK
      <4>2. Append(outputFile, <<f.port, f.blk>>) \in Seq(Sessions \X Nat)
        BY <3>1, <4>1
      <4>3. expectedSequence' = 1 - expectedSequence
        BY <3>3 DEF ReceiveNew, WriteBlock
      <4>4. outputFile' = Append(outputFile, <<f.port, f.blk>>) \/ outputFile' = outputFile
        BY <3>3 DEF ReceiveNew, WriteBlock
      <4>5. outputFile' \in Seq(Sessions \X Nat)
        BY <4>1, <4>2, <4>4, Zenon
      <4>6. expectedSequence' \in {0, 1}
        BY <4>1, <4>3
      <4> QED
        BY <4>5, <4>6
    <3>4. CASE ReceiveDuplicate(f)
      BY <3>4 DEF ReceiveDuplicate, TypeOK, receiverVars
    <3> QED
      BY <2>1, <3>2, <3>3, <3>4 DEF f
  <2>5. acks' \in Seq({0, 1}) /\ Len(acks') <= ChanCap
    BY <2>1, <2>4, AcksAfterSendAck DEF ReceiveEnd, ReceiveNew, ReceiveDuplicate, TypeOK
  <2>6. UNCHANGED senderVars
    BY <1>10 DEF Receive
  <2>7. receiverFailed' \in BOOLEAN
    BY <2>1 DEF ReceiveEnd, ReceiveNew, ReceiveDuplicate, WriteBlock, receiverVars, TypeOK
  <2> QED
    BY <2>3, <2>4, <2>5, <2>6, <2>7 DEF TypeOK, SenderInv, senderVars, EndOf
<1>11. CASE RestartReceiver
  BY <1>11 DEF RestartReceiver, TypeOK, SenderInv, senderVars, EndOf
<1>12. CASE UNCHANGED vars
  BY <1>12 DEF TypeOK, SenderInv, vars, senderVars, receiverVars, EndOf
<1> QED
  BY <1>1, <1>2, <1>3, <1>4, <1>5, <1>6, <1>7, <1>8, <1>9, <1>10, <1>11, <1>12
     DEF Next, SenderStep

\* A protocol that has not begun.
LEMMA InitTypeInv == Init => TypeInv
<1> SUFFICES ASSUME Init PROVE TypeInv
  OBVIOUS
<1>1. Len(Files) \in Nat /\ Sessions = DOMAIN Files
  BY StopAndWaitAssumption DEF Sessions
<1>2. result \in [Sessions -> {"none", "ok", "failed"}]
  BY DEF Init
<1>3. session \in 0 .. Len(Files) /\ kSocket \in 0 .. session /\ attempt \in 1 .. MaxRetries
  BY <1>1, StopAndWaitAssumption DEF Init
<1>4. /\ frames \in Seq(Frame) /\ Len(frames) <= ChanCap
      /\ acks \in Seq({0, 1}) /\ Len(acks) <= ChanCap
      /\ outputFile \in Seq(Sessions \X Nat)
  BY StopAndWaitAssumption DEF Init
<1>5. /\ pc \in {"idle", "send", "wait"} /\ blk \in Nat /\ success \in BOOLEAN
      /\ currentSeq \in {0, 1} /\ expectedSequence \in {0, 1} /\ receiverFailed \in BOOLEAN
  BY DEF Init
<1>6. SenderInv
  BY DEF Init, SenderInv
<1> QED
  BY <1>2, <1>3, <1>4, <1>5, <1>6 DEF TypeInv, TypeOK

\* The variables keep their types: the attempts stay within MAX_RETRIES, the
\* bits are bits, the socket is the one of a session that began.
THEOREM TypeCorrect == Spec => []TypeOK
<1>1. Init => TypeInv
  BY InitTypeInv
<1> QED
  BY <1>1, TypeInvStep, PTL DEF Spec, TypeInv

-----------------------------------------------------------------------------
(* The order of the stored blocks.                                          *)

Position == Nat \X Nat

\* Positions are totally ordered.
LEMMA BeforeIsOrder ==
    /\ \A x \in Position : ~ Before(x, x)
    /\ \A x, y \in Position : Before(x, y) \/ x = y \/ Before(y, x)
    /\ \A x, y \in Position : Before(x, y) => ~ Before(y, x)
    /\ \A x, y, z \in Position : Before(x, y) /\ Before(y, z) => Before(x, z)
  BY DEF Position, Before

\* A frame and a stored block have a place in the order of sending.
LEMMA Positions ==
    ASSUME TypeOK
    PROVE  /\ Cur \in Position
           /\ \A i \in DOMAIN frames : Pos(frames[i]) \in Position
           /\ \A i \in DOMAIN outputFile : outputFile[i] \in Position
           /\ DOMAIN frames = 1 .. Len(frames) /\ Len(frames) \in Nat
           /\ DOMAIN outputFile = 1 .. Len(outputFile) /\ Len(outputFile) \in Nat
<1>1. Cur \in Position
  BY SessionFacts DEF TypeOK, Cur, Position
<1>2. \A s \in Sessions : s \in Nat
  BY SessionFacts
<1>3. ASSUME NEW i \in DOMAIN frames PROVE Pos(frames[i]) \in Position
  <2>1. frames[i] \in Frame
    BY DEF TypeOK
  <2> QED
    BY <1>2, <2>1 DEF Pos, Position, Frame
<1>4. ASSUME NEW i \in DOMAIN outputFile PROVE outputFile[i] \in Position
  <2>1. outputFile[i] \in Sessions \X Nat
    BY DEF TypeOK
  <2> QED
    BY <1>2, <2>1 DEF Position
<1>5. /\ DOMAIN frames = 1 .. Len(frames) /\ Len(frames) \in Nat
      /\ DOMAIN outputFile = 1 .. Len(outputFile) /\ Len(outputFile) \in Nat
  BY DEF TypeOK
<1> QED
  BY <1>1, <1>3, <1>4, <1>5

\* A step of the sender that sends nothing keeps the order when the sender
\* goes on to a later frame, stops, or stays where it is with the same bit.
LEMMA SenderMovesOn ==
    ASSUME OrderInv, TypeOK', UNCHANGED <<frames, receiverVars>>,
           \/ Before(Cur, Cur')
           \/ Cur' = Cur /\ pc' = "idle"
           \/ Cur' = Cur /\ pc # "idle" /\ currentSeq' = currentSeq
           \/ UNCHANGED <<Cur, pc, currentSeq>>
    PROVE  FramesInv' /\ StoredInv' /\ InOrder'
<1>1. /\ frames' = frames /\ outputFile' = outputFile
      /\ expectedSequence' = expectedSequence
  BY DEF receiverVars
<1>2. InOrder'
  BY <1>1 DEF OrderInv, InOrder
<1>3. Cur \in Position /\ Cur' \in Position
  <2>1. session' \in Nat /\ blk' \in Nat
    BY StopAndWaitAssumption DEF TypeOK
  <2> QED
    BY <2>1, Positions DEF Cur, Position, OrderInv
<1>4. ~ Before(Cur', Cur)
  BY <1>3, BeforeIsOrder
<1>5. ASSUME NEW p \in Position, ~ Before(Cur, p)
      PROVE  ~ Before(Cur', p) /\ (p = Cur' => Cur = Cur' /\ ~ Before(Cur, Cur'))
  BY <1>3, <1>4, <1>5, BeforeIsOrder
<1>6. \A i \in DOMAIN frames : Pos(frames[i]) \in Position /\ Pos(frames[i])' = Pos(frames[i])
  BY <1>1, Positions DEF OrderInv, Pos
<1>7. FramesInv'
  BY <1>1, <1>5, <1>6 DEF OrderInv, FramesInv, IsEnd, EndOf
<1>8. StoredInv'
  BY <1>1, <1>5, <1>6, Positions DEF OrderInv, StoredInv, EndOf
<1> QED
  BY <1>2, <1>7, <1>8

\* The sender's handling of an answer moves it on, or leaves it where it is.
LEMMA SenderMovesOnOrStays ==
    ASSUME TypeInv, pc # "idle", session' = session,
           \/ FrameConfirmed
           \/ FrameFailed /\ currentSeq' = currentSeq
           \/ Retry /\ currentSeq' = currentSeq
    PROVE  \/ Before(Cur, Cur')
           \/ Cur' = Cur /\ pc' = "idle"
           \/ Cur' = Cur /\ pc # "idle" /\ currentSeq' = currentSeq
<1>1. session \in Sessions /\ session \in Nat /\ EndOf(session) \in Nat /\ blk \in 1 .. EndOf(session)
  BY SessionFacts DEF TypeInv, TypeOK, SenderInv
<1>2. ASSUME NEW b \in Nat, SendFrame(b), blk < b
      PROVE  Before(Cur, Cur')
  BY <1>1, <1>2 DEF SendFrame, Cur, Before
<1>3. ASSUME NEW ok, Finish(ok)
      PROVE  Cur' = Cur /\ pc' = "idle"
  BY <1>3 DEF Finish, Cur
<1>4. CASE FrameConfirmed
  BY <1>1, <1>2, <1>3, <1>4 DEF FrameConfirmed
<1>5. CASE FrameFailed
  <2>1. CASE blk = EndOf(session)
    BY <1>3, <1>5, <2>1 DEF FrameFailed
  <2>2. CASE blk # EndOf(session)
    <3>1. blk < EndOf(session)
      BY <1>1, <2>2
    <3> QED
      BY <1>1, <1>2, <1>5, <2>2, <3>1 DEF FrameFailed
  <2> QED
    BY <2>1, <2>2
<1>6. CASE Retry /\ currentSeq' = currentSeq
  BY <1>5, <1>6 DEF Retry, Cur
<1> QED
  BY <1>4, <1>5, <1>6

\* A transmission adds the current frame, with the current bit, at the end.
LEMMA TransmitKeepsOrder ==
    ASSUME OrderInv, Transmit, TypeOK'
    PROVE  FramesInv' /\ StoredInv' /\ InOrder'
<1> DEFINE f == [port |-> kSocket, seq |-> currentSeq, blk |-> blk]
<1>1. /\ pc # "idle" /\ pc' # "idle" /\ Cur' = Cur /\ currentSeq' = currentSeq
      /\ outputFile' = outputFile /\ expectedSequence' = expectedSequence
  BY DEF Transmit, Cur, kernelVars, receiverVars
<1>2. f \in Frame /\ Pos(f) = Cur /\ f.seq = currentSeq
  <2>1. kSocket = session /\ session \in Sessions /\ currentSeq \in {0, 1} /\ blk \in Nat
    BY SessionFacts DEF OrderInv, SenderInv, Transmit, TypeOK
  <2> QED
    BY <2>1 DEF Frame, Pos, Cur
<1>3. frames' \in Carried(frames, f)
  BY DEF Transmit
<1> HIDE DEF f
<1>4. /\ DOMAIN frames = 1 .. Len(frames) /\ Len(frames) \in Nat
      /\ DOMAIN frames' = 1 .. Len(frames') /\ Len(frames') \in Nat
      /\ \A i \in DOMAIN frames' : \/ i \in DOMAIN frames /\ frames'[i] = frames[i]
                                   \/ i > Len(frames) /\ frames'[i] = f
  <2>1. frames \in Seq(Frame) /\ frames' \in Seq(Frame)
    BY DEF OrderInv, TypeOK
  <2>2. /\ Len(frames) <= Len(frames')
        /\ \A i \in 1 .. Len(frames) : frames'[i] = frames[i]
        /\ \A i \in Len(frames) + 1 .. Len(frames') : frames'[i] = f
    BY <1>2, <1>3, <2>1, CarriedShape
  <2> QED
    BY <2>1, <2>2
<1>5. /\ Cur \in Position
      /\ \A i \in DOMAIN frames : Pos(frames[i]) \in Position
      /\ \A i \in DOMAIN outputFile : outputFile[i] \in Position
  BY Positions DEF OrderInv
<1>6. FramesInv'
  <2>5. \A i \in DOMAIN frames' : frames'[i].blk <= EndOf(frames'[i].port)
    <3>1. f.blk <= EndOf(f.port)
      BY SessionFacts DEF OrderInv, TypeOK, SenderInv, Transmit, f
    <3> QED
      BY <1>4, <3>1 DEF OrderInv, FramesInv
  <2>1. \A i \in DOMAIN frames' : ~ Before(Cur, Pos(frames'[i]))
    BY <1>2, <1>4, <1>5, BeforeIsOrder DEF OrderInv, FramesInv
  <2>2. ASSUME NEW i \in DOMAIN frames', NEW j \in DOMAIN frames', i < j
        PROVE  ~ Before(Pos(frames'[j]), Pos(frames'[i]))
    BY <1>2, <1>4, <1>5, <2>1, <2>2, BeforeIsOrder DEF OrderInv, FramesInv
  <2>3. ASSUME NEW i \in DOMAIN frames', Pos(frames'[i]) = Cur, ~ IsEnd(frames'[i])
        PROVE  frames'[i].seq = currentSeq
    BY <1>1, <1>2, <1>4, <2>3 DEF OrderInv, FramesInv
  <2>4. ASSUME NEW i \in DOMAIN frames', NEW j \in DOMAIN frames',
               Pos(frames'[i]) = Pos(frames'[j]), ~ IsEnd(frames'[i])
        PROVE  frames'[i].seq = frames'[j].seq
    <3>1. IsEnd(frames'[i]) = IsEnd(frames'[j])
      BY <2>4 DEF IsEnd, Pos
    <3> QED
      BY <1>1, <1>2, <1>4, <2>3, <2>4, <3>1 DEF OrderInv, FramesInv
  <2> QED
    BY <1>1, <2>1, <2>2, <2>3, <2>4, <2>5 DEF FramesInv, Pos, IsEnd, EndOf
<1>7. StoredInv'
  <2>1. ASSUME NEW i \in DOMAIN outputFile, NEW j \in DOMAIN frames'
        PROVE  /\ ~ Before(Pos(frames'[j]), outputFile[i])
               /\ outputFile[i] = Pos(frames'[j]) => frames'[j].seq # expectedSequence
    BY <1>1, <1>2, <1>4, <2>1 DEF OrderInv, StoredInv
  <2> QED
    BY <1>1, <2>1 DEF OrderInv, StoredInv, Pos, EndOf
<1>8. InOrder'
  BY <1>1 DEF OrderInv, InOrder
<1> QED
  BY <1>6, <1>7, <1>8

\* A delivery takes the oldest frame, and stores it only when it is new.
LEMMA ReceiveKeepsOrder ==
    ASSUME OrderInv, Receive, TypeOK', "reorder" \notin Faults
    PROVE  FramesInv' /\ StoredInv' /\ InOrder'
<1> DEFINE f == frames[1]
<1>1. /\ frames # << >> /\ 1 \in DOMAIN frames
      /\ frames' = RemoveAt(frames, 1)
      /\ ReceiveEnd(f) \/ ReceiveNew(f) \/ ReceiveDuplicate(f)
  BY DEF Receive, Arrivals
<1>2. /\ pc' = pc /\ currentSeq' = currentSeq /\ Cur' = Cur
  BY DEF Receive, senderVars, Cur
<1>3. /\ DOMAIN frames = 1 .. Len(frames) /\ Len(frames) \in Nat
      /\ DOMAIN outputFile = 1 .. Len(outputFile) /\ Len(outputFile) \in Nat
      /\ Cur \in Position
      /\ \A i \in DOMAIN frames : Pos(frames[i]) \in Position
      /\ \A i \in DOMAIN outputFile : outputFile[i] \in Position
  BY Positions DEF OrderInv
<1>4. /\ DOMAIN frames' = 1 .. Len(frames) - 1
      /\ \A i \in DOMAIN frames' : frames'[i] = frames[i + 1] /\ i + 1 \in DOMAIN frames
  <2>1. frames \in Seq(Frame) /\ frames' \in Seq(Frame)
    BY DEF OrderInv, TypeOK
  <2>2. /\ Len(frames') = Len(frames) - 1
        /\ \A i \in 1 .. Len(frames) - 1 : frames'[i] = frames[i + 1]
    <3>1. /\ Len(RemoveAt(frames, 1)) = Len(frames) - 1
          /\ \A i \in 1 .. Len(frames) - 1 :
                RemoveAt(frames, 1)[i] = IF i < 1 THEN frames[i] ELSE frames[i + 1]
      BY <1>1, <2>1, RemoveAtProperties
    <3>2. frames' = RemoveAt(frames, 1)
      BY <1>1
    <3>3. \A i \in 1 .. Len(frames) - 1 : ~ (i < 1)
      OBVIOUS
    <3> QED
      BY <3>1, <3>2, <3>3, Zenon
  <2> QED
    BY <1>3, <2>1, <2>2
<1>5. FramesInv'
  BY <1>2, <1>3, <1>4 DEF OrderInv, FramesInv, IsEnd, EndOf, Pos
\* f is behind the other frames, and in front of what is stored.
<1>6. /\ \A i \in DOMAIN frames' : ~ Before(Pos(frames'[i]), Pos(f))
      /\ \A i \in DOMAIN outputFile : ~ Before(Pos(f), outputFile[i])
      /\ ~ Before(Cur, Pos(f)) /\ Pos(f) \in Position
      /\ \A i \in DOMAIN frames' : Pos(frames'[i]) \in Position
  BY <1>1, <1>3, <1>4 DEF OrderInv, FramesInv, StoredInv
<1>7. /\ f \in Frame /\ f.seq \in {0, 1} /\ f.port \in Sessions /\ f.blk \in Nat
      /\ expectedSequence \in {0, 1}
      /\ f.blk <= EndOf(f.port) /\ EndOf(f.port) \in Nat
  <2>1. f \in Frame
    BY <1>1 DEF OrderInv, TypeOK
  <2>2. f.seq \in {0, 1} /\ f.port \in Sessions /\ f.blk \in Nat
    BY <2>1 DEF Frame
  <2> QED
    BY <1>1, <2>1, <2>2, SessionFacts DEF OrderInv, TypeOK, FramesInv
<1> HIDE DEF f
<1>8. CASE ReceiveDuplicate(f)
  <2>1. outputFile' = outputFile /\ expectedSequence' = expectedSequence
    BY <1>8 DEF ReceiveDuplicate, receiverVars
  <2>2. StoredInv'
    BY <1>2, <1>4, <2>1 DEF OrderInv, StoredInv, EndOf, Pos
  <2>3. InOrder'
    BY <2>1 DEF OrderInv, InOrder
  <2> QED
    BY <1>5, <2>2, <2>3
\* Nothing stored is the current frame or in flight once END is processed.
<1>9. CASE ReceiveEnd(f)
  <2>1. outputFile' = outputFile
    BY <1>9 DEF ReceiveEnd
  <2>2. ASSUME NEW i \in DOMAIN outputFile PROVE Before(outputFile[i], Pos(f))
    <3>1. outputFile[i] # Pos(f)
      <4>1. outputFile[i][2] < EndOf(outputFile[i][1])
        BY DEF OrderInv, StoredInv
      <4>2. Pos(f)[2] = EndOf(Pos(f)[1]) /\ Pos(f)[1] = f.port
        BY <1>9 DEF ReceiveEnd, IsEnd, Pos
      <4> QED
        BY <1>7, <4>1, <4>2
    <3> QED
      BY <1>3, <1>6, <3>1, BeforeIsOrder
  <2>3. ASSUME NEW i \in DOMAIN outputFile
        PROVE  /\ outputFile[i] # Cur
               /\ \A j \in DOMAIN frames' : outputFile[i] # Pos(frames'[j])
    BY <1>3, <1>6, <2>2, BeforeIsOrder
  <2>4. StoredInv'
    BY <1>2, <1>4, <2>1, <2>3 DEF OrderInv, StoredInv, EndOf, Pos
  <2>5. InOrder'
    BY <2>1 DEF OrderInv, InOrder
  <2> QED
    BY <1>5, <2>4, <2>5
\* f is new: nothing stored is f, so everything stored is before it.
<1>10. CASE ReceiveNew(f)
  <2>1. ASSUME NEW i \in DOMAIN outputFile PROVE Before(outputFile[i], Pos(f))
    <3>1. outputFile[i] # Pos(f)
      BY <1>1, <1>10 DEF OrderInv, StoredInv, ReceiveNew, f
    <3> QED
      BY <1>3, <1>6, <3>1, BeforeIsOrder
  <2>2. ASSUME NEW i \in DOMAIN outputFile
        PROVE  /\ outputFile[i] # Cur
               /\ \A j \in DOMAIN frames' : outputFile[i] # Pos(frames'[j])
    BY <1>3, <1>6, <2>1, BeforeIsOrder
  <2>3. expectedSequence' # f.seq
    BY <1>7, <1>10 DEF ReceiveNew
  <2>4. Pos(f) = Cur /\ pc # "idle" => currentSeq = f.seq
    BY <1>1, <1>10 DEF OrderInv, FramesInv, ReceiveNew, f
  <2>5. \A j \in DOMAIN frames' : Pos(frames'[j]) = Pos(f) => frames'[j].seq = f.seq
    BY <1>1, <1>4, <1>10 DEF OrderInv, FramesInv, ReceiveNew, f
  <2>6. Pos(f)[2] < EndOf(Pos(f)[1])
    BY <1>7, <1>10 DEF ReceiveNew, IsEnd, Pos
  <2>7. CASE outputFile' = outputFile
    BY <1>2, <1>4, <1>5, <2>2, <2>7 DEF OrderInv, StoredInv, InOrder, EndOf, Pos
  <2>8. CASE outputFile' = Append(outputFile, Pos(f))
    <3>1. /\ DOMAIN outputFile' = 1 .. Len(outputFile) + 1
          /\ \A i \in DOMAIN outputFile : outputFile'[i] = outputFile[i]
          /\ outputFile'[Len(outputFile) + 1] = Pos(f)
      BY <1>3, <2>8, AppendProperties DEF OrderInv, TypeOK
    <3>2. \A i \in DOMAIN outputFile' :
             \/ i \in DOMAIN outputFile /\ outputFile'[i] = outputFile[i]
             \/ i = Len(outputFile) + 1 /\ outputFile'[i] = Pos(f)
      BY <1>3, <3>1
    <3>3. StoredInv'
      <4>1. ASSUME NEW i \in DOMAIN outputFile'
            PROVE  /\ outputFile'[i][2] < EndOf(outputFile'[i][1])
                   /\ ~ Before(Cur, outputFile'[i])
                   /\ pc # "idle" /\ outputFile'[i] = Cur => currentSeq # expectedSequence'
        BY <1>6, <2>2, <2>3, <2>4, <2>6, <3>2 DEF OrderInv, StoredInv
      <4>2. ASSUME NEW i \in DOMAIN outputFile', NEW j \in DOMAIN frames'
            PROVE  /\ ~ Before(Pos(frames'[j]), outputFile'[i])
                   /\ outputFile'[i] = Pos(frames'[j]) => frames'[j].seq # expectedSequence'
        BY <1>4, <1>6, <2>2, <2>3, <2>5, <3>2 DEF OrderInv, StoredInv
      <4> QED
        BY <1>2, <4>1, <4>2 DEF StoredInv, Pos, EndOf
    <3>4. InOrder'
      <4>1. ASSUME NEW i \in DOMAIN outputFile', NEW j \in DOMAIN outputFile', i < j
            PROVE  Before(outputFile'[i], outputFile'[j])
        BY <1>3, <2>1, <3>2, <4>1 DEF OrderInv, InOrder
      <4> QED
        BY <4>1 DEF InOrder, Before
    <3> QED
      BY <1>5, <3>3, <3>4
  <2> QED
    BY <1>10, <2>7, <2>8 DEF ReceiveNew, WriteBlock, Pos
<1> QED
  BY <1>1, <1>8, <1>9, <1>10

\* The theorem's two halves: every step keeps the order, and it holds at first.
LEMMA OrderInvStep ==
    ASSUME "reorder" \notin Faults
    PROVE  OrderInv /\ [Next]_vars => OrderInv'
<1> SUFFICES ASSUME OrderInv, [Next]_vars PROVE OrderInv'
  OBVIOUS
<1>1. TypeInv /\ TypeInv' /\ TypeOK /\ TypeOK' /\ SenderInv'
  BY TypeInvStep DEF OrderInv, TypeInv
<1>2. CASE StartTransfer
  <2>1. Before(Cur, Cur')
    BY <1>1, <1>2 DEF StartTransfer, Cur, Before, TypeOK
  <2> QED
    BY <1>1, <1>2, <2>1, SenderMovesOn DEF StartTransfer, OrderInv
<1>3. CASE OpenFails
  <2>1. Before(Cur, Cur')
    BY <1>1, <1>3 DEF OpenFails, Cur, Before, TypeOK
  <2> QED
    BY <1>1, <1>3, <2>1, SenderMovesOn DEF OpenFails, OrderInv
<1>4. CASE NotSock \/ SocketError \/ Timeout \/ ValidAck \/ InvalidAck
  <2>1. /\ pc # "idle" /\ session' = session
        /\ UNCHANGED <<frames, receiverVars>>
        /\ \/ FrameConfirmed
           \/ FrameFailed /\ currentSeq' = currentSeq
           \/ Retry /\ currentSeq' = currentSeq
    BY <1>4 DEF NotSock, SocketError, Timeout, ValidAck, InvalidAck, receiverVars
  <2> QED
    BY <1>1, <2>1, SenderMovesOnOrStays, SenderMovesOn DEF OrderInv
<1>5. CASE Transmit
  BY <1>1, <1>5, TransmitKeepsOrder DEF OrderInv
<1>6. CASE Kill
  <2>1. Cur' = Cur /\ pc' = "idle" /\ UNCHANGED <<frames, receiverVars>>
    BY <1>6 DEF Kill, Cur
  <2> QED
    BY <1>1, <2>1, SenderMovesOn DEF OrderInv
<1>7. CASE Receive
  BY <1>1, <1>7, ReceiveKeepsOrder DEF OrderInv
<1>8. CASE RestartReceiver
  <2>1. UNCHANGED <<Cur, pc, currentSeq, frames>> /\ outputFile' = << >>
    BY <1>8 DEF RestartReceiver, senderVars, Cur
  <2>2. FramesInv'
    BY <2>1 DEF OrderInv, FramesInv, IsEnd, EndOf, Pos
  <2> QED
    BY <1>1, <2>1, <2>2 DEF OrderInv, StoredInv, InOrder
<1>9. CASE UNCHANGED vars
  <2>1. UNCHANGED <<Cur, pc, currentSeq>> /\ UNCHANGED <<frames, receiverVars>>
    BY <1>9 DEF vars, senderVars, receiverVars, Cur
  <2> QED
    BY <1>1, <2>1, SenderMovesOn DEF OrderInv
<1> QED
  BY <1>2, <1>3, <1>4, <1>5, <1>6, <1>7, <1>8, <1>9 DEF Next, SenderStep

\* Over a network that may lose, delay and double frames but not swap them,
\* the receiver's file holds blocks of all sessions in the order they were
\* sent and none twice, whatever else fails: sockets, files, disks, killed
\* senders and restarted receivers.
THEOREM StoredInOrder ==
    ASSUME "reorder" \notin Faults
    PROVE  Spec => []InOrder
<1>1. Init => OrderInv
  <2>1. Init => TypeOK /\ SenderInv
    BY InitTypeInv DEF TypeInv
  <2> QED
    BY <2>1 DEF Init, OrderInv, FramesInv, StoredInv, InOrder
<1>2. OrderInv /\ [Next]_vars => OrderInv'
  BY OrderInvStep
<1> QED
  BY <1>1, <1>2, PTL DEF Spec, OrderInv
=============================================================================
