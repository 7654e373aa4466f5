----------------------- MODULE StopAndWait_refinement -----------------------
(* The two bits of the protocol stay in phase, and so it keeps the promise   *)
(* of FileTransfer, over a network that may lose, delay and double frames    *)
(* but not swap them.                                                        *)
EXTENDS StopAndWait_proofs

Has(s, k) == Contains(outputFile, <<s, k>>)

\* The first block that a session is sure to deliver: the receiver is known to
\* be at bit 0 only when the first session begins.
First(s) == IF s = 1 THEN 1 ELSE 2

Mine(i) == frames[i].port = session

\* A session that can transmit, to a receiver that has done its part so far.
Running == pc # "idle" /\ kSocket # 0 /\ ~ receiverFailed

\* The frames of the session carry the former bit, then the sender's, and those
\* with the sender's are all of its block; the ACKs say that it is awaited,
\* then that it has arrived, and are of one kind once the receiver awaits it.
\* While frames of former sessions are in flight nothing of this one arrives.
PhaseInv ==
    Running =>
    /\ \A i, j \in DOMAIN frames :
          i < j /\ Mine(i) /\ Mine(j) /\ frames[i].seq = currentSeq => frames[j].seq = currentSeq
    /\ \A i \in DOMAIN frames :
          Mine(i) /\ frames[i].seq = currentSeq /\ blk # EndOf(session) => frames[i].blk = blk
    /\ \A i \in DOMAIN frames :
          Mine(i) /\ expectedSequence # currentSeq => frames[i].seq = currentSeq
    /\ \A i \in DOMAIN acks : expectedSequence = currentSeq => acks[i] = currentSeq
    /\ \A i, j \in DOMAIN acks : i < j /\ acks[i] # currentSeq => acks[j] # currentSeq
    /\ \A i \in DOMAIN frames : ~ Mine(i) =>
          /\ acks = << >> /\ blk \in {1, EndOf(session)}
          /\ \A j \in DOMAIN frames : Mine(j) => frames[j].seq = currentSeq

\* What the sender knows of itself and of its sessions.
ControlInv ==
    /\ pc # "idle" => result[session] = "none" /\ (success \/ blk = EndOf(session))
    /\ \A s \in Sessions : s > session => result[s] = "none"
    /\ kSocket = 0 => acks = << >>
    /\ session = 0 => expectedSequence = 0
    /\ \A i \in DOMAIN frames : frames[i].blk > 0
    /\ \A i \in DOMAIN outputFile : outputFile[i][2] > 0

\* A block has arrived when the receiver no longer awaits its bit; the blocks
\* before it have arrived when it is sent, and all of them when END is.  So a
\* stored block comes after all the blocks before it.
DeliveryInv ==
    ~ receiverFailed =>
    /\ Running /\ currentSeq # expectedSequence /\ blk >= First(session) /\ blk # EndOf(session)
          => Has(session, blk)
    /\ pc # "idle" /\ success => \A k \in First(session) .. blk - 1 : Has(session, k)
    /\ \A i \in DOMAIN frames : ~ IsEnd(frames[i]) =>
          \A k \in First(frames[i].port) .. frames[i].blk - 1 : Has(frames[i].port, k)
    /\ \A i \in DOMAIN outputFile :
          \A k \in First(outputFile[i][1]) .. outputFile[i][2] - 1 : Has(outputFile[i][1], k)
    /\ \A s \in Sessions : result[s] = "ok" => \A k \in First(s) .. Files[s] : Has(s, k)

FullInv == OrderInv /\ PhaseInv /\ ControlInv /\ DeliveryInv

-----------------------------------------------------------------------------
(* The queues.                                                              *)

\* The sender and the frames in flight: no frame is of a later session.
LEMMA PortsInOrder ==
    ASSUME OrderInv
    PROVE  /\ DOMAIN frames = 1 .. Len(frames) /\ Len(frames) \in Nat
           /\ \A i \in DOMAIN frames : /\ frames[i].port \in Nat \ {0} /\ frames[i].port <= session
                                       /\ frames[i].port \in Sessions
                                       /\ frames[i].seq \in {0, 1} /\ frames[i].blk \in Nat
           /\ \A i, j \in DOMAIN frames : i < j => frames[i].port <= frames[j].port
           /\ session \in Nat
<1>1. /\ DOMAIN frames = 1 .. Len(frames) /\ Len(frames) \in Nat
      /\ \A i \in DOMAIN frames : frames[i] \in Frame
  BY DEF OrderInv, TypeOK
<1>2. \A i \in DOMAIN frames : /\ frames[i].port \in Nat \ {0} /\ frames[i].port \in Sessions
                               /\ frames[i].seq \in {0, 1} /\ frames[i].blk \in Nat
  BY <1>1, SessionFacts DEF Frame, OrderInv
<1>3. session \in Nat
  BY SessionFacts DEF OrderInv
<1>4. \A i \in DOMAIN frames : frames[i].port <= session
  BY <1>2, <1>3 DEF OrderInv, FramesInv, Before, Cur, Pos
<1>5. \A i, j \in DOMAIN frames : i < j => frames[i].port <= frames[j].port
  BY <1>2 DEF OrderInv, FramesInv, Before, Pos
<1> QED
  BY <1>1, <1>2, <1>3, <1>4, <1>5

\* The oldest frame is delivered, and the others move up.
LEMMA OldestLeaves ==
    ASSUME TypeOK, TypeOK', Receive, "reorder" \notin Faults
    PROVE  /\ 1 \in DOMAIN frames
           /\ ReceiveEnd(frames[1]) \/ ReceiveNew(frames[1]) \/ ReceiveDuplicate(frames[1])
           /\ DOMAIN frames' = 1 .. Len(frames) - 1
           /\ \A i \in DOMAIN frames' : frames'[i] = frames[i + 1] /\ i + 1 \in DOMAIN frames
<1>1. /\ frames # << >> /\ 1 \in DOMAIN frames
      /\ frames' = RemoveAt(frames, 1)
      /\ ReceiveEnd(frames[1]) \/ ReceiveNew(frames[1]) \/ ReceiveDuplicate(frames[1])
  BY DEF Receive, Arrivals
<1>2. frames \in Seq(Frame) /\ frames' \in Seq(Frame)
  BY DEF TypeOK
<1>3. /\ Len(RemoveAt(frames, 1)) = Len(frames) - 1
      /\ \A i \in 1 .. Len(frames) - 1 :
            RemoveAt(frames, 1)[i] = IF i < 1 THEN frames[i] ELSE frames[i + 1]
  BY <1>1, <1>2, RemoveAtProperties
<1>4. \A i \in 1 .. Len(frames) - 1 : ~ (i < 1)
  BY <1>2
<1>5. Len(frames') = Len(frames) - 1
  BY <1>1, <1>3
<1>6. \A i \in 1 .. Len(frames) - 1 : frames'[i] = frames[i + 1]
  BY <1>1, <1>3, <1>4, Zenon
<1> QED
  BY <1>1, <1>2, <1>5, <1>6

\* A frame is sent behind the others.
LEMMA YoungestJoins ==
    ASSUME OrderInv, TypeOK', Transmit
    PROVE  /\ DOMAIN frames \subseteq Nat /\ DOMAIN frames' \subseteq Nat
           /\ \A i \in DOMAIN frames' :
                 \/ i \in DOMAIN frames /\ frames'[i] = frames[i]
                 \/ /\ \A j \in DOMAIN frames : j < i
                    /\ frames'[i] = [port |-> session, seq |-> currentSeq, blk |-> blk]
<1> DEFINE f == [port |-> session, seq |-> currentSeq, blk |-> blk]
<1>1. kSocket = session /\ session \in Sessions /\ f \in Frame
  BY SessionFacts DEF OrderInv, SenderInv, Transmit, TypeOK, Frame
<1>2. frames' \in Carried(frames, f) /\ frames \in Seq(Frame) /\ frames' \in Seq(Frame)
  BY <1>1 DEF Transmit, OrderInv, TypeOK
<1> HIDE DEF f
<1>3. /\ Len(frames) <= Len(frames')
      /\ \A i \in 1 .. Len(frames) : frames'[i] = frames[i]
      /\ \A i \in Len(frames) + 1 .. Len(frames') : frames'[i] = f
  BY <1>1, <1>2, CarriedShape
<1> QED
  BY <1>2, <1>3 DEF f

\* An ACK is queued behind the others, and heard by the session it is for only.
LEMMA AckJoins ==
    ASSUME TypeOK, TypeOK', NEW port, NEW bit \in {0, 1}, SendAck(port, bit)
    PROVE  /\ DOMAIN acks \subseteq Nat /\ DOMAIN acks' \subseteq Nat
           /\ port # kSocket => acks' = acks
           /\ \A i \in DOMAIN acks' : \/ i \in DOMAIN acks /\ acks'[i] = acks[i]
                                      \/ /\ \A j \in DOMAIN acks : j < i
                                         /\ acks'[i] = bit
<1>1. acks \in Seq({0, 1}) /\ acks' \in Seq({0, 1})
  BY DEF TypeOK
<1>2. CASE port = kSocket
  <2>1. acks' \in Carried(acks, bit)
    BY <1>2 DEF SendAck
  <2>2. /\ Len(acks) <= Len(acks')
        /\ \A i \in 1 .. Len(acks) : acks'[i] = acks[i]
        /\ \A i \in Len(acks) + 1 .. Len(acks') : acks'[i] = bit
    BY <1>1, <2>1, CarriedShape
  <2> QED
    BY <1>1, <1>2, <2>2
<1>3. CASE port # kSocket
  BY <1>1, <1>3 DEF SendAck
<1> QED
  BY <1>2, <1>3

\* The sender takes ACKs from the front, or forgets them all.
LEMMA AcksLeave ==
    ASSUME TypeOK, acks' \in {<< >>, acks} \/ (acks # << >> /\ acks' = Tail(acks))
    PROVE  /\ acks = << >> => acks' = << >>
           /\ \A i \in DOMAIN acks' : acks'[i] \in {0, 1}
           /\ \E d \in {0, 1} : \A i \in DOMAIN acks' : i + d \in DOMAIN acks /\ acks'[i] = acks[i + d]
           /\ DOMAIN acks' \subseteq Nat /\ DOMAIN acks \subseteq Nat
<1>1. acks \in Seq({0, 1})
  BY DEF TypeOK
<1>2. CASE acks' \in {<< >>, acks}
  <2>1. \A i \in DOMAIN acks' : i + 0 \in DOMAIN acks /\ acks'[i] = acks[i + 0]
    BY <1>1, <1>2
  <2> QED
    BY <1>1, <1>2, <2>1
<1>3. CASE acks # << >> /\ acks' = Tail(acks)
  <2>1. \A i \in DOMAIN acks' : i + 1 \in DOMAIN acks /\ acks'[i] = acks[i + 1]
    BY <1>1, <1>3
  <2> QED
    BY <1>1, <1>3, <2>1
<1> QED
  BY <1>2, <1>3

\* A file that only grows keeps the blocks it has.
LEMMA HasStays ==
    ASSUME TypeOK, NEW x \in Sessions \X Nat, outputFile' \in {outputFile, Append(outputFile, x)}
    PROVE  \A s, k : Has(s, k) => Has(s, k)'
<1>1. outputFile \in Seq(Sessions \X Nat)
  BY DEF TypeOK
<1> SUFFICES ASSUME NEW s, NEW k, Has(s, k)
             PROVE  Has(s, k)'
  OBVIOUS
<1>2. PICK i \in 1 .. Len(outputFile) : outputFile[i] = <<s, k>>
  BY DEF Has, Contains
<1>3. i \in 1 .. Len(outputFile') /\ outputFile'[i] = outputFile[i]
  <2>1. CASE outputFile' = Append(outputFile, x)
    BY <1>1, <1>2, <2>1, AppendProperties
  <2> QED
    BY <1>1, <1>2, <2>1
<1> QED
  BY <1>2, <1>3 DEF Has, Contains

-----------------------------------------------------------------------------
(* The sender.                                                              *)

\* A session begins: whatever is in flight is not its own.
LEMMA StartKeepsPhase ==
    ASSUME FullInv, TypeOK', StartTransfer
    PROVE  PhaseInv' /\ ControlInv' /\ DeliveryInv'
<1> USE DEF FullInv
<1>1. /\ pc = "idle" /\ session < Len(Files) /\ session' = session + 1 /\ success' = TRUE
      /\ currentSeq' = 0 /\ acks' = << >> /\ pc' = "send" /\ blk' = 1
      /\ UNCHANGED <<result, frames, receiverVars>>
  BY DEF StartTransfer, SendFrame
<1>2. session' \in Sessions /\ session' \in Nat /\ session \in Nat /\ session < session'
  BY <1>1, SessionFacts DEF OrderInv
<1>3. \A i \in DOMAIN frames : ~ Mine(i)'
  BY <1>1, <1>2, PortsInOrder DEF Mine
<1>4. PhaseInv'
  BY <1>1, <1>3 DEF PhaseInv
<1>5. ControlInv'
  <2>1. \A s \in Sessions : s > session' => s > session
    BY <1>1, <1>2, SessionFacts DEF OrderInv
  <2>2. result[session'] = "none"
    BY <1>2 DEF ControlInv
  <2>3. session' # 0
    BY <1>2
  <2> QED
    BY <1>1, <2>1, <2>2, <2>3 DEF ControlInv, receiverVars
<1>6. DeliveryInv'
  <2>1. ~ (currentSeq' # expectedSequence' /\ blk' >= First(session'))
    BY <1>1, <1>2 DEF First, ControlInv, receiverVars
  <2>2. \A k : k \notin First(session') .. blk' - 1
    BY <1>1 DEF First
  <2> QED
    BY <1>1, <2>1, <2>2 DEF DeliveryInv, Has, First, IsEnd, EndOf, receiverVars, Running
<1> QED
  BY <1>4, <1>5, <1>6

\* A session whose file cannot be opened fails before it does anything.
LEMMA OpenFailsKeepsPhase ==
    ASSUME FullInv, TypeOK', OpenFails
    PROVE  PhaseInv' /\ ControlInv' /\ DeliveryInv'
<1> USE DEF FullInv
<1>1. /\ pc = "idle" /\ pc' = "idle" /\ session' = session + 1
      /\ result' = [result EXCEPT ![session + 1] = "failed"]
      /\ UNCHANGED <<blk, success, currentSeq, kSocket, frames, acks, receiverVars>>
  BY DEF OpenFails, kernelVars
<1>2. /\ session' # 0 /\ \A s \in Sessions : s > session' => s > session /\ s # session + 1
      /\ result \in [Sessions -> {"none", "ok", "failed"}]
  BY <1>1, SessionFacts, SMTT(30) DEF OrderInv, TypeOK
<1>3. \A s \in Sessions : result'[s] = IF s = session + 1 THEN "failed" ELSE result[s]
  BY <1>1, <1>2
<1>4. PhaseInv'
  BY <1>1 DEF PhaseInv, Running
<1>5. ControlInv'
  BY <1>1, <1>2, <1>3 DEF ControlInv, receiverVars
<1>6. DeliveryInv'
  BY <1>1, <1>3 DEF DeliveryInv, Has, First, IsEnd, EndOf, receiverVars, Running
<1> QED
  BY <1>4, <1>5, <1>6

\* A session ends, one way or the other.
LEMMA EndKeepsPhase ==
    ASSUME FullInv, TypeOK', pc # "idle", pc' = "idle", NEW r \in {"ok", "failed"},
           result' = [result EXCEPT ![session] = r],
           UNCHANGED <<session, frames, receiverVars>>,
           kSocket' = 0 => acks' = << >>,
           ~ receiverFailed /\ r = "ok" => \A k \in First(session) .. Files[session] : Has(session, k)
    PROVE  PhaseInv' /\ ControlInv' /\ DeliveryInv'
<1> USE DEF FullInv
<1>1. session \in Sessions /\ result \in [Sessions -> {"none", "ok", "failed"}] /\ session \in Nat
  BY SessionFacts DEF OrderInv, SenderInv, TypeOK
<1>2. \A s \in Sessions : result'[s] = IF s = session THEN r ELSE result[s]
  BY <1>1
<1>3. PhaseInv'
  BY DEF PhaseInv, Running
<1>4. ControlInv'
  <2>1. \A s \in Sessions : s > session => s # session
    BY <1>1
  <2> QED
    BY <1>2, <2>1 DEF ControlInv, receiverVars
<1>5. DeliveryInv'
  BY <1>2 DEF DeliveryInv, Has, First, IsEnd, EndOf, receiverVars, Running
<1> QED
  BY <1>3, <1>4, <1>5

\* A session goes on with the bit it has: with the same block, or with END
\* after a failure.
LEMMA GoOnKeepsPhase ==
    ASSUME FullInv, TypeOK', pc # "idle", pc' # "idle",
           UNCHANGED <<session, currentSeq, result, frames, receiverVars>>,
           (blk' = blk /\ success' = success) \/ (blk' = EndOf(session) /\ success' = FALSE),
           kSocket' \in {0, kSocket}, kSocket' = 0 => acks' = << >>,
           acks' \in {<< >>, acks} \/ (acks # << >> /\ acks' = Tail(acks))
    PROVE  PhaseInv' /\ ControlInv' /\ DeliveryInv'
<1> USE DEF FullInv
<1>1. /\ (acks = << >> => acks' = << >>) /\ DOMAIN acks' \subseteq Nat /\ DOMAIN acks \subseteq Nat
      /\ \E d \in {0, 1} : \A i \in DOMAIN acks' : i + d \in DOMAIN acks /\ acks'[i] = acks[i + d]
  BY AcksLeave DEF OrderInv
<1>2. PICK d \in {0, 1} : \A i \in DOMAIN acks' : i + d \in DOMAIN acks /\ acks'[i] = acks[i + d]
  BY <1>1
<1>3. Running' => Running
  BY DEF Running, receiverVars
<1>4. EndOf(session)' = EndOf(session) /\ \A i \in DOMAIN frames : Mine(i)' <=> Mine(i)
  BY DEF EndOf, Mine
<1>5. PhaseInv'
  <2> SUFFICES ASSUME Running'
               PROVE  /\ \A i, j \in DOMAIN frames :
                            i < j /\ Mine(i) /\ Mine(j) /\ frames[i].seq = currentSeq
                               => frames[j].seq = currentSeq
                      /\ \A i \in DOMAIN frames :
                            Mine(i) /\ frames[i].seq = currentSeq /\ blk' # EndOf(session)
                               => frames[i].blk = blk'
                      /\ \A i \in DOMAIN frames :
                            Mine(i) /\ expectedSequence # currentSeq => frames[i].seq = currentSeq
                      /\ \A i \in DOMAIN acks' : expectedSequence = currentSeq => acks'[i] = currentSeq
                      /\ \A i, j \in DOMAIN acks' : i < j /\ acks'[i] # currentSeq => acks'[j] # currentSeq
                      /\ \A i \in DOMAIN frames : ~ Mine(i) =>
                            /\ acks' = << >> /\ blk' \in {1, EndOf(session)}
                            /\ \A j \in DOMAIN frames : Mine(j) => frames[j].seq = currentSeq
    BY <1>4 DEF PhaseInv, receiverVars
  <2>1. \A i, j \in DOMAIN acks' : i < j => i + d < j + d
    BY <1>1
  <2> QED
    BY <1>1, <1>2, <1>3, <2>1 DEF PhaseInv
<1>6. ControlInv'
  BY <1>4 DEF ControlInv, receiverVars
<1>7. DeliveryInv'
  BY <1>3, <1>4 DEF DeliveryInv, Has, First, IsEnd, EndOf, receiverVars
<1> QED
  BY <1>5, <1>6, <1>7

\* The ACK that the sender takes for its own: the receiver has moved on to the
\* other bit, nothing of former sessions is in flight, and whatever is in
\* flight carries the bit it refuses.
LEMMA AckInPhase ==
    ASSUME FullInv, ValidAck, ~ receiverFailed
    PROVE  /\ Running /\ currentSeq' = 1 - currentSeq /\ expectedSequence = currentSeq'
           /\ \A i \in DOMAIN frames : Mine(i) /\ frames[i].seq = currentSeq
           /\ \A i \in DOMAIN acks' : acks'[i] = currentSeq'
<1> USE DEF FullInv
<1>1. /\ pc = "wait" /\ acks # << >> /\ Head(acks) = 1 - currentSeq
      /\ acks' = Tail(acks) /\ currentSeq' = Head(acks)
  BY DEF ValidAck
<1>2. Running
  BY <1>1 DEF Running, ControlInv
<1>3. /\ acks \in Seq({0, 1}) /\ currentSeq \in {0, 1} /\ expectedSequence \in {0, 1}
  BY DEF OrderInv, TypeOK
<1>4. /\ 1 \in DOMAIN acks /\ acks[1] # currentSeq
      /\ \A i \in DOMAIN acks' : /\ i + 1 \in DOMAIN acks /\ 1 < i + 1 /\ acks'[i] = acks[i + 1]
                                 /\ acks[i + 1] \in {0, 1}
  BY <1>1, <1>3
<1>5. expectedSequence # currentSeq
  BY <1>2, <1>4 DEF PhaseInv
<1>6. \A i \in DOMAIN frames : Mine(i) /\ frames[i].seq = currentSeq
  BY <1>1, <1>2, <1>5 DEF PhaseInv
<1>7. \A i \in DOMAIN acks' : acks'[i] # currentSeq
  BY <1>2, <1>4 DEF PhaseInv
<1> QED
  BY <1>1, <1>2, <1>3, <1>4, <1>5, <1>6, <1>7

\* An ACK confirms the block: it has arrived, and the next one is due.
LEMMA ValidAckKeepsPhase ==
    ASSUME FullInv, TypeOK', ValidAck
    PROVE  PhaseInv' /\ ControlInv' /\ DeliveryInv'
<1> USE DEF FullInv
<1>1. /\ pc = "wait" /\ acks # << >> /\ FrameConfirmed /\ currentSeq' = Head(acks)
      /\ UNCHANGED <<session, success, kSocket, frames, receiverVars>>
  BY DEF ValidAck
<1>2. kSocket # 0
  BY <1>1 DEF ControlInv
<1>3. /\ session \in Sessions /\ blk \in 1 .. EndOf(session) /\ EndOf(session) = Files[session] + 1
      /\ Files[session] \in Nat /\ First(session) \in Nat
  BY <1>1, SessionFacts, SMTT(30) DEF OrderInv, SenderInv, First, TypeOK
<1>4. CASE blk = EndOf(session)
  <2>1. /\ pc' = "idle"
        /\ result' = [result EXCEPT ![session] = IF success THEN "ok" ELSE "failed"]
    BY <1>1, <1>4 DEF FrameConfirmed, Finish
  <2>2. ~ receiverFailed /\ success => \A k \in First(session) .. Files[session] : Has(session, k)
    BY <1>1, <1>3, <1>4 DEF DeliveryInv
  <2> QED
    BY <1>1, <1>2, <2>1, <2>2, EndKeepsPhase
<1>5. CASE blk # EndOf(session)
  <2>1. /\ pc' = "send" /\ blk' = blk + 1 /\ result' = result
        /\ success
    BY <1>1, <1>5 DEF FrameConfirmed, SendFrame, ControlInv
  <2>2. PhaseInv'
    <3> SUFFICES ASSUME ~ receiverFailed
                 PROVE  PhaseInv'
      BY <1>1 DEF PhaseInv, Running, receiverVars
    <3>1. /\ currentSeq' = 1 - currentSeq /\ expectedSequence = currentSeq' /\ currentSeq \in {0, 1}
          /\ \A i \in DOMAIN frames : Mine(i) /\ frames[i].seq = currentSeq
          /\ \A i \in DOMAIN acks' : acks'[i] = currentSeq'
      BY AckInPhase DEF OrderInv, TypeOK
    <3>2. currentSeq # currentSeq' /\ \A i \in DOMAIN frames : Mine(i)'
      BY <1>1, <3>1 DEF Mine
    <3> QED
      BY <1>1, <3>1, <3>2 DEF PhaseInv, receiverVars
  <2>3. ControlInv'
    BY <1>1, <1>2, <2>1 DEF ControlInv, receiverVars
  <2>4. DeliveryInv'
    <3> SUFFICES ASSUME ~ receiverFailed
                 PROVE  DeliveryInv'
      BY <1>1 DEF DeliveryInv, receiverVars
    <3>1. /\ Running /\ currentSeq' = 1 - currentSeq /\ expectedSequence = currentSeq'
          /\ currentSeq \in {0, 1}
      BY AckInPhase DEF OrderInv, TypeOK
    <3>2. currentSeq # expectedSequence
      BY <3>1
    <3>3. \A k \in First(session) .. blk - 1 : Has(session, k)
      BY <1>1, <2>1 DEF DeliveryInv
    <3>4. blk >= First(session) => Has(session, blk)
      BY <1>5, <3>1, <3>2 DEF DeliveryInv
    <3>5. \A k \in First(session) .. blk : k \in First(session) .. blk - 1 \/ (k = blk /\ blk >= First(session))
      BY <1>3
    <3>6. blk' - 1 = blk
      BY <1>3, <2>1
    <3>7. \A k \in First(session) .. blk' - 1 : Has(session, k)
      BY <3>3, <3>4, <3>5, <3>6
    <3> QED
      BY <1>1, <2>1, <3>1, <3>7 DEF DeliveryInv, Has, First, IsEnd, EndOf, receiverVars
  <2> QED
    BY <2>2, <2>3, <2>4
<1> QED
  BY <1>4, <1>5

\* A frame is sent: the blocks before it have arrived.
LEMMA TransmitKeepsPhase ==
    ASSUME FullInv, TypeOK', Transmit
    PROVE  PhaseInv' /\ ControlInv' /\ DeliveryInv'
<1> USE DEF FullInv
<1> DEFINE f == [port |-> session, seq |-> currentSeq, blk |-> blk]
<1>1. /\ pc # "idle" /\ pc' = "wait" /\ kSocket # 0
      /\ UNCHANGED <<session, blk, success, currentSeq, kSocket, result, acks, receiverVars>>
  BY DEF Transmit, kernelVars
<1>2. /\ DOMAIN frames \subseteq Nat /\ DOMAIN frames' \subseteq Nat
      /\ \A i \in DOMAIN frames' : \/ i \in DOMAIN frames /\ frames'[i] = frames[i]
                                   \/ (\A j \in DOMAIN frames : j < i) /\ frames'[i] = f
  BY YoungestJoins
<1>3. f.port = session /\ f.seq = currentSeq /\ f.blk = blk /\ blk > 0
  BY <1>1 DEF OrderInv, SenderInv
<1> HIDE DEF f
<1>4. EndOf(session)' = EndOf(session) /\ (Running' => Running)
  BY <1>1 DEF EndOf, Running, receiverVars
<1>5. \A i \in DOMAIN frames' :
         /\ Mine(i)' <=> frames'[i].port = session
         /\ frames'[i] = f \/ (i \in DOMAIN frames /\ frames'[i] = frames[i] /\ (Mine(i)' <=> Mine(i)))
  BY <1>1, <1>2 DEF Mine
<1>6. \A i, j \in DOMAIN frames' : i < j /\ frames'[i].seq = currentSeq /\ Mine(i)' /\ Mine(j)' =>
         \/ frames'[j] = f
         \/ i \in DOMAIN frames /\ j \in DOMAIN frames /\ frames'[i] = frames[i] /\ frames'[j] = frames[j]
  BY <1>2
<1>7. PhaseInv'
  <2> SUFFICES ASSUME Running'
               PROVE  PhaseInv'
    BY DEF PhaseInv
  <2>1. \A i, j \in DOMAIN frames' :
           i < j /\ Mine(i)' /\ Mine(j)' /\ frames'[i].seq = currentSeq' => frames'[j].seq = currentSeq'
    BY <1>1, <1>3, <1>4, <1>5, <1>6 DEF PhaseInv
  <2>2. \A i \in DOMAIN frames' :
           Mine(i)' /\ frames'[i].seq = currentSeq' /\ blk' # EndOf(session)' => frames'[i].blk = blk'
    BY <1>1, <1>3, <1>4, <1>5 DEF PhaseInv
  <2>3. \A i \in DOMAIN frames' :
           Mine(i)' /\ expectedSequence' # currentSeq' => frames'[i].seq = currentSeq'
    BY <1>1, <1>3, <1>4, <1>5 DEF PhaseInv, receiverVars
  <2>4. \A i \in DOMAIN frames' : ~ Mine(i)' =>
           /\ acks' = << >> /\ blk' \in {1, EndOf(session)'}
           /\ \A j \in DOMAIN frames' : Mine(j)' => frames'[j].seq = currentSeq'
    BY <1>1, <1>3, <1>4, <1>5 DEF PhaseInv
  <2>5. /\ \A i \in DOMAIN acks' : expectedSequence' = currentSeq' => acks'[i] = currentSeq'
        /\ \A i, j \in DOMAIN acks' : i < j /\ acks'[i] # currentSeq' => acks'[j] # currentSeq'
    BY <1>1, <1>4 DEF PhaseInv, receiverVars
  <2> QED
    BY <2>1, <2>2, <2>3, <2>4, <2>5 DEF PhaseInv
<1>8. ControlInv'
  <2>1. \A i \in DOMAIN frames' : frames'[i].blk > 0
    BY <1>3, <1>5 DEF ControlInv
  <2> QED
    BY <1>1, <1>4, <2>1 DEF ControlInv, receiverVars
<1>9. DeliveryInv'
  <2> SUFFICES ASSUME ~ receiverFailed
               PROVE  DeliveryInv'
    BY <1>1 DEF DeliveryInv, receiverVars
  <2>1. IsEnd(f) \/ \A k \in First(f.port) .. f.blk - 1 : Has(f.port, k)
    BY <1>1, <1>3 DEF DeliveryInv, ControlInv, IsEnd
  <2>2. \A i \in DOMAIN frames' : ~ IsEnd(frames'[i]) =>
           \A k \in First(frames'[i].port) .. frames'[i].blk - 1 : Has(frames'[i].port, k)
    BY <1>5, <2>1 DEF DeliveryInv
  <2>3. \A i \in DOMAIN frames' : ~ IsEnd(frames'[i]) =>
           \A k \in First(frames'[i].port) .. frames'[i].blk - 1 :
              Contains(outputFile', <<frames'[i].port, k>>)
    BY <1>1, <2>2 DEF Has, receiverVars
  <2>4. \A i \in DOMAIN frames' : ~ IsEnd(frames[i])' =>
           \A k \in First(frames[i].port)' .. frames'[i].blk - 1 : Has(frames[i].port, k)'
    BY <2>3 DEF Has, IsEnd, First, EndOf
  <2>5. /\ Running' /\ currentSeq' # expectedSequence' /\ blk' >= First(session)' /\ blk' # EndOf(session)'
              => Has(session, blk)'
        /\ pc' # "idle" /\ success' => \A k \in First(session)' .. blk' - 1 : Has(session, k)'
        /\ \A i \in DOMAIN outputFile' :
              \A k \in First(outputFile[i][1])' .. outputFile'[i][2] - 1 : Has(outputFile[i][1], k)'
        /\ \A s \in Sessions : result'[s] = "ok" => \A k \in First(s) .. Files[s] : Has(s, k)'
    BY <1>1, <1>4 DEF DeliveryInv, Has, First, receiverVars
  <2> QED
    BY <2>4, <2>5 DEF DeliveryInv
<1> QED
  BY <1>7, <1>8, <1>9

-----------------------------------------------------------------------------
(* The receiver.                                                            *)

\* The receiver's bit turns over at a frame that carries it, DATA or END; the
\* new bit is its answer.
LEMMA ReceiveFlips ==
    ASSUME OrderInv, TypeOK', Receive, "reorder" \notin Faults
    PROVE  /\ 1 \in DOMAIN frames /\ frames[1].port \in Sessions
           /\ SendAck(frames[1].port, expectedSequence') /\ expectedSequence' \in {0, 1}
           /\ frames[1].seq = expectedSequence => expectedSequence' = 1 - expectedSequence
           /\ frames[1].seq # expectedSequence => expectedSequence' = expectedSequence
           /\ \/ outputFile' = outputFile
              \/ outputFile' = Append(outputFile, <<frames[1].port, frames[1].blk>>)
           /\ ~ receiverFailed' => ~ receiverFailed
           /\ ~ receiverFailed' /\ ~ IsEnd(frames[1]) /\ frames[1].seq = expectedSequence =>
                 outputFile' = Append(outputFile, <<frames[1].port, frames[1].blk>>)
           /\ UNCHANGED senderVars
<1> DEFINE f == frames[1]
<1>1. 1 \in DOMAIN frames /\ (ReceiveEnd(f) \/ ReceiveNew(f) \/ ReceiveDuplicate(f))
  BY OldestLeaves DEF OrderInv
<1>2. f.port \in Sessions /\ expectedSequence' \in {0, 1} /\ UNCHANGED senderVars
  BY <1>1, PortsInOrder DEF TypeOK, Receive
<1> HIDE DEF f
<1>3. CASE ReceiveEnd(f)
  BY <1>1, <1>2, <1>3 DEF ReceiveEnd, f
<1>4. CASE ReceiveNew(f)
  <2>1. \/ outputFile' = Append(outputFile, <<f.port, f.blk>>) /\ receiverFailed' = receiverFailed
        \/ receiverFailed' = TRUE /\ outputFile' = outputFile
    BY <1>4 DEF ReceiveNew, WriteBlock
  <2> QED
    BY <1>1, <1>2, <1>4, <2>1 DEF ReceiveNew, f
<1>5. CASE ReceiveDuplicate(f)
  BY <1>1, <1>2, <1>5 DEF ReceiveDuplicate, receiverVars, f
<1> QED
  BY <1>1, <1>3, <1>4, <1>5

\* What is left in flight after a delivery, and whose it is.
LEMMA MineMoveUp ==
    ASSUME OrderInv, TypeOK', Receive, "reorder" \notin Faults
    PROVE  /\ DOMAIN frames' \subseteq Nat
           /\ \A i \in DOMAIN frames' : /\ i + 1 \in DOMAIN frames /\ 1 < i + 1
                                        /\ frames'[i] = frames[i + 1]
                                        /\ Mine(i)' <=> Mine(i + 1)
           /\ Mine(1) => \A i \in DOMAIN frames' : Mine(i + 1)
<1>1. /\ DOMAIN frames' = 1 .. Len(frames) - 1 /\ 1 \in DOMAIN frames
      /\ \A i \in DOMAIN frames' : frames'[i] = frames[i + 1] /\ i + 1 \in DOMAIN frames
  BY OldestLeaves DEF OrderInv
<1>2. session' = session
  BY DEF Receive, senderVars
<1>3. /\ Len(frames) \in Nat /\ session \in Nat
      /\ \A i \in DOMAIN frames : frames[i].port \in Nat /\ frames[i].port <= session
      /\ \A i, j \in DOMAIN frames : i < j => frames[i].port <= frames[j].port
  BY PortsInOrder
<1>4. \A i \in DOMAIN frames' : 1 < i + 1
  BY <1>1, <1>3
<1>5. Mine(1) => \A i \in DOMAIN frames' : Mine(i + 1)
  BY <1>1, <1>3, <1>4 DEF Mine
<1> QED
  BY <1>1, <1>2, <1>3, <1>4, <1>5 DEF Mine

\* A frame of a former session: it may turn the receiver's bit over, but is not
\* answered, and this session has not been heard yet.
LEMMA StrangerKeepsPhase ==
    ASSUME FullInv, TypeOK', Receive, "reorder" \notin Faults, ~ Mine(1)
    PROVE  PhaseInv'
<1> USE DEF FullInv
<1> SUFFICES ASSUME Running'
             PROVE  PhaseInv'
  BY DEF PhaseInv
<1>1. /\ 1 \in DOMAIN frames /\ SendAck(frames[1].port, expectedSequence')
      /\ ~ receiverFailed /\ UNCHANGED senderVars
  BY ReceiveFlips DEF Running
<1>2. Running /\ kSocket = session
  BY <1>1 DEF Running, senderVars, OrderInv, SenderInv
<1>3. /\ acks = << >> /\ blk \in {1, EndOf(session)}
      /\ \A j \in DOMAIN frames : Mine(j) => frames[j].seq = currentSeq
  BY <1>1, <1>2 DEF PhaseInv
<1>4. acks' = << >>
  BY <1>1, <1>2, <1>3 DEF SendAck, Mine
<1>5. /\ \A i \in DOMAIN frames' : /\ i + 1 \in DOMAIN frames /\ frames'[i] = frames[i + 1]
                                   /\ Mine(i)' <=> Mine(i + 1)
  BY MineMoveUp
<1>6. \A i \in DOMAIN frames' : Mine(i)' => frames'[i].seq = currentSeq'
  BY <1>1, <1>3, <1>5 DEF senderVars
<1>7. \A i \in DOMAIN frames' :
         Mine(i)' /\ frames'[i].seq = currentSeq' /\ blk' # EndOf(session)' => frames'[i].blk = blk'
  BY <1>1, <1>2, <1>5 DEF PhaseInv, senderVars, EndOf
<1>8. blk' \in {1, EndOf(session)'}
  BY <1>1, <1>3 DEF senderVars, EndOf
<1> QED
  BY <1>4, <1>6, <1>7, <1>8 DEF PhaseInv

\* A frame of the session itself is answered with the bit awaited next.
LEMMA OwnFrameKeepsPhase ==
    ASSUME FullInv, TypeOK', Receive, "reorder" \notin Faults, Mine(1)
    PROVE  PhaseInv'
<1> USE DEF FullInv
<1> DEFINE e == expectedSequence
           c == currentSeq
<1> SUFFICES ASSUME Running'
             PROVE  PhaseInv'
  BY DEF PhaseInv
<1>1. /\ 1 \in DOMAIN frames /\ SendAck(frames[1].port, e') /\ e' \in {0, 1}
      /\ frames[1].seq = e => e' = 1 - e
      /\ frames[1].seq # e => e' = e
      /\ ~ receiverFailed /\ UNCHANGED senderVars
  BY ReceiveFlips DEF Running
<1>2. Running /\ c \in {0, 1} /\ e \in {0, 1} /\ c' = c /\ blk' = blk
  BY <1>1 DEF Running, senderVars, OrderInv, TypeOK
<1>3. /\ DOMAIN frames' \subseteq Nat
      /\ \A i \in DOMAIN frames' : /\ i + 1 \in DOMAIN frames /\ 1 < i + 1 /\ frames'[i] = frames[i + 1]
                                   /\ Mine(i)' /\ Mine(i + 1)
  BY MineMoveUp
<1>4. /\ DOMAIN acks \subseteq Nat /\ DOMAIN acks' \subseteq Nat
      /\ \A i \in DOMAIN acks' : \/ i \in DOMAIN acks /\ acks'[i] = acks[i]
                                 \/ (\A j \in DOMAIN acks : j < i) /\ acks'[i] = e'
  BY <1>1, AckJoins DEF OrderInv
<1>5. /\ \A i, j \in DOMAIN frames : i < j /\ Mine(i) /\ Mine(j) /\ frames[i].seq = c => frames[j].seq = c
      /\ \A i \in DOMAIN frames : Mine(i) /\ frames[i].seq = c /\ blk # EndOf(session) => frames[i].blk = blk
      /\ \A i \in DOMAIN frames : Mine(i) /\ e # c => frames[i].seq = c
      /\ \A i \in DOMAIN acks : e = c => acks[i] = c
      /\ \A i, j \in DOMAIN acks : i < j /\ acks[i] # c => acks[j] # c
  BY <1>2 DEF PhaseInv
<1> HIDE DEF e, c
\* The receiver turns its bit over only at the sender's own bit.
<1>6. frames[1].seq = e => e = c /\ e' # c
  BY <1>1, <1>2, <1>5
<1>7. \A i \in DOMAIN frames' : e' # c => frames'[i].seq = c
  <2>1. CASE frames[1].seq = e
    BY <1>1, <1>3, <1>5, <1>6, <2>1
  <2>2. CASE frames[1].seq # e
    BY <1>1, <1>3, <1>5, <2>2
  <2> QED
    BY <2>1, <2>2
<1>8. \A i, j \in DOMAIN frames' : i < j /\ frames'[i].seq = c => frames'[j].seq = c
  <2>1. \A i, j \in DOMAIN frames' : i < j => i + 1 < j + 1
    BY <1>3
  <2> QED
    BY <1>3, <1>5, <2>1
<1>9. \A i \in DOMAIN frames' : frames'[i].seq = c /\ blk # EndOf(session) => frames'[i].blk = blk
  BY <1>3, <1>5
<1>10. e' = c => e = c
  BY <1>1, <1>6
<1>11. \A i \in DOMAIN acks' : e' = c => acks'[i] = c
  BY <1>4, <1>5, <1>10
<1>12. ASSUME NEW i \in DOMAIN acks', NEW j \in DOMAIN acks', i < j, acks'[i] # c
       PROVE  acks'[j] # c
  <2>1. e' # c
    BY <1>11, <1>12
  <2>2. CASE j \in DOMAIN acks /\ acks'[j] = acks[j]
    <3>1. i \in DOMAIN acks /\ acks'[i] = acks[i]
      <4>1. ~ (j < i)
        BY <1>4, <1>12
      <4> QED
        BY <1>4, <2>2, <4>1
    <3> QED
      BY <1>5, <1>12, <2>2, <3>1
  <2> QED
    BY <1>4, <2>1, <2>2
<1>13. EndOf(session)' = EndOf(session)
  BY <1>1 DEF EndOf, senderVars
<1> QED
  BY <1>2, <1>3, <1>7, <1>8, <1>9, <1>11, <1>12, <1>13 DEF PhaseInv, e, c

\* What the receiver stores comes after the blocks before it, and a block whose
\* bit it no longer awaits has arrived.
LEMMA ReceiveDelivers ==
    ASSUME FullInv, TypeOK', Receive, "reorder" \notin Faults
    PROVE  ControlInv' /\ DeliveryInv'
<1> USE DEF FullInv
<1> DEFINE f == frames[1]
           x == <<f.port, f.blk>>
<1>1. /\ 1 \in DOMAIN frames /\ f.port \in Sessions
      /\ SendAck(f.port, expectedSequence') /\ expectedSequence' \in {0, 1}
      /\ f.seq # expectedSequence => expectedSequence' = expectedSequence
      /\ f.seq = expectedSequence => expectedSequence' = 1 - expectedSequence
      /\ outputFile' = outputFile \/ outputFile' = Append(outputFile, x)
      /\ ~ receiverFailed' => ~ receiverFailed
      /\ ~ receiverFailed' /\ ~ IsEnd(f) /\ f.seq = expectedSequence => outputFile' = Append(outputFile, x)
      /\ UNCHANGED senderVars
  BY ReceiveFlips
<1>2. /\ f.port \in Nat \ {0} /\ f.port <= session /\ session \in Nat
      /\ f.blk \in Nat /\ f.blk > 0
  BY <1>1, PortsInOrder DEF ControlInv
<1>3. \A i \in DOMAIN frames' : /\ i + 1 \in DOMAIN frames /\ frames'[i] = frames[i + 1]
  BY MineMoveUp
<1>4. x \in Sessions \X Nat
  BY <1>1, <1>2
<1>5. /\ \A i \in DOMAIN outputFile' : \/ i \in DOMAIN outputFile /\ outputFile'[i] = outputFile[i]
                                       \/ outputFile' = Append(outputFile, x) /\ outputFile'[i] = x
      /\ outputFile' = Append(outputFile, x) => Contains(outputFile', x)
  <2>1. outputFile \in Seq(Sessions \X Nat)
    BY DEF OrderInv, TypeOK
  <2>2. CASE outputFile' = Append(outputFile, x)
    <3>1. /\ Len(outputFile') = Len(outputFile) + 1 /\ DOMAIN outputFile' = 1 .. Len(outputFile) + 1
          /\ \A i \in 1 .. Len(outputFile) : outputFile'[i] = outputFile[i]
          /\ outputFile'[Len(outputFile) + 1] = x
      BY <1>4, <2>1, <2>2, AppendProperties
    <3>2. \A i \in 1 .. Len(outputFile) + 1 : i \in 1 .. Len(outputFile) \/ i = Len(outputFile) + 1
      BY <2>1
    <3>3. Len(outputFile) + 1 \in 1 .. Len(outputFile')
      BY <2>1, <3>1
    <3> QED
      BY <2>1, <2>2, <3>1, <3>2, <3>3, SMTT(30) DEF Contains
  <2>3. CASE outputFile' = outputFile
    <3>1. outputFile' = Append(outputFile, x) => FALSE
      BY <1>4, <2>1, <2>3, AppendProperties
    <3> QED
      BY <2>3, <3>1
  <2> QED
    BY <1>1, <2>2, <2>3
<1>6. \A s, k : Has(s, k) => Contains(outputFile', <<s, k>>)
  <2>1. \A s, k : Has(s, k) => Has(s, k)'
    BY <1>1, <1>4, HasStays DEF OrderInv
  <2> QED
    BY <2>1 DEF Has
<1> HIDE DEF f, x
<1>7. ControlInv'
  <2>1. \A i \in DOMAIN frames' : frames'[i].blk > 0
    BY <1>3 DEF ControlInv
  <2>2. \A i \in DOMAIN outputFile' : outputFile'[i][2] > 0
    BY <1>2, <1>5 DEF ControlInv, x
  <2>3. kSocket = 0 => acks' = << >>
    BY <1>1, <1>2 DEF SendAck, ControlInv
  <2>4. session # 0
    BY <1>2
  <2> QED
    BY <1>1, <2>1, <2>2, <2>3, <2>4 DEF ControlInv, senderVars, EndOf
<1>8. ASSUME ~ receiverFailed'
      PROVE  DeliveryInv'
  <2>1. ~ receiverFailed
    BY <1>1, <1>8
  <2>2. ASSUME Running, currentSeq # expectedSequence', blk >= First(session), blk # EndOf(session)
        PROVE  Contains(outputFile', <<session, blk>>)
    <3>1. CASE currentSeq # expectedSequence
      BY <1>6, <2>1, <2>2, <3>1 DEF DeliveryInv
    <3>2. CASE currentSeq = expectedSequence
      <4>1. f.seq = currentSeq
        BY <1>1, <2>2, <3>2
      <4>2. Mine(1)
        <5>1. ASSUME ~ Mine(1)
              PROVE  FALSE
          <6>1. blk = 1 /\ session # 1
            BY <1>1, <1>2, <2>2, <5>1 DEF PhaseInv, Mine, f
          <6> QED
            BY <2>2, <6>1 DEF First
        <5> QED
          BY <5>1
      <4>3. f.blk = blk /\ f.port = session
        BY <1>1, <2>2, <4>1, <4>2 DEF PhaseInv, Mine, f
      <4>4. ~ IsEnd(f)
        BY <2>2, <4>3 DEF IsEnd
      <4> QED
        BY <1>1, <1>5, <1>8, <3>2, <4>1, <4>3, <4>4 DEF x
    <3> QED
      BY <3>1, <3>2
  <2>3. ASSUME pc # "idle", success
        PROVE  \A k \in First(session) .. blk - 1 : Contains(outputFile', <<session, k>>)
    BY <1>6, <2>1, <2>3 DEF DeliveryInv
  <2>4. \A i \in DOMAIN frames' : ~ IsEnd(frames'[i]) =>
           \A k \in First(frames'[i].port) .. frames'[i].blk - 1 :
              Contains(outputFile', <<frames'[i].port, k>>)
    BY <1>3, <1>6, <2>1 DEF DeliveryInv
  <2>5. ASSUME NEW i \in DOMAIN outputFile'
        PROVE  \A k \in First(outputFile'[i][1]) .. outputFile'[i][2] - 1 :
                  Contains(outputFile', <<outputFile'[i][1], k>>)
    <3>1. CASE i \in DOMAIN outputFile /\ outputFile'[i] = outputFile[i]
      BY <1>6, <2>1, <3>1 DEF DeliveryInv
    <3>2. CASE outputFile' = Append(outputFile, x) /\ outputFile'[i] = x
      <4>1. CASE IsEnd(f)
        <5>1. outputFile' = outputFile
          BY <1>1, <4>1, OldestLeaves DEF OrderInv, ReceiveEnd, ReceiveNew, ReceiveDuplicate, f
        <5> QED
          BY <1>6, <2>1, <5>1 DEF DeliveryInv
      <4>2. CASE ~ IsEnd(f)
        <5>1. \A k \in First(f.port) .. f.blk - 1 : Contains(outputFile', <<f.port, k>>)
          BY <1>1, <1>6, <2>1, <4>2 DEF DeliveryInv, f
        <5>2. outputFile'[i][1] = f.port /\ outputFile'[i][2] = f.blk
          BY <3>2 DEF x
        <5> QED
          BY <5>1, <5>2
      <4> QED
        BY <4>1, <4>2
    <3> QED
      BY <1>5, <3>1, <3>2
  <2>6. \A s \in Sessions : result[s] = "ok" => \A k \in First(s) .. Files[s] : Contains(outputFile', <<s, k>>)
    BY <1>6, <2>1 DEF DeliveryInv
  <2>7. /\ UNCHANGED <<pc, session, blk, success, currentSeq, kSocket, result>>
        /\ Running' => Running
    BY <1>1, <2>1 DEF senderVars, Running
  <2> QED
    BY <2>2, <2>3, <2>4, <2>5, <2>6, <2>7 DEF DeliveryInv, Has, First, IsEnd, EndOf
<1> QED
  BY <1>7, <1>8 DEF DeliveryInv

-----------------------------------------------------------------------------
(* All the steps.                                                           *)

LEMMA FullInvStep ==
    ASSUME "reorder" \notin Faults
    PROVE  FullInv /\ [Next]_vars => FullInv'
<1> SUFFICES ASSUME FullInv, [Next]_vars
             PROVE  FullInv'
  OBVIOUS
<1>1. OrderInv'
  BY OrderInvStep DEF FullInv
<1>2. TypeOK' /\ SenderInv /\ session \in Sessions \cup {0}
  BY <1>1, SessionFacts, SMTT(30) DEF OrderInv, FullInv, TypeOK
<1>3. CASE StartTransfer
  BY <1>1, <1>2, <1>3, StartKeepsPhase DEF FullInv
<1>4. CASE OpenFails
  BY <1>1, <1>2, <1>4, OpenFailsKeepsPhase DEF FullInv
\* Ways to fail: the session ends, or goes on with END.
<1>5. ASSUME pc # "idle", FrameFailed, kSocket' \in {0, kSocket}, kSocket' = 0 => acks' = << >>,
             acks' \in {<< >>, acks} \/ (acks # << >> /\ acks' = Tail(acks)),
             UNCHANGED <<session, currentSeq, frames, receiverVars>>
      PROVE  FullInv'
  <2>1. CASE blk = EndOf(session)
    <3>1. pc' = "idle" /\ result' = [result EXCEPT ![session] = "failed"]
      BY <1>5, <2>1 DEF FrameFailed, Finish
    <3> QED
      BY <1>1, <1>2, <1>5, <3>1, EndKeepsPhase DEF FullInv
  <2>2. CASE blk # EndOf(session)
    <3>1. pc' = "send" /\ blk' = EndOf(session) /\ success' = FALSE /\ result' = result
      BY <1>5, <2>2 DEF FrameFailed, SendFrame
    <3> QED
      BY <1>1, <1>2, <1>5, <3>1, GoOnKeepsPhase DEF FullInv
  <2> QED
    BY <2>1, <2>2
<1>6. CASE NotSock \/ SocketError
  BY <1>5, <1>6 DEF NotSock, SocketError, FullInv, ControlInv
<1>7. CASE Timeout \/ InvalidAck
  <2>1. /\ pc = "wait" /\ Retry /\ UNCHANGED <<session, currentSeq, frames, receiverVars>>
        /\ kSocket' = 0 => acks' = << >>
        /\ acks' \in {<< >>, acks} \/ (acks # << >> /\ acks' = Tail(acks))
    BY <1>7 DEF Timeout, InvalidAck
  <2>2. CASE FrameFailed /\ kSocket' = 0
    BY <1>5, <2>1, <2>2
  <2>3. CASE pc' = "send" /\ UNCHANGED <<blk, success, kSocket, result>>
    BY <1>1, <1>2, <2>1, <2>3, GoOnKeepsPhase DEF FullInv
  <2> QED
    BY <2>1, <2>2, <2>3 DEF Retry
<1>8. CASE ValidAck
  BY <1>1, <1>2, <1>8, ValidAckKeepsPhase DEF FullInv
<1>9. CASE Transmit
  BY <1>1, <1>2, <1>9, TransmitKeepsPhase DEF FullInv
<1>10. CASE Kill
  <2>1. /\ pc # "idle" /\ pc' = "idle" /\ result' = [result EXCEPT ![session] = "failed"]
        /\ UNCHANGED <<session, frames, receiverVars, kSocket, acks>>
    BY <1>10 DEF Kill, kernelVars
  <2> QED
    BY <1>1, <1>2, <2>1, EndKeepsPhase DEF FullInv, ControlInv
<1>11. CASE Receive
  <2>1. PhaseInv'
    BY <1>2, <1>11, StrangerKeepsPhase, OwnFrameKeepsPhase
  <2> QED
    BY <1>1, <1>2, <1>11, <2>1, ReceiveDelivers DEF FullInv
<1>12. CASE RestartReceiver
  <2>1. receiverFailed' /\ expectedSequence' = 0 /\ outputFile' = << >> /\ UNCHANGED <<senderVars, frames, acks>>
    BY <1>12 DEF RestartReceiver
  <2>2. ControlInv'
    BY <2>1 DEF FullInv, ControlInv, senderVars, EndOf
  <2> QED
    BY <1>1, <2>1, <2>2 DEF FullInv, PhaseInv, DeliveryInv, Running
<1>13. CASE UNCHANGED vars
  BY <1>1, <1>13 DEF FullInv, PhaseInv, ControlInv, DeliveryInv, Running, Mine, Has, First, IsEnd, EndOf,
                     vars, senderVars, receiverVars
<1> QED
  BY <1>3, <1>4, <1>6, <1>7, <1>8, <1>9, <1>10, <1>11, <1>12, <1>13 DEF Next, SenderStep

LEMMA InitFullInv == Init => FullInv
<1> SUFFICES ASSUME Init
             PROVE  FullInv
  OBVIOUS
<1>1. TypeOK /\ SenderInv
  BY InitTypeInv DEF TypeInv
<1>2. OrderInv
  BY <1>1 DEF Init, OrderInv, FramesInv, StoredInv, InOrder
<1>3. /\ pc = "idle" /\ session = 0 /\ frames = << >> /\ acks = << >> /\ outputFile = << >>
      /\ expectedSequence = 0 /\ \A s \in Sessions : result[s] = "none"
  BY DEF Init
<1>4. PhaseInv /\ ControlInv /\ DeliveryInv
  BY <1>3 DEF PhaseInv, ControlInv, DeliveryInv, Running
<1> QED
  BY <1>2, <1>4 DEF FullInv

LEMMA FullInvAlways ==
    ASSUME "reorder" \notin Faults
    PROVE  Spec => []FullInv
BY InitFullInv, FullInvStep, PTL DEF Spec

-----------------------------------------------------------------------------
(* Theorems.                                                                *)

\* No ACK of an earlier frame, attempt or session is ever taken for the one
\* that is awaited: when isValidAck (stopAndWait.c) lets the sender turn its
\* bit over, a receiver that was never restarted has turned its own.
THEOREM AcksArriveInPhase ==
    ASSUME "reorder" \notin Faults
    PROVE  Spec => AckMeansInPhase
<1>1. FullInv /\ [Next]_vars =>
         [currentSeq' # currentSeq /\ session' = session /\ ~ receiverFailed
             => expectedSequence = currentSeq']_vars
  <2> SUFFICES ASSUME FullInv, Next, currentSeq' # currentSeq, session' = session, ~ receiverFailed
               PROVE  expectedSequence = currentSeq'
    BY DEF vars, senderVars
  <2>1. CASE ValidAck
    BY <2>1, AckInPhase
  <2>2. CASE StartTransfer
    BY <2>2, SessionFacts DEF StartTransfer, FullInv, OrderInv
  <2> QED
    BY <2>1, <2>2 DEF Next, SenderStep, OpenFails, NotSock, Transmit, SocketError, Timeout, InvalidAck, Kill,
                      Receive, RestartReceiver, senderVars, kernelVars
<1> QED
  BY <1>1, FullInvAlways, PTL DEF Spec, AckMeansInPhase

\* The file of a receiver that did its part has no hole between two blocks of
\* one session (clientUser.c), whatever became of the sessions.
THEOREM NoHoles ==
    ASSUME "reorder" \notin Faults
    PROVE  Spec => []Contiguous
<1>1. FullInv => Contiguous
  <2> SUFFICES ASSUME FullInv, ~ receiverFailed, NEW i \in DOMAIN outputFile \ {1},
                      outputFile[i][1] = outputFile[i - 1][1]
               PROVE  outputFile[i][2] = outputFile[i - 1][2] + 1
    BY DEF Contiguous
  <2>1. /\ DOMAIN outputFile = 1 .. Len(outputFile) /\ Len(outputFile) \in Nat
        /\ \A j \in DOMAIN outputFile : outputFile[j] \in Position
    BY Positions DEF FullInv, OrderInv
  <2>2. i - 1 \in DOMAIN outputFile /\ i - 1 < i
    BY <2>1
  <2>3. /\ outputFile[i][1] \in Nat /\ outputFile[i][2] \in Nat /\ outputFile[i - 1][2] \in Nat
        /\ outputFile[i - 1][2] > 0 /\ outputFile[i - 1][2] < outputFile[i][2]
    BY <2>1, <2>2 DEF Position, FullInv, ControlInv, OrderInv, InOrder, Before
  <2> DEFINE s == outputFile[i][1]
             k == outputFile[i][2] - 1
  <2>4. ASSUME outputFile[i - 1][2] # k
        PROVE  FALSE
    <3>1. k \in First(s) .. outputFile[i][2] - 1
      BY <2>3, <2>4 DEF First
    <3>2. PICK m \in DOMAIN outputFile : outputFile[m] = <<s, k>>
      BY <2>1, <3>1 DEF FullInv, DeliveryInv, Has, Contains
    <3>3. m < i \/ m = i \/ i < m
      BY <2>1
    <3>4. m < i - 1 \/ m = i - 1 \/ i <= m
      BY <2>1
    <3>5. outputFile[m][1] = s /\ outputFile[m][2] = k
      BY <3>2
    <3>6. CASE m < i - 1
      <4>1. Before(outputFile[m], outputFile[i - 1])
        BY <2>2, <3>6 DEF FullInv, OrderInv, InOrder
      <4> QED
        BY <2>3, <2>4, <3>5, <4>1 DEF Before
    <3>7. CASE i < m
      <4>1. Before(outputFile[i], outputFile[m])
        BY <3>7 DEF FullInv, OrderInv, InOrder
      <4> QED
        BY <2>3, <3>5, <4>1 DEF Before
    <3>8. m # i /\ m # i - 1
      BY <2>3, <2>4, <3>5
    <3> QED
      BY <2>1, <3>3, <3>4, <3>6, <3>7, <3>8
  <2> QED
    BY <2>3, <2>4
<1> QED
  BY <1>1, FullInvAlways, PTL

\* "Envio exitoso" means that the receiver has stored the file, but perhaps
\* for its first block (serverSender.c, clientUser.c:120-131).
THEOREM DeliveredButFirst ==
    ASSUME "reorder" \notin Faults
    PROVE  Spec => []OkMeansAllButFirst
<1>1. FullInv => OkMeansAllButFirst
  <2> SUFFICES ASSUME FullInv, ~ receiverFailed, NEW s \in Sessions, result[s] = "ok",
                      NEW k \in 2 .. Files[s]
               PROVE  Contains(outputFile, <<s, k>>)
    BY DEF OkMeansAllButFirst
  <2>1. Files[s] \in Nat
    BY SessionFacts DEF FullInv, OrderInv
  <2>2. k \in First(s) .. Files[s]
    BY <2>1 DEF First
  <2> QED
    BY <2>2 DEF FullInv, DeliveryInv, Has
<1> QED
  BY <1>1, FullInvAlways, PTL

-----------------------------------------------------------------------------
(* The refinement.  Keeps: a step of FileTransfer, or none.                 *)

Keeps == Promise!Next \/ UNCHANGED Promise!promiseVars

\* What FileTransfer calls stored is what the file has.
LEMMA StoredIsHas ==
    ASSUME TypeOK
    PROVE  \A s, k : k \in Promise!Stored(s) <=> Has(s, k)
<1>1. /\ DOMAIN outputFile = 1 .. Len(outputFile)
      /\ \A i \in DOMAIN outputFile : outputFile[i] = <<outputFile[i][1], outputFile[i][2]>>
  <2>1. outputFile \in Seq(Sessions \X Nat)
    BY DEF TypeOK
  <2> QED
    BY <2>1
<1> SUFFICES ASSUME NEW s, NEW k
             PROVE  k \in Promise!Stored(s) <=> Has(s, k)
  OBVIOUS
<1>2. k \in Promise!Stored(s) <=> \E i \in DOMAIN outputFile : outputFile[i][1] = s /\ outputFile[i][2] = k
  BY DEF Promise!Stored
<1>3. Has(s, k) <=> \E i \in DOMAIN outputFile : outputFile[i] = <<s, k>>
  BY <1>1 DEF Has, Contains
<1> QED
  BY <1>1, <1>2, <1>3

\* What FileTransfer needs before block k.
LEMMA NeededIsFirst == \A s, k : Promise!Needed(s, k) = First(s) .. k - 1
BY DEF Promise!Needed, First

\* A session tells its user how it ended.
LEMMA EndKeepsPromise ==
    ASSUME FullInv, pc # "idle", NEW r \in {"ok", "failed"},
           result' = [result EXCEPT ![session] = r],
           UNCHANGED <<session, receiverVars>>,
           ~ receiverFailed /\ r = "ok" => \A k \in First(session) .. Files[session] : Has(session, k)
    PROVE  Keeps
<1>1. session > 0 /\ session \in Sessions /\ result[session] = "none"
  BY SessionFacts DEF FullInv, OrderInv, SenderInv, ControlInv, TypeOK
<1>2. Files[session] \in Nat /\ (Files[session] + 1) - 1 = Files[session]
  BY <1>1, SessionFacts DEF FullInv, OrderInv
<1>3. CASE r = "ok"
  <2>1. receiverFailed \/ Promise!Needed(session, Files[session] + 1) \subseteq Promise!Stored(session)
    BY <1>2, <1>3, StoredIsHas, NeededIsFirst DEF FullInv, OrderInv
  <2>2. Promise!Succeed
    BY <1>1, <1>3, <2>1 DEF Promise!Succeed, receiverVars
  <2> QED
    BY <2>2 DEF Keeps, Promise!Next
<1>4. CASE r = "failed"
  <2>1. Promise!Fail
    BY <1>1, <1>4 DEF Promise!Fail, receiverVars
  <2> QED
    BY <2>1 DEF Keeps, Promise!Next
<1> QED
  BY <1>3, <1>4

\* A block is stored, behind those before it.
LEMMA ReceiveKeepsPromise ==
    ASSUME FullInv, FullInv', Receive, "reorder" \notin Faults
    PROVE  Keeps
<1> DEFINE f == frames[1]
           x == <<f.port, f.blk>>
<1>1. /\ 1 \in DOMAIN frames /\ UNCHANGED <<session, result>>
      /\ ReceiveEnd(f) \/ ReceiveNew(f) \/ ReceiveDuplicate(f)
  BY OldestLeaves DEF FullInv, OrderInv, Receive, senderVars
<1>2. /\ f.port \in Sessions /\ f.port \in 1 .. session /\ f.blk \in Nat \ {0} /\ f.blk <= EndOf(f.port)
      /\ session \in Nat /\ f.port \in Nat
  BY <1>1, PortsInOrder DEF FullInv, ControlInv, OrderInv, FramesInv
<1>3. Files[f.port] \in Nat /\ EndOf(f.port) = Files[f.port] + 1
  BY <1>2, SessionFacts DEF FullInv, OrderInv
<1> HIDE DEF f, x
<1>4. CASE outputFile' = outputFile /\ receiverFailed' = receiverFailed
  BY <1>1, <1>4 DEF Keeps, Promise!promiseVars
<1>5. CASE outputFile' = outputFile /\ receiverFailed'
  <2>1. Promise!ReceiverFails
    BY <1>1, <1>5 DEF Promise!ReceiverFails
  <2> QED
    BY <2>1 DEF Keeps, Promise!Next
<1>6. CASE outputFile' = Append(outputFile, x) /\ receiverFailed' = receiverFailed /\ ~ IsEnd(f)
  <2>1. f.blk \in 1 .. Files[f.port]
    BY <1>2, <1>3, <1>6 DEF IsEnd
  <2>2. \A i \in DOMAIN outputFile : Before(outputFile[i], x)
    <3>1. outputFile \in Seq(Sessions \X Nat) /\ x \in Sessions \X Nat
      BY <1>2 DEF FullInv, OrderInv, TypeOK, x
    <3>2. /\ DOMAIN outputFile = 1 .. Len(outputFile) /\ Len(outputFile) \in Nat
          /\ DOMAIN outputFile' = 1 .. Len(outputFile) + 1
          /\ \A i \in 1 .. Len(outputFile) : outputFile'[i] = outputFile[i]
          /\ outputFile'[Len(outputFile) + 1] = x
      BY <1>6, <3>1, AppendProperties
    <3>3. \A i, j \in DOMAIN outputFile' : i < j => Before(outputFile'[i], outputFile'[j])
      BY DEF FullInv, OrderInv, InOrder, Before
    <3>4. \A i \in DOMAIN outputFile : /\ i \in DOMAIN outputFile' /\ i < Len(outputFile) + 1
                                       /\ Len(outputFile) + 1 \in DOMAIN outputFile'
      BY <3>2
    <3> QED
      BY <3>2, <3>3, <3>4
  <2>3. \A i \in DOMAIN outputFile : \/ outputFile[i][1] < f.port
                                     \/ outputFile[i][1] = f.port /\ outputFile[i][2] < f.blk
    BY <2>2 DEF Before, x
  <2>4. \A j \in Promise!Stored(f.port) : j < f.blk
    BY <1>2, <2>3 DEF Promise!Stored
  <2>5. \A t \in f.port + 1 .. session : Promise!Stored(t) = {}
    BY <1>2, <2>3 DEF Promise!Stored
  <2>6. receiverFailed \/ Promise!Needed(f.port, f.blk) \subseteq Promise!Stored(f.port)
    <3>1. receiverFailed \/ \A k \in First(f.port) .. f.blk - 1 : Has(f.port, k)
      BY <1>1, <1>6 DEF FullInv, DeliveryInv, f
    <3> QED
      BY <3>1, StoredIsHas, NeededIsFirst DEF FullInv, OrderInv
  <2>7. Promise!Deliver(f.port, f.blk)
    BY <1>1, <1>6, <2>4, <2>5, <2>6 DEF Promise!Deliver, x
  <2> QED
    BY <1>2, <2>1, <2>7 DEF Keeps, Promise!Next
<1> QED
  BY <1>1, <1>4, <1>5, <1>6 DEF ReceiveEnd, ReceiveNew, ReceiveDuplicate, WriteBlock, receiverVars, x

LEMMA PromiseStep ==
    ASSUME "reorder" \notin Faults
    PROVE  FullInv /\ [Next]_vars => [Promise!Next]_Promise!promiseVars
<1> SUFFICES ASSUME FullInv, [Next]_vars
             PROVE  Keeps
  BY DEF Keeps
<1> USE DEF Promise!promiseVars
<1>1. FullInv'
  BY FullInvStep
<1>2. ASSUME UNCHANGED <<session, result, receiverVars>>
      PROVE  Keeps
  BY <1>2 DEF Keeps, receiverVars
<1>3. CASE StartTransfer
  <2>1. Promise!Begin
    BY <1>3 DEF StartTransfer, Promise!Begin, receiverVars
  <2> QED
    BY <2>1 DEF Keeps, Promise!Next
<1>4. CASE OpenFails
  <2>1. Promise!BeginAndFail
    BY <1>4 DEF OpenFails, Promise!BeginAndFail, receiverVars
  <2> QED
    BY <2>1 DEF Keeps, Promise!Next
<1>5. ASSUME pc # "idle", FrameFailed, UNCHANGED <<session, receiverVars>>
      PROVE  Keeps
  <2>1. CASE blk = EndOf(session)
    <3>1. result' = [result EXCEPT ![session] = "failed"]
      BY <1>5, <2>1 DEF FrameFailed, Finish
    <3> QED
      BY <1>5, <3>1, EndKeepsPromise
  <2>2. CASE blk # EndOf(session)
    BY <1>2, <1>5, <2>2 DEF FrameFailed
  <2> QED
    BY <2>1, <2>2
<1>6. CASE NotSock \/ SocketError
  BY <1>5, <1>6 DEF NotSock, SocketError
<1>7. CASE Timeout \/ InvalidAck
  BY <1>2, <1>5, <1>7 DEF Timeout, InvalidAck, Retry
<1>8. CASE ValidAck
  <2>1. pc # "idle" /\ FrameConfirmed /\ UNCHANGED <<session, success, receiverVars>>
    BY <1>8 DEF ValidAck
  <2>2. CASE blk = EndOf(session)
    <3>1. result' = [result EXCEPT ![session] = IF success THEN "ok" ELSE "failed"]
      BY <2>1, <2>2 DEF FrameConfirmed, Finish
    <3>2. session \in Sessions /\ EndOf(session) - 1 = Files[session]
      BY <2>1, SessionFacts DEF FullInv, OrderInv, SenderInv, TypeOK
    <3>3. ~ receiverFailed /\ success => \A k \in First(session) .. Files[session] : Has(session, k)
      BY <2>1, <2>2, <3>2 DEF FullInv, DeliveryInv
    <3> QED
      BY <2>1, <3>1, <3>3, EndKeepsPromise
  <2>3. CASE blk # EndOf(session)
    BY <1>2, <2>1, <2>3 DEF FrameConfirmed
  <2> QED
    BY <2>2, <2>3
<1>9. CASE Transmit
  BY <1>2, <1>9 DEF Transmit
<1>10. CASE Kill
  BY <1>10, EndKeepsPromise DEF Kill
<1>11. CASE Receive
  BY <1>1, <1>11, ReceiveKeepsPromise
<1>12. CASE RestartReceiver
  <2>1. Promise!ReceiverFails
    BY <1>12 DEF RestartReceiver, Promise!ReceiverFails, senderVars
  <2> QED
    BY <2>1 DEF Keeps, Promise!Next
<1>13. CASE UNCHANGED vars
  BY <1>2, <1>13 DEF vars, senderVars
<1> QED
  BY <1>3, <1>4, <1>6, <1>7, <1>8, <1>9, <1>10, <1>11, <1>12, <1>13 DEF Next, SenderStep

\* The kernel's stop-and-wait and the two programs keep the promise of
\* FileTransfer: whatever fails, blocks arrive in order and once each, and a
\* run that reports success to its user has delivered its file, but for the
\* reservations FileTransfer makes.
THEOREM PromiseKept ==
    ASSUME "reorder" \notin Faults
    PROVE  Spec => KeepsPromise
<1>1. Init => Promise!Init
  BY DEF Init, Promise!Init, Sessions
<1>2. FullInv /\ [Next]_vars => [Promise!Next]_Promise!promiseVars
  BY PromiseStep
<1> QED
  BY <1>1, <1>2, FullInvAlways, PTL DEF Spec, KeepsPromise, Promise!Spec
=============================================================================
