------------------------- MODULE TcpTransmit_proofs -------------------------
(***************************************************************************)
(* Proofs about TcpTransmit, for any number of packets, clients and        *)
(* threads.                                                                *)
(*                                                                         *)
(* That the queue keeps its order needs to know that one thread at most    *)
(* has taken a packet that is not on the wire: it holds txMtx all the way. *)
(***************************************************************************)
EXTENDS TcpTransmit, SequenceTheorems, TLAPS

HoldsTxMtx(t) == pc[t] \in {"stopping", "writing"}

OneHolds == \A t, u \in TxThread : HoldsTxMtx(t) /\ HoldsTxMtx(u) => t = u
WritersHaveJobs == \A t \in TxThread : job[t] # None <=> pc[t] = "writing"

Inv == TypeOK /\ OneHolds /\ WritersHaveJobs

-----------------------------------------------------------------------------
\* An element put in front of a queue, taken off again.
LEMMA TakenOff ==
  ASSUME NEW S, NEW p \in S, NEW s \in Seq(S)
  PROVE  <<p>> \o s # <<>> /\ Head(<<p>> \o s) = p /\ Tail(<<p>> \o s) = s
<1>1. Tail(<<p>> \o s) = s
  BY ConcatProperties, HeadTailProperties, LenProperties, SeqEqual
<1> QED
  BY <1>1, ConcatProperties

\* The head of a queue, put back in front of its tail.
LEMMA PutBack ==
  ASSUME NEW S, NEW s \in Seq(S), s # <<>>
  PROVE  <<Head(s)>> \o Tail(s) = s
BY ConcatProperties, HeadTailProperties, SeqEqual

\* What is appended to the second of two queues is appended to both together.
LEMMA AppendedBehind ==
  ASSUME NEW S, NEW r \in Seq(S), NEW s \in Seq(S), NEW p \in S
  PROVE  r \o Append(s, p) = Append(r \o s, p)
BY ConcatAssociative, AppendIsConcat, ConcatProperties

\* A notification wakes one thread that waits, or nobody.
LEMMA NotifyKeeps ==
  ASSUME TypeOK, OneHolds, notify_one
  PROVE  /\ pc' \in [TxThread -> {"none", "top", "stopping", "waiting", "woken", "writing"}]
         /\ \A t \in TxThread : HoldsTxMtx(t)' <=> HoldsTxMtx(t)
         /\ \A t \in TxThread : pc'[t] = "writing" <=> pc[t] = "writing"
BY DEF TypeOK, notify_one, At, HoldsTxMtx

LEMMA MakerKeeps ==
  ASSUME TypeOK, OneHolds, txThreadMaker
  PROVE  /\ pc' \in [TxThread -> {"none", "top", "stopping", "waiting", "woken", "writing"}]
         /\ \A t \in TxThread : HoldsTxMtx(t)' <=> HoldsTxMtx(t)
         /\ \A t \in TxThread : pc'[t] = "writing" <=> pc[t] = "writing"
BY DEF TypeOK, txThreadMaker, At, HoldsTxMtx

\* Where no thread comes to hold txMtx and no job changes, both parts are kept.
LEMMA NobodyTakes ==
  ASSUME OneHolds, WritersHaveJobs, UNCHANGED job,
         \A t \in TxThread : HoldsTxMtx(t)' => HoldsTxMtx(t),
         \A t \in TxThread : pc'[t] = "writing" <=> pc[t] = "writing"
  PROVE  OneHolds' /\ WritersHaveJobs'
BY DEF OneHolds, WritersHaveJobs

\* What the manager records is a number.
LEMMA QueueLength == TypeOK => Len(pendingBuffs) \in Nat
BY LenProperties DEF TypeOK

-----------------------------------------------------------------------------
LEMMA InitInv == Init => Inv
<1> SUFFICES ASSUME Init PROVE Inv
  OBVIOUS
<1>1. TypeOK
  BY EmptySeq, Zenon DEF Init, TypeOK
<1>2. OneHolds /\ WritersHaveJobs
  BY DEF Init, OneHolds, WritersHaveJobs, HoldsTxMtx
<1> QED
  BY <1>1, <1>2 DEF Inv

LEMMA SendStep == ASSUME Inv, NEW p \in Packet, send(p) PROVE Inv'
<1>1. TypeOK'
  <2>1. Append(pendingBuffs, p) \in Seq(Packet)
    BY AppendProperties DEF Inv, TypeOK
  <2>2. /\ sender' \in [Packet -> {"new", "arming", "sent", "thrown"}]
        /\ disarmed' \in BOOLEAN /\ txReady' \in BOOLEAN
    <3>1. \/ sender' = [sender EXCEPT ![p] = "arming"] /\ disarmed' = disarmed
          \/ sender' = [sender EXCEPT ![p] = "thrown"] /\ disarmed' = TRUE
      BY DEF send
    <3>2. txReady' = FALSE
      BY DEF send
    <3> QED
      BY <3>1, <3>2 DEF Inv, TypeOK
  <2>3. pendingBuffs' \in Seq(Packet) /\ txDataQ_Pushes' \in Nat
    <3>1. CASE pendingBuffs' = Append(pendingBuffs, p) /\ txDataQ_Pushes' = txDataQ_Pushes + 1
      BY <2>1, <3>1 DEF Inv, TypeOK
    <3>2. CASE pendingBuffs' = pendingBuffs /\ txDataQ_Pushes' = txDataQ_Pushes
      BY <3>2 DEF Inv, TypeOK
    <3> QED
      BY <3>1, <3>2 DEF send
  <2> QED
    BY <2>2, <2>3 DEF Inv, TypeOK, send
<1>2. UNCHANGED <<pc, job>>
  BY DEF send
<1> QED
  BY <1>1, <1>2, NobodyTakes DEF Inv, HoldsTxMtx

LEMMA ArmStep == ASSUME Inv, NEW p \in Packet, Arm(p) PROVE Inv'
<1>1. TypeOK'
  BY NotifyKeeps DEF Inv, TypeOK, Arm, counters
<1> QED
  BY <1>1, NotifyKeeps, NobodyTakes DEF Inv, Arm

LEMMA EndThreadStep == ASSUME Inv, NEW t \in TxThread, EndThread(t) PROVE Inv'
<1>1. TypeOK'
  BY DEF Inv, TypeOK, EndThread, counters
<1>2. \A u \in TxThread : HoldsTxMtx(u)' <=> HoldsTxMtx(u)
  BY DEF Inv, TypeOK, EndThread, Ends, HoldsTxMtx
<1>3. \A u \in TxThread : pc'[u] = "writing" <=> pc[u] = "writing"
  BY DEF Inv, TypeOK, EndThread, Ends
<1> QED
  BY <1>1, <1>2, <1>3, NobodyTakes DEF Inv, EndThread

\* Who finds txMtx free and takes it is alone with it.
LEMMA AloneWithTxMtx ==
  ASSUME TypeOK, txMtxFree, NEW t \in TxThread, NEW place, pc' = [pc EXCEPT ![t] = place]
  PROVE  OneHolds'
BY DEF TypeOK, txMtxFree, At, OneHolds, HoldsTxMtx

LEMMA TakePacketStep == ASSUME Inv, NEW t \in TxThread, TakePacket(t) PROVE Inv'
<1>1. Head(pendingBuffs) \in Packet /\ Tail(pendingBuffs) \in Seq(Packet)
  BY HeadTailProperties DEF Inv, TypeOK, TakePacket
<1>2. TypeOK'
  BY <1>1 DEF Inv, TypeOK, TakePacket
<1>3. OneHolds'
  BY AloneWithTxMtx DEF Inv, TakePacket
<1>4. WritersHaveJobs'
  BY <1>1, ToAssumption DEF Inv, TypeOK, WritersHaveJobs, TakePacket
<1> QED
  BY <1>2, <1>3, <1>4 DEF Inv

LEMMA FindNothingStep == ASSUME Inv, NEW t \in TxThread, FindNothing(t) PROVE Inv'
<1>1. TypeOK'
  BY DEF Inv, TypeOK, FindNothing, counters
<1>2. OneHolds'
  BY AloneWithTxMtx DEF Inv, FindNothing
<1>3. WritersHaveJobs'
  BY DEF Inv, TypeOK, WritersHaveJobs, FindNothing, Tests
<1> QED
  BY <1>1, <1>2, <1>3 DEF Inv

LEMMA WaitStep == ASSUME Inv, NEW t \in TxThread, Wait(t) PROVE Inv'
<1>1. TypeOK'
  BY DEF Inv, TypeOK, Wait, counters
<1>2. \A u \in TxThread : HoldsTxMtx(u)' => HoldsTxMtx(u)
  BY DEF Inv, TypeOK, Wait, HoldsTxMtx
<1>3. \A u \in TxThread : pc'[u] = "writing" <=> pc[u] = "writing"
  BY DEF Inv, TypeOK, Wait
<1> QED
  BY <1>1, <1>2, <1>3, NobodyTakes DEF Inv, Wait

\* Both ways out of the write, of a client that is there and of one that is gone.
LEMMA ReleaseStep ==
  ASSUME Inv, NEW t \in TxThread, Release(t), written' \in Seq(Packet)
  PROVE  Inv'
<1>1. TypeOK'
  BY DEF Inv, TypeOK, Release, counters
<1>2. OneHolds'
  BY DEF Inv, TypeOK, OneHolds, HoldsTxMtx, Release
<1>3. WritersHaveJobs'
  BY DEF Inv, TypeOK, WritersHaveJobs, Release
<1> QED
  BY <1>1, <1>2, <1>3 DEF Inv

LEMMA WriteStep ==
  ASSUME Inv, NEW t \in TxThread, uv_write(t) \/ SkipWrite(t)
  PROVE  Inv'
<1>1. Release(t)
  BY DEF uv_write, SkipWrite
<1>2. job[t] \in Packet
  BY <1>1 DEF Inv, TypeOK, WritersHaveJobs, Release
<1>3. written' \in Seq(Packet)
  <2>1. written \in Seq(Packet)
    BY DEF Inv, TypeOK
  <2>2. written' = written \/ written' = Append(written, job[t])
    BY DEF uv_write, SkipWrite
  <2> QED
    BY <1>2, <2>1, <2>2, AppendProperties
<1> QED
  BY <1>1, <1>3, ReleaseStep

LEMMA StopStep == ASSUME Inv, NEW c \in Client, stop(c) PROVE Inv'
<1>1. TypeOK'
  BY DEF Inv, TypeOK, stop, counters
<1> QED
  BY <1>1, NobodyTakes DEF Inv, HoldsTxMtx, stop

LEMMA ManagerStep == ASSUME Inv, txThreadMgr PROVE Inv'
<1>1. CASE GrowPool
  <2>1. TypeOK'
    BY <1>1, MakerKeeps DEF Inv, TypeOK, GrowPool, counters
  <2> QED
    BY <1>1, <2>1, MakerKeeps, NobodyTakes DEF Inv, GrowPool
<1>2. CASE ShrinkPool
  <2>1. CASE UNCHANGED <<pc, txRemoveThread>>
    <3>1. TypeOK'
      BY <1>2, <2>1 DEF Inv, TypeOK, ShrinkPool, counters
    <3> QED
      BY <1>2, <2>1, <3>1, NobodyTakes DEF Inv, ShrinkPool, HoldsTxMtx
  <2>2. CASE txRemoveThread' = TRUE /\ notify_one
    <3>1. TypeOK'
      BY <1>2, <2>2, NotifyKeeps DEF Inv, TypeOK, ShrinkPool, counters
    <3> QED
      BY <1>2, <2>2, <3>1, NotifyKeeps, NobodyTakes DEF Inv, ShrinkPool
  <2> QED
    BY <1>2, <2>1, <2>2 DEF ShrinkPool
<1>3. CASE RecordSize
  <2>1. TypeOK'
    BY <1>3, QueueLength DEF Inv, TypeOK, RecordSize
  <2> QED
    BY <1>3, <2>1, NobodyTakes DEF Inv, RecordSize, HoldsTxMtx
<1>4. CASE ZeroCounters
  <2>1. TypeOK'
    BY <1>4 DEF Inv, TypeOK, ZeroCounters
  <2> QED
    BY <1>4, <2>1, NobodyTakes DEF Inv, ZeroCounters, HoldsTxMtx
<1> QED
  BY <1>1, <1>2, <1>3, <1>4 DEF txThreadMgr

LEMMA InductiveInv == Inv /\ [Next]_vars => Inv'
<1> SUFFICES ASSUME Inv, [Next]_vars PROVE Inv'
  OBVIOUS
<1>1. CASE UNCHANGED vars
  BY <1>1 DEF Inv, TypeOK, OneHolds, HoldsTxMtx, WritersHaveJobs, vars, counters
<1>2. CASE \E p \in Packet : send(p) \/ Arm(p)
  BY <1>2, SendStep, ArmStep
<1>3. CASE \E t \in TxThread : txThread(t) \/ SkipWrite(t)
  BY <1>3, EndThreadStep, TakePacketStep, FindNothingStep, WaitStep, WriteStep DEF txThread
<1>4. CASE \E c \in Leaving : stop(c)
  BY <1>4, StopStep, ToAssumption
<1>5. CASE txThreadMgr
  BY <1>5, ManagerStep
<1> QED
  BY <1>1, <1>2, <1>3, <1>4, <1>5 DEF Next

LEMMA SpecInv == Spec => []Inv
BY InitInv, InductiveInv, PTL DEF Spec

-----------------------------------------------------------------------------
\* The variables keep to their types.
THEOREM TypeCorrect == Spec => []TypeOK
BY SpecInv, PTL DEF Inv

-----------------------------------------------------------------------------
(***************************************************************************)
(* The flag.  Every step that leaves packets in the queue either leaves    *)
(* txReady alone, sets it, or is a send() that goes on to set it.          *)
(***************************************************************************)
LEMMA ArmedStep ==
  ASSUME TypeOK, TxArmed, [Next]_vars
  PROVE  TxArmed'
<1>1. CASE UNCHANGED vars
  BY <1>1 DEF TxArmed, vars, counters
<1>2. ASSUME NEW p \in Packet, send(p)
      PROVE  TxArmed'
  BY <1>2 DEF TypeOK, TxArmed, send
<1>3. ASSUME NEW p \in Packet, Arm(p)
      PROVE  TxArmed'
  BY <1>3 DEF TxArmed, Arm
<1>4. ASSUME NEW t \in TxThread, TakePacket(t)
      PROVE  TxArmed'
  BY <1>4 DEF TxArmed, TakePacket
<1>5. ASSUME NEW t \in TxThread, FindNothing(t)
      PROVE  TxArmed'
  BY <1>5 DEF TxArmed, FindNothing
<1>6. ASSUME NEW t \in TxThread, EndThread(t) \/ Wait(t) \/ uv_write(t) \/ SkipWrite(t)
      PROVE  TxArmed'
  BY <1>6 DEF TxArmed, EndThread, Wait, uv_write, SkipWrite, Release
<1>7. ASSUME NEW c \in Client, stop(c)
      PROVE  TxArmed'
  BY <1>7 DEF TxArmed, stop
<1>8. CASE txThreadMgr
  BY <1>8 DEF TxArmed, txThreadMgr, GrowPool, ShrinkPool, RecordSize, ZeroCounters
<1> QED
  BY <1>1, <1>2, <1>3, <1>4, <1>5, <1>6, <1>7, <1>8, ToAssumption DEF Next, txThread

\* With packets in the queue the flag that a thread has to see is set, or is about to be,
\* unless a send() has thrown after taking it back.
THEOREM FlagNotForgotten == Spec => []TxArmed
<1>1. Init => TxArmed
  BY DEF Init, TxArmed
<1> QED
  BY <1>1, ArmedStep, TypeCorrect, PTL DEF Spec

-----------------------------------------------------------------------------
(***************************************************************************)
(* The order.  The queue of Fifo is the packet that a thread has taken, if *)
(* one has, and what is in pendingBuffs behind it.                         *)
(***************************************************************************)
LEMMA NobodyWrites ==
  ASSUME Writers = {}, TypeOK
  PROVE  BeingWritten \o pendingBuffs = pendingBuffs
BY ConcatEmptySeq DEF BeingWritten, TypeOK

LEMMA OneWrites ==
  ASSUME NEW t, Writers = {t}
  PROVE  BeingWritten = <<job[t]>>
BY DEF BeingWritten

LEMMA BeingWrittenType == Inv => BeingWritten \in Seq(Packet)
<1> SUFFICES ASSUME Inv, Writers # {} PROVE BeingWritten \in Seq(Packet)
  BY EmptySeq DEF BeingWritten
<1> DEFINE t == CHOOSE u \in Writers : TRUE
<1>1. t \in Writers
  OBVIOUS
<1>2. job[t] \in Packet
  BY <1>1 DEF Writers, Inv, TypeOK
<1>3. BeingWritten = <<job[t]>>
  BY DEF BeingWritten
<1> QED
  BY <1>2, <1>3

-----------------------------------------------------------------------------
\* send() puts its packet behind all others.
LEMMA SendPuts ==
  ASSUME Inv, NEW p \in Packet, send(p)
  PROVE  [Transmitter!Next]_(Transmitter!vars)
<1>1. BeingWritten' = BeingWritten
  BY DEF send, BeingWritten, Writers
<1>2. CASE pendingBuffs' = Append(pendingBuffs, p)
  <2>1. (BeingWritten \o pendingBuffs)' = Append(BeingWritten \o pendingBuffs, p)
    BY <1>1, <1>2, BeingWrittenType, AppendedBehind DEF Inv, TypeOK
  <2>2. Transmitter!Put(p)
    BY <2>1 DEF Transmitter!Put, send
  <2> QED
    BY <2>2 DEF Transmitter!Next
<1>3. CASE UNCHANGED pendingBuffs
  BY <1>1, <1>3 DEF Transmitter!vars, send
<1> QED
  BY <1>2, <1>3 DEF send

\* A thread that takes a packet keeps it in its place, in front of the queue.
LEMMA TakeStutters ==
  ASSUME Inv, NEW t \in TxThread, TakePacket(t)
  PROVE  UNCHANGED (Transmitter!vars)
<1>1. Writers = {}
  BY DEF Inv, WritersHaveJobs, Writers, TakePacket, txMtxFree, At
<1>2. Head(pendingBuffs) \in Packet
  BY HeadTailProperties DEF Inv, TypeOK, TakePacket
<1>3. Writers' = {t}
  BY <1>1, <1>2, ToAssumption DEF Inv, TypeOK, Writers, TakePacket
<1>4. BeingWritten' = <<Head(pendingBuffs)>>
  <2>1. BeingWritten' = <<job'[t]>>
    BY <1>3 DEF BeingWritten
  <2> QED
    BY <2>1 DEF Inv, TypeOK, TakePacket
<1>5. (BeingWritten \o pendingBuffs)' = pendingBuffs
  BY <1>4, PutBack DEF Inv, TypeOK, TakePacket
<1>6. BeingWritten \o pendingBuffs = pendingBuffs
  BY <1>1, NobodyWrites DEF Inv
<1> QED
  BY <1>5, <1>6 DEF Transmitter!vars, TakePacket

\* The packet that a thread writes, or drops, is the one in front.
LEMMA ReleaseTakesHead ==
  ASSUME Inv, NEW t \in TxThread, Release(t)
  PROVE  /\ BeingWritten \o pendingBuffs # <<>>
         /\ Head(BeingWritten \o pendingBuffs) = job[t]
         /\ (BeingWritten \o pendingBuffs)' = Tail(BeingWritten \o pendingBuffs)
<1>1. job[t] \in Packet
  BY DEF Inv, TypeOK, WritersHaveJobs, Release
<1>2. Writers = {t}
  BY <1>1, ToAssumption DEF Inv, OneHolds, HoldsTxMtx, WritersHaveJobs, Writers, Release
<1>3. BeingWritten = <<job[t]>>
  BY <1>2, OneWrites
<1>4. Writers' = {}
  BY <1>2 DEF Inv, TypeOK, Writers, Release
<1>5. BeingWritten' = <<>>
  BY <1>4 DEF BeingWritten
<1>6. (BeingWritten \o pendingBuffs)' = pendingBuffs
  BY <1>5, ConcatEmptySeq DEF Inv, TypeOK, Release
<1> QED
  BY <1>1, <1>3, <1>6, TakenOff DEF Inv, TypeOK

LEMMA WriteGets ==
  ASSUME Inv, NEW t \in TxThread, uv_write(t)
  PROVE  Transmitter!Get
BY ReleaseTakesHead DEF uv_write, Transmitter!Get

LEMMA SkipDrops ==
  ASSUME Inv, NEW t \in TxThread, SkipWrite(t)
  PROVE  Transmitter!Drop
BY ReleaseTakesHead DEF SkipWrite, Transmitter!Drop

\* Every other step leaves queue, jobs and wire alone.
LEMMA OtherStutters ==
  ASSUME UNCHANGED <<job, pendingBuffs, written>>
  PROVE  UNCHANGED (Transmitter!vars)
BY DEF Transmitter!vars, BeingWritten, Writers

LEMMA StepSimulation == Inv /\ [Next]_vars => [Transmitter!Next]_(Transmitter!vars)
<1> SUFFICES ASSUME Inv, [Next]_vars PROVE [Transmitter!Next]_(Transmitter!vars)
  OBVIOUS
<1>1. CASE UNCHANGED vars
  BY <1>1, OtherStutters DEF vars
<1>2. ASSUME NEW p \in Packet, Arm(p) PROVE UNCHANGED <<job, pendingBuffs, written>>
  BY <1>2 DEF Arm
<1>3. ASSUME NEW t \in TxThread, EndThread(t) \/ FindNothing(t) \/ Wait(t)
      PROVE  UNCHANGED <<job, pendingBuffs, written>>
  BY <1>3 DEF EndThread, FindNothing, Wait
<1>4. ASSUME NEW c \in Leaving, stop(c) PROVE UNCHANGED <<job, pendingBuffs, written>>
  BY <1>4 DEF stop
<1>5. ASSUME txThreadMgr PROVE UNCHANGED <<job, pendingBuffs, written>>
  BY <1>5 DEF txThreadMgr, GrowPool, ShrinkPool, RecordSize, ZeroCounters
<1>6. ASSUME NEW t \in TxThread, uv_write(t) \/ SkipWrite(t) PROVE Transmitter!Next
  BY <1>6, WriteGets, SkipDrops DEF Transmitter!Next
<1>7. CASE \E p \in Packet : send(p) \/ Arm(p)
  BY <1>2, <1>7, SendPuts, OtherStutters
<1>8. CASE \E t \in TxThread : txThread(t) \/ SkipWrite(t)
  BY <1>3, <1>6, <1>8, TakeStutters, OtherStutters DEF txThread
<1>9. CASE (\E c \in Leaving : stop(c)) \/ txThreadMgr
  BY <1>4, <1>5, <1>9, OtherStutters
<1> QED
  BY <1>1, <1>7, <1>8, <1>9 DEF Next

\* Packets go out once and in the order of the sends: TcpTransmit implements Fifo.
THEOREM TransmitIsFifo == Spec => SentInOrder
<1>1. Init => Transmitter!Init
  <2> SUFFICES ASSUME Init PROVE Transmitter!Init
    OBVIOUS
  <2>1. Writers = {} /\ TypeOK
    BY InitInv DEF Init, Writers, Inv
  <2> QED
    BY <2>1, NobodyWrites DEF Init, Transmitter!Init
<1> QED
  BY <1>1, SpecInv, StepSimulation, PTL DEF Spec, SentInOrder
=============================================================================
