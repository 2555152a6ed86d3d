------------------------- MODULE TcpReceive_proofs -------------------------
(***************************************************************************)
(* Proofs about TcpReceive, for any number of packets and threads and      *)
(* whatever their handlers wait for.                                       *)
(*                                                                         *)
(* The pool keeps its last thread because a thread is only told to end     *)
(* while there are two, and the next that ends takes the order back.  That *)
(* packets are handled once needs that no two of the places where packets  *)
(* are have one in common, which counting alone does not show.             *)
(***************************************************************************)
EXTENDS TcpReceive, SequenceTheorems, FiniteSetTheorems, TLAPS

Places == {"none", "top", "stopping", "waiting", "woken", "clearing", "handling"}
Running == RxThread \ At({"none"})
WithJob == {t \in RxThread : job[t] # None}

JobsAreHandled == \A t \in RxThread : job[t] # None <=> pc[t] = "handling"
SpareToEnd == reduceRXthread => rxThreadCounter > 1

\* no packet is in two places, or twice in one
OneQueuedPlace ==
  \A i, k \in DOMAIN receivedDataQ : receivedDataQ[i] = receivedDataQ[k] => i = k
OneThread == \A t, u \in WithJob : job[t] = job[u] => t = u
QueuedOnly ==
  \A i \in DOMAIN receivedDataQ : /\ receivedDataQ[i] \in read \ handled
                                  /\ \A t \in RxThread : job[t] # receivedDataQ[i]
InHandOnly == \A t \in WithJob : job[t] \in read \ handled
InOnePlace == OneQueuedPlace /\ OneThread /\ QueuedOnly /\ InHandOnly

ReadIsFinite == IsFiniteSet(read) /\ handled \subseteq read

Inv == TypeOK /\ JobsAreHandled /\ SpareToEnd
PacketInv == InOnePlace /\ ReadIsFinite /\ HandledOnce

-----------------------------------------------------------------------------
LEMMA RunningIsFinite == IsFiniteSet(Running) /\ Cardinality(Running) \in Nat
<1>1. Running \in SUBSET RxThread
  BY DEF Running
<1>2. IsFiniteSet(Running)
  BY <1>1, RxThreadAssumption, FS_Subset
<1> QED
  BY <1>2, FS_CardinalityType

LEMMA CounterIsRunning == rxThreadCounter = Cardinality(Running)
BY DEF rxThreadCounter, Running

\* A thread that is gone leaves one running thread fewer.
LEMMA OneLess ==
  ASSUME pc \in [RxThread -> Places], NEW t \in RxThread, pc[t] # "none",
         pc' = [pc EXCEPT ![t] = "none"]
  PROVE  Cardinality(Running') = Cardinality(Running) - 1
<1>1. Running' = Running \ {t}
  BY DEF Running, At, Places
<1>2. t \in Running
  BY DEF Running, At
<1> QED
  BY <1>1, <1>2, RunningIsFinite, FS_RemoveElement

\* A step of a thread other than its end leaves at least the running threads there were.
LEMMA NotFewer ==
  ASSUME pc \in [RxThread -> Places], NEW t \in RxThread,
         NEW place \in Places \ {"none"}, pc' = [pc EXCEPT ![t] = place]
  PROVE  rxThreadCounter' >= rxThreadCounter
<1>1. Running' = Running \cup {t}
  BY DEF Running, At, Places
<1>2. Cardinality(Running') >= Cardinality(Running)
  BY <1>1, RunningIsFinite, FS_AddElement
<1> QED
  BY <1>2, CounterIsRunning DEF rxThreadCounter, Running

LEMMA AsMany == ASSUME UNCHANGED pc PROVE rxThreadCounter' = rxThreadCounter
BY DEF rxThreadCounter, At

-----------------------------------------------------------------------------
\* A notification wakes one thread that waits, or nobody.
LEMMA NotifyKeeps ==
  ASSUME pc \in [RxThread -> Places], notify_one
  PROVE  /\ pc' \in [RxThread -> Places]
         /\ \A t \in RxThread : pc'[t] = "handling" <=> pc[t] = "handling"
         /\ rxThreadCounter' >= rxThreadCounter
<1>1. CASE UNCHANGED pc
  BY <1>1, AsMany, CounterIsRunning, RunningIsFinite
<1>2. ASSUME NEW t \in At({"waiting"}), pc' = [pc EXCEPT ![t] = "woken"]
      PROVE  /\ pc' \in [RxThread -> Places]
             /\ \A u \in RxThread : pc'[u] = "handling" <=> pc[u] = "handling"
             /\ rxThreadCounter' >= rxThreadCounter
  <2>1. rxThreadCounter' >= rxThreadCounter
    BY <1>2, NotFewer DEF At, Places
  <2> QED
    BY <1>2, <2>1 DEF At, Places
<1> QED
  BY <1>1, <1>2 DEF notify_one

LEMMA MakerKeeps ==
  ASSUME pc \in [RxThread -> Places], rxThreadMaker
  PROVE  /\ pc' \in [RxThread -> Places]
         /\ \A t \in RxThread : pc'[t] = "handling" <=> pc[t] = "handling"
         /\ rxThreadCounter' >= rxThreadCounter
<1>1. CASE UNCHANGED pc
  BY <1>1, AsMany, CounterIsRunning, RunningIsFinite
<1>2. ASSUME NEW t \in At({"none", "waiting"}), pc' = [pc EXCEPT ![t] = "top"]
      PROVE  /\ pc' \in [RxThread -> Places]
             /\ \A u \in RxThread : pc'[u] = "handling" <=> pc[u] = "handling"
             /\ rxThreadCounter' >= rxThreadCounter
  <2>1. rxThreadCounter' >= rxThreadCounter
    BY <1>2, NotFewer DEF At, Places
  <2> QED
    BY <1>2, <2>1 DEF At, Places
<1>3. /\ At({"none"}) \subseteq At({"none", "waiting"})
      /\ At({"waiting"}) \subseteq At({"none", "waiting"})
  BY DEF At
<1> QED
  BY <1>1, <1>2, <1>3 DEF rxThreadMaker

LEMMA InitInv == Init => Inv
<1> SUFFICES ASSUME Init PROVE Inv
  OBVIOUS
<1>1. TypeOK
  BY EmptySeq, Zenon DEF Init, TypeOK
<1> QED
  BY <1>1 DEF Init, Inv, JobsAreHandled, SpareToEnd

\* What is needed of a step that ends no thread.
LEMMA KeepsPool ==
  ASSUME Inv, UNCHANGED job, rxThreadCounter' >= rxThreadCounter, rxThreadCounter' \in Nat,
         reduceRXthread' => reduceRXthread \/ rxThreadCounter > 1,
         \A t \in RxThread : pc'[t] = "handling" <=> pc[t] = "handling"
  PROVE  JobsAreHandled' /\ SpareToEnd'
<1>1. rxThreadCounter \in Nat
  BY CounterIsRunning, RunningIsFinite
<1>2. SpareToEnd'
  BY <1>1 DEF Inv, SpareToEnd
<1> QED
  BY <1>2 DEF Inv, JobsAreHandled

LEMMA CounterType == rxThreadCounter \in Nat /\ rxThreadCounter' \in Nat
<1>1. rxThreadCounter \in Nat
  BY CounterIsRunning, RunningIsFinite
<1>2. Running' \in SUBSET RxThread
  BY DEF Running
<1>3. Cardinality(Running') \in Nat
  BY <1>2, RxThreadAssumption, FS_Subset, FS_CardinalityType
<1> QED
  BY <1>1, <1>3 DEF rxThreadCounter, Running

LEMMA EventLoopStep ==
  ASSUME Inv, (\E p \in Packet : _packetReceived(p)) \/ Announce
  PROVE  Inv' /\ rxThreadCounter' >= rxThreadCounter
<1>1. CASE Announce
  <2>1. pc \in [RxThread -> Places]
    BY DEF Inv, TypeOK, Places
  <2>2. notify_one /\ UNCHANGED <<job, reduceRXthread>>
    BY <1>1 DEF Announce
  <2>3. TypeOK'
    BY <1>1, <2>1, <2>2, NotifyKeeps DEF Inv, TypeOK, Announce, counters, Places
  <2> QED
    BY <2>1, <2>2, <2>3, NotifyKeeps, KeepsPool, CounterType DEF Inv
<1>2. ASSUME NEW p \in Packet, _packetReceived(p)
      PROVE  Inv' /\ rxThreadCounter' >= rxThreadCounter
  <2>1. Append(receivedDataQ, p) \in Seq(Packet)
    BY AppendProperties DEF Inv, TypeOK
  <2>2. TypeOK'
    BY <1>2, <2>1 DEF Inv, TypeOK, _packetReceived
  <2>3. UNCHANGED <<pc, job, reduceRXthread>>
    BY <1>2 DEF _packetReceived
  <2>4. rxThreadCounter' >= rxThreadCounter
    BY <2>3, AsMany, CounterType
  <2> QED
    BY <2>2, <2>3, <2>4, KeepsPool, CounterType DEF Inv
<1> QED
  BY <1>1, <1>2

-----------------------------------------------------------------------------
\* The thread that ends leaves another behind.
LEMMA EndThreadStep ==
  ASSUME Inv, NEW t \in RxThread, EndThread(t)
  PROVE  Inv' /\ rxThreadCounter' > 0
<1>1. pc \in [RxThread -> Places] /\ pc[t] = "woken" /\ pc' = [pc EXCEPT ![t] = "none"]
  BY DEF Inv, TypeOK, EndThread, Ends, Places
<1>2. rxThreadCounter > 1
  BY DEF Inv, SpareToEnd, EndThread, Ends
<1>3. Cardinality(Running') = Cardinality(Running) - 1
  BY <1>1, OneLess
<1>4. rxThreadCounter' > 0
  BY <1>2, <1>3, CounterType DEF rxThreadCounter, Running
<1>5. TypeOK'
  BY DEF Inv, TypeOK, EndThread, counters
<1>6. JobsAreHandled' /\ SpareToEnd'
  BY <1>1 DEF Inv, JobsAreHandled, SpareToEnd, EndThread
<1> QED
  BY <1>4, <1>5, <1>6 DEF Inv

LEMMA TakePacketStep ==
  ASSUME Inv, NEW t \in RxThread, TakePacket(t)
  PROVE  Inv' /\ rxThreadCounter' >= rxThreadCounter
<1>1. Head(receivedDataQ) \in Packet /\ Tail(receivedDataQ) \in Seq(Packet)
  BY HeadTailProperties DEF Inv, TypeOK, TakePacket
<1>2. TypeOK'
  BY <1>1 DEF Inv, TypeOK, TakePacket, counters
<1>3. JobsAreHandled'
  BY <1>1, AwaitsAssumption DEF Inv, TypeOK, JobsAreHandled, TakePacket
<1>4. rxThreadCounter' >= rxThreadCounter
  BY NotFewer DEF Inv, TypeOK, TakePacket, Places
<1>5. SpareToEnd'
  BY <1>4, CounterType DEF Inv, SpareToEnd, TakePacket
<1> QED
  BY <1>2, <1>3, <1>4, <1>5 DEF Inv

LEMMA CallerStep ==
  ASSUME Inv, NEW t \in RxThread, _safeCaller(t)
  PROVE  Inv' /\ rxThreadCounter' >= rxThreadCounter
<1>1. job[t] \in Packet
  BY DEF Inv, TypeOK, JobsAreHandled, _safeCaller
<1>2. TypeOK'
  BY <1>1 DEF Inv, TypeOK, _safeCaller
<1>3. JobsAreHandled'
  BY DEF Inv, TypeOK, JobsAreHandled, _safeCaller
<1>4. rxThreadCounter' >= rxThreadCounter
  BY NotFewer DEF Inv, TypeOK, _safeCaller, Places
<1>5. SpareToEnd'
  BY <1>4, CounterType DEF Inv, SpareToEnd, _safeCaller
<1> QED
  BY <1>2, <1>3, <1>4, <1>5 DEF Inv

\* The steps of a thread around its wait.
LEMMA WaitingStep ==
  ASSUME Inv, NEW t \in RxThread, FindNothing(t) \/ Wait(t) \/ ClearReceived(t)
  PROVE  Inv' /\ rxThreadCounter' >= rxThreadCounter
<1>1. PICK place \in {"stopping", "clearing", "waiting", "top"} : pc' = [pc EXCEPT ![t] = place]
  BY DEF FindNothing, Wait, ClearReceived
<1>2. TypeOK'
  BY DEF Inv, TypeOK, FindNothing, Wait, ClearReceived, counters
<1>3. rxThreadCounter' >= rxThreadCounter
  BY <1>1, NotFewer DEF Inv, TypeOK, Places
<1>4. pc[t] # "handling"
  BY DEF FindNothing, Tests, Wait, ClearReceived
<1>5. \A u \in RxThread : pc'[u] = "handling" <=> pc[u] = "handling"
  BY <1>1, <1>4 DEF Inv, TypeOK
<1>6. UNCHANGED <<job, reduceRXthread>>
  BY DEF FindNothing, Wait, ClearReceived
<1> QED
  BY <1>2, <1>3, <1>5, <1>6, KeepsPool, CounterType DEF Inv

LEMMA ManagerStep ==
  ASSUME Inv, rxThreadMgr
  PROVE  Inv' /\ rxThreadCounter' >= rxThreadCounter
<1>1. pc \in [RxThread -> Places]
  BY DEF Inv, TypeOK, Places
<1>2. CASE GrowPool
  <2>1. TypeOK'
    BY <1>1, <1>2, MakerKeeps DEF Inv, TypeOK, GrowPool, counters, Places
  <2> QED
    BY <1>1, <1>2, <2>1, MakerKeeps, KeepsPool, CounterType DEF Inv, GrowPool
<1>3. CASE ShrinkPool
  <2>1. CASE notify_one /\ reduceRXthread' = TRUE /\ rxThreadCounter > 1
    <3>1. TypeOK'
      BY <1>1, <1>3, <2>1, NotifyKeeps DEF Inv, TypeOK, ShrinkPool, counters, Places
    <3> QED
      BY <1>1, <1>3, <2>1, <3>1, NotifyKeeps, KeepsPool, CounterType DEF Inv, ShrinkPool
  <2>2. CASE UNCHANGED <<pc, reduceRXthread>>
    <3>1. TypeOK'
      BY <1>3, <2>2 DEF Inv, TypeOK, ShrinkPool, counters
    <3>2. rxThreadCounter' >= rxThreadCounter
      BY <2>2, AsMany, CounterType
    <3> QED
      BY <1>3, <2>2, <3>1, <3>2, KeepsPool, CounterType DEF Inv, ShrinkPool
  <2> QED
    BY <1>3, <2>1, <2>2 DEF ShrinkPool
<1>4. CASE RecordSize \/ ZeroCounters
  <2>1. Len(receivedDataQ) \in Nat
    BY LenProperties DEF Inv, TypeOK
  <2>2. TypeOK'
    BY <1>4, <2>1 DEF Inv, TypeOK, RecordSize, ZeroCounters
  <2>3. UNCHANGED <<pc, job, reduceRXthread>>
    BY <1>4 DEF RecordSize, ZeroCounters
  <2>4. rxThreadCounter' >= rxThreadCounter
    BY <2>3, AsMany, CounterType
  <2> QED
    BY <2>2, <2>3, <2>4, KeepsPool, CounterType DEF Inv
<1> QED
  BY <1>2, <1>3, <1>4 DEF rxThreadMgr

\* Of all steps only the end of a thread makes the pool smaller.
LEMMA NextStep ==
  ASSUME Inv, Next
  PROVE  Inv' /\ (rxThreadCounter > 0 => rxThreadCounter' > 0)
<1>1. ASSUME Inv' /\ rxThreadCounter' >= rxThreadCounter
      PROVE  Inv' /\ (rxThreadCounter > 0 => rxThreadCounter' > 0)
  BY <1>1, CounterType
<1>2. CASE (\E p \in Packet : _packetReceived(p)) \/ Announce
  BY <1>1, <1>2, EventLoopStep
<1>3. CASE \E t \in RxThread : rxThread(t)
  BY <1>1, <1>3, EndThreadStep, TakePacketStep, CallerStep, WaitingStep DEF rxThread
<1>4. CASE rxThreadMgr
  BY <1>1, <1>4, ManagerStep
<1> QED
  BY <1>2, <1>3, <1>4 DEF Next

LEMMA InductiveInv == Inv /\ [Next]_vars => Inv'
<1>1. Inv /\ UNCHANGED vars => Inv'
  <2> SUFFICES ASSUME Inv, UNCHANGED vars PROVE Inv'
    OBVIOUS
  <2>1. TypeOK' /\ JobsAreHandled'
    BY DEF Inv, TypeOK, JobsAreHandled, vars, counters
  <2>2. SpareToEnd'
    BY AsMany DEF Inv, SpareToEnd, vars
  <2> QED
    BY <2>1, <2>2 DEF Inv
<1> QED
  BY <1>1, NextStep

LEMMA SpecInv == Spec => []Inv
BY InitInv, InductiveInv, PTL DEF Spec

\* The variables keep to their types.
THEOREM TypeCorrect == Spec => []TypeOK
BY SpecInv, PTL DEF Inv

\* The pool of receive threads never loses its last thread.
THEOREM LastThreadStays == Spec => PoolStays
<1>1. Inv /\ [Next]_vars => [rxThreadCounter > 0 => rxThreadCounter' > 0]_vars
  BY NextStep
<1> QED
  BY <1>1, SpecInv, PTL DEF Spec, PoolStays

-----------------------------------------------------------------------------
(***************************************************************************)
(* Packets.                                                                *)
(***************************************************************************)
LEMMA Finite ==
  ASSUME ReadIsFinite
  PROVE  /\ IsFiniteSet(read) /\ Cardinality(read) \in Nat
         /\ IsFiniteSet(handled) /\ Cardinality(handled) \in Nat
         /\ IsFiniteSet(WithJob) /\ Cardinality(WithJob) \in Nat
<1>1. handled \in SUBSET read /\ IsFiniteSet(read)
  BY DEF ReadIsFinite
<1>2. IsFiniteSet(handled)
  BY <1>1, FS_Subset
<1>3. WithJob \in SUBSET RxThread
  BY DEF WithJob
<1>4. IsFiniteSet(WithJob)
  BY <1>3, RxThreadAssumption, FS_Subset
<1> QED
  BY <1>1, <1>2, <1>4, FS_CardinalityType

LEMMA PacketInit == Init => PacketInv
<1> SUFFICES ASSUME Init PROVE PacketInv
  OBVIOUS
<1>1. receivedDataQ = <<>> /\ read = {} /\ handled = {} /\ WithJob = {}
  BY DEF Init, WithJob
<1>2. DOMAIN receivedDataQ = {} /\ Len(receivedDataQ) = 0
  BY <1>1, EmptySeq
<1>3. InOnePlace /\ ReadIsFinite
  BY <1>1, <1>2, FS_EmptySet
  DEF InOnePlace, OneQueuedPlace, OneThread, QueuedOnly, InHandOnly, ReadIsFinite
<1>4. Queued = {} /\ InHand = {}
  BY <1>2 DEF Init, Queued, InHand
<1>5. HandledOnce
  BY <1>1, <1>2, <1>4, FS_EmptySet DEF HandledOnce, WithJob
<1> QED
  BY <1>3, <1>5 DEF PacketInv

\* The event loop puts a packet that is not anywhere yet at the end of the queue.
LEMMA PacketReceived ==
  ASSUME Inv, PacketInv, NEW p \in Packet, _packetReceived(p)
  PROVE  PacketInv'
<1>1. /\ receivedDataQ \in Seq(Packet) /\ p \notin read
      /\ receivedDataQ' = Append(receivedDataQ, p)
      /\ read' = read \cup {p}
      /\ UNCHANGED <<job, handled>>
  BY DEF Inv, TypeOK, _packetReceived
<1>2. /\ Len(receivedDataQ) \in Nat
      /\ DOMAIN receivedDataQ = 1..Len(receivedDataQ)
      /\ DOMAIN receivedDataQ' = 1..Len(receivedDataQ) + 1
      /\ Len(receivedDataQ') = Len(receivedDataQ) + 1
  BY <1>1, LenProperties, AppendProperties
<1>3. /\ \A i \in 1..Len(receivedDataQ) : receivedDataQ'[i] = receivedDataQ[i]
      /\ receivedDataQ'[Len(receivedDataQ) + 1] = p
  BY <1>1, AppendProperties
<1>4. \A i \in DOMAIN receivedDataQ' : i \in DOMAIN receivedDataQ \/ i = Len(receivedDataQ) + 1
  BY <1>2
<1>5. /\ \A i \in DOMAIN receivedDataQ : receivedDataQ[i] \in read \ handled
      /\ \A t \in WithJob : job[t] \in read \ handled
      /\ handled \subseteq read /\ IsFiniteSet(read)
  BY DEF PacketInv, InOnePlace, QueuedOnly, InHandOnly, ReadIsFinite
<1>6. OneQueuedPlace'
  BY <1>1, <1>2, <1>3, <1>4, <1>5 DEF PacketInv, InOnePlace, OneQueuedPlace
<1>7. WithJob' = WithJob
  BY <1>1 DEF WithJob
<1>8. OneThread' /\ InHandOnly'
  BY <1>1, <1>7 DEF PacketInv, InOnePlace, OneThread, InHandOnly
<1>9. QueuedOnly'
  <2>1. \A t \in RxThread : job[t] # p
    BY <1>1, <1>5, AwaitsAssumption DEF WithJob
  <2> QED
    BY <1>1, <1>2, <1>3, <1>4, <1>5, <2>1 DEF PacketInv, InOnePlace, QueuedOnly
<1>10. ReadIsFinite'
  BY <1>1, <1>5, FS_AddElement DEF ReadIsFinite
<1>11. Queued' = Queued \cup {p}
  BY <1>2, <1>3, <1>4 DEF Queued
<1>12. InHand' = InHand
  BY <1>1 DEF InHand
<1>13. Cardinality(read') = Cardinality(read) + 1
  BY <1>1, <1>5, FS_AddElement
<1>14. HandledOnce'
  <2>1. read' = Queued' \cup InHand' \cup handled'
    BY <1>1, <1>11, <1>12 DEF PacketInv, HandledOnce
  <2>2. Cardinality(read) = Len(receivedDataQ) + Cardinality(handled) + Cardinality(WithJob)
    BY DEF PacketInv, HandledOnce, WithJob
  <2>3. Cardinality(read') = Len(receivedDataQ') + Cardinality(handled') + Cardinality(WithJob')
    BY <1>1, <1>2, <1>7, <1>13, <2>2, Finite DEF PacketInv
  <2> QED
    BY <2>1, <2>3 DEF HandledOnce, WithJob
<1> QED
  BY <1>6, <1>8, <1>9, <1>10, <1>14 DEF PacketInv, InOnePlace

\* A thread takes the packet at the head from the queue into its hand.
LEMMA PacketTaken ==
  ASSUME Inv, PacketInv, NEW t \in RxThread, TakePacket(t)
  PROVE  PacketInv'
<1> DEFINE p == Head(receivedDataQ)
<1>1. /\ receivedDataQ \in Seq(Packet) /\ receivedDataQ # <<>>
      /\ receivedDataQ' = Tail(receivedDataQ)
      /\ job' = [job EXCEPT ![t] = p]
      /\ job \in [RxThread -> Packet \cup {None}]
      /\ job[t] = None
      /\ UNCHANGED <<read, handled>>
  BY DEF Inv, TypeOK, JobsAreHandled, TakePacket, Tests
<1>2. /\ Len(receivedDataQ) \in Nat \ {0}
      /\ DOMAIN receivedDataQ = 1..Len(receivedDataQ)
      /\ p = receivedDataQ[1]
  BY <1>1, LenProperties, EmptySeq
<1>3. /\ Tail(receivedDataQ) \in Seq(Packet)
      /\ Len(receivedDataQ') = Len(receivedDataQ) - 1
      /\ \A i \in 1..Len(receivedDataQ') : receivedDataQ'[i] = receivedDataQ[i + 1]
      /\ p \in Packet
  BY <1>1, HeadTailProperties
<1>4. DOMAIN receivedDataQ' = 1..Len(receivedDataQ) - 1
  BY <1>1, <1>3, LenProperties
<1>5. /\ 1 \in DOMAIN receivedDataQ
      /\ \A i \in DOMAIN receivedDataQ' : /\ i + 1 \in DOMAIN receivedDataQ
                                          /\ i + 1 # 1
                                          /\ receivedDataQ'[i] = receivedDataQ[i + 1]
  BY <1>2, <1>3, <1>4
<1>6. p # None /\ p \in read \ handled /\ \A u \in RxThread : job[u] # p
  BY <1>2, <1>3, <1>5, AwaitsAssumption DEF PacketInv, InOnePlace, QueuedOnly
<1>7. WithJob' = WithJob \cup {t} /\ t \notin WithJob
  BY <1>1, <1>6 DEF WithJob
<1>8. job'[t] = p /\ \A u \in RxThread \ {t} : job'[u] = job[u]
  BY <1>1
<1>9. OneQueuedPlace'
  <2> SUFFICES ASSUME NEW i \in DOMAIN receivedDataQ', NEW k \in DOMAIN receivedDataQ',
                      receivedDataQ'[i] = receivedDataQ'[k]
               PROVE  i = k
    BY DEF OneQueuedPlace
  <2>1. i + 1 = k + 1
    BY <1>5 DEF PacketInv, InOnePlace, OneQueuedPlace
  <2> QED
    BY <1>2, <1>4, <2>1
<1>10. OneThread'
  BY <1>6, <1>7, <1>8 DEF PacketInv, InOnePlace, OneThread, WithJob
<1>11. InHandOnly'
  BY <1>1, <1>6, <1>7, <1>8 DEF PacketInv, InOnePlace, InHandOnly, WithJob
<1>12. \A i \in DOMAIN receivedDataQ' : receivedDataQ'[i] # p
  BY <1>2, <1>5 DEF PacketInv, InOnePlace, OneQueuedPlace
<1>13. QueuedOnly'
  BY <1>1, <1>5, <1>8, <1>12 DEF PacketInv, InOnePlace, QueuedOnly
<1>14. ReadIsFinite'
  BY <1>1 DEF PacketInv, ReadIsFinite
<1>15. Queued' \cup {p} = Queued
  <2>1. Queued' \cup {p} \subseteq Queued
    BY <1>2, <1>5 DEF Queued
  <2>2. ASSUME NEW i \in DOMAIN receivedDataQ
        PROVE  receivedDataQ[i] \in Queued' \cup {p}
    <3>1. CASE i = 1
      BY <1>2, <3>1
    <3>2. CASE i # 1
      <4>1. i - 1 \in DOMAIN receivedDataQ' /\ (i - 1) + 1 = i
        BY <1>2, <1>4, <3>2
      <4>2. receivedDataQ'[i - 1] = receivedDataQ[i]
        BY <1>5, <4>1
      <4> QED
        BY <4>1, <4>2 DEF Queued
    <3> QED
      BY <3>1, <3>2
  <2> QED
    BY <2>1, <2>2 DEF Queued
<1>16. InHand' = InHand \cup {p}
  BY <1>1, <1>6, <1>8 DEF InHand
<1>17. Cardinality(WithJob') = Cardinality(WithJob) + 1
  BY <1>7, Finite, FS_AddElement DEF PacketInv
<1>18. HandledOnce'
  <2>1. read' = Queued' \cup InHand' \cup handled'
    BY <1>1, <1>15, <1>16 DEF PacketInv, HandledOnce
  <2>2. Cardinality(read) = Len(receivedDataQ) + Cardinality(handled) + Cardinality(WithJob)
    BY DEF PacketInv, HandledOnce, WithJob
  <2>3. Cardinality(read') = Len(receivedDataQ') + Cardinality(handled') + Cardinality(WithJob')
    BY <1>1, <1>2, <1>3, <1>17, <2>2, Finite DEF PacketInv
  <2> QED
    BY <2>1, <2>3 DEF HandledOnce, WithJob
<1> QED
  BY <1>9, <1>10, <1>11, <1>13, <1>14, <1>18 DEF PacketInv, InOnePlace

\* A handler that is done puts its packet with those that are handled.
LEMMA PacketHandled ==
  ASSUME Inv, PacketInv, NEW t \in RxThread, _safeCaller(t)
  PROVE  PacketInv'
<1> DEFINE p == job[t]
<1>1. /\ job' = [job EXCEPT ![t] = None]
      /\ job \in [RxThread -> Packet \cup {None}]
      /\ p # None
      /\ handled' = handled \cup {p}
      /\ UNCHANGED <<receivedDataQ, read>>
  BY DEF Inv, TypeOK, JobsAreHandled, _safeCaller
<1>2. WithJob' = WithJob \ {t} /\ t \in WithJob
  BY <1>1 DEF WithJob
<1>3. job'[t] = None /\ \A u \in RxThread \ {t} : job'[u] = job[u]
  BY <1>1
<1>4. p \in read \ handled
  BY <1>2 DEF PacketInv, InOnePlace, InHandOnly
<1>5. \A u \in WithJob' : job'[u] = job[u] /\ job[u] # p
  BY <1>2, <1>3 DEF PacketInv, InOnePlace, OneThread, WithJob
<1>6. OneQueuedPlace' /\ OneThread' /\ InHandOnly'
  BY <1>1, <1>2, <1>5 DEF PacketInv, InOnePlace, OneQueuedPlace, OneThread, InHandOnly
<1>7. QueuedOnly'
  <2>1. \A i \in DOMAIN receivedDataQ : receivedDataQ[i] # None
    BY AwaitsAssumption, ElementOfSeq, LenProperties DEF Inv, TypeOK
  <2> QED
    BY <1>1, <1>3, <2>1 DEF PacketInv, InOnePlace, QueuedOnly
<1>8. ReadIsFinite'
  BY <1>1, <1>4 DEF PacketInv, ReadIsFinite
<1>9. Queued' = Queued
  BY <1>1 DEF Queued
<1>10. InHand' \cup handled' = InHand \cup handled
  BY <1>1, <1>3 DEF InHand
<1>11. Cardinality(handled') = Cardinality(handled) + 1
  BY <1>1, <1>4, Finite, FS_AddElement DEF PacketInv
<1>12. Cardinality(WithJob') = Cardinality(WithJob) - 1
  BY <1>2, Finite, FS_RemoveElement DEF PacketInv
<1>13. HandledOnce'
  <2>1. read' = Queued' \cup InHand' \cup handled'
    BY <1>1, <1>9, <1>10 DEF PacketInv, HandledOnce
  <2>2. Cardinality(read) = Len(receivedDataQ) + Cardinality(handled) + Cardinality(WithJob)
    BY DEF PacketInv, HandledOnce, WithJob
  <2>3. Len(receivedDataQ) \in Nat
    BY LenProperties DEF Inv, TypeOK
  <2>4. Cardinality(read') = Len(receivedDataQ') + Cardinality(handled') + Cardinality(WithJob')
    BY <1>1, <1>11, <1>12, <2>2, <2>3, Finite DEF PacketInv
  <2> QED
    BY <2>1, <2>4 DEF HandledOnce, WithJob
<1> QED
  BY <1>6, <1>7, <1>8, <1>13 DEF PacketInv, InOnePlace

LEMMA PacketsStay ==
  ASSUME PacketInv, UNCHANGED <<job, receivedDataQ, read, handled>>
  PROVE  PacketInv'
BY DEF PacketInv, InOnePlace, OneQueuedPlace, OneThread, QueuedOnly, InHandOnly, ReadIsFinite,
       HandledOnce, Queued, InHand, WithJob

LEMMA PacketStep == Inv /\ PacketInv /\ [Next]_vars => PacketInv'
<1> SUFFICES ASSUME Inv, PacketInv, [Next]_vars PROVE PacketInv'
  OBVIOUS
<1>1. CASE UNCHANGED vars \/ Announce \/ rxThreadMgr
  BY <1>1, PacketsStay
  DEF vars, Announce, rxThreadMgr, GrowPool, ShrinkPool, RecordSize, ZeroCounters
<1>2. CASE \E p \in Packet : _packetReceived(p)
  BY <1>2, PacketReceived
<1>3. ASSUME NEW t \in RxThread, EndThread(t) \/ FindNothing(t) \/ Wait(t) \/ ClearReceived(t)
      PROVE  PacketInv'
  BY <1>3, PacketsStay DEF EndThread, FindNothing, Wait, ClearReceived
<1>4. CASE \E t \in RxThread : rxThread(t)
  BY <1>3, <1>4, PacketTaken, PacketHandled DEF rxThread
<1> QED
  BY <1>1, <1>2, <1>4 DEF Next

\* What has been read is in the queue, with one thread, or done with, and only once.
THEOREM PacketsHandledOnce == Spec => []HandledOnce
<1>1. PacketInv => HandledOnce
  BY DEF PacketInv
<1> QED
  BY <1>1, PacketInit, PacketStep, SpecInv, PTL DEF Spec
=============================================================================
