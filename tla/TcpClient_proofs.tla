-------------------------- MODULE TcpClient_proofs --------------------------
(***************************************************************************)
(* Proofs about TcpClient, for any number of packets, threads, managers    *)
(* and connections, and any intervals.                                     *)
(*                                                                         *)
(* The order needs, as in TcpTransmit_proofs, that the thread that has a   *)
(* packet in hand is alone with txMtx, here also while it waits over the   *)
(* end of a connection.  That txThreadCounter is a natural number needs    *)
(* that it counts at least the threads there are: one that dies of an      *)
(* exception stays counted.                                                *)
(***************************************************************************)
EXTENDS TcpClient, FiniteSetTheorems, SequenceTheorems, WellFoundedInduction, TLAPS

Places == {"none", "top", "stopping", "waiting", "taken", "writing"}
HoldsTxMtx(t) == pc[t] \in {"stopping", "taken", "writing"}
HasPacket(t) == pc[t] \in {"taken", "writing"}
Running == TxThread \ At({"none"})

OneHolds == \A t, u \in TxThread : HoldsTxMtx(t) /\ HoldsTxMtx(u) => t = u
PacketsInHand == \A t \in TxThread : job[t] # None <=> HasPacket(t)
AllCounted == txThreadCounter >= Cardinality(Running)

Inv == TypeOK /\ OneHolds /\ PacketsInHand /\ AllCounted

-----------------------------------------------------------------------------
\* An element put in front of a queue, taken off again.
LEMMA TakenOff ==
  ASSUME NEW S, NEW p \in S, NEW s \in Seq(S)
  PROVE  <<p>> \o s # <<>> /\ Head(<<p>> \o s) = p /\ Tail(<<p>> \o s) = s
<1>1. Tail(<<p>> \o s) = s
  BY ConcatProperties, HeadTailProperties, LenProperties, SeqEqual
<1> QED
  BY <1>1, ConcatProperties

\* The head of a queue, put back in front of its tail.
LEMMA PutBack ==
  ASSUME NEW S, NEW s \in Seq(S), s # <<>>
  PROVE  <<Head(s)>> \o Tail(s) = s
BY ConcatProperties, HeadTailProperties, SeqEqual

\* What is appended to the second of two queues is appended to both together.
LEMMA AppendedBehind ==
  ASSUME NEW S, NEW r \in Seq(S), NEW s \in Seq(S), NEW p \in S
  PROVE  r \o Append(s, p) = Append(r \o s, p)
BY ConcatAssociative, AppendIsConcat, ConcatProperties

LEMMA RunningIsFinite == IsFiniteSet(Running) /\ Cardinality(Running) \in Nat
<1>1. Running \in SUBSET TxThread
  BY DEF Running
<1>2. IsFiniteSet(Running)
  BY <1>1, TxThreadAssumption, FS_Subset
<1> QED
  BY <1>2, FS_CardinalityType

\* A thread that is gone leaves one running thread fewer.
LEMMA OneLess ==
  ASSUME pc \in [TxThread -> Places], NEW t \in TxThread, pc[t] # "none",
         pc' = [pc EXCEPT ![t] = "none"]
  PROVE  Cardinality(Running') = Cardinality(Running) - 1
<1>1. Running' = Running \ {t}
  BY DEF Running, At, Places
<1>2. t \in Running
  BY DEF Running, At
<1> QED
  BY <1>1, <1>2, RunningIsFinite, FS_RemoveElement

\* A thread that is made is one more.
LEMMA OneMore ==
  ASSUME pc \in [TxThread -> Places], NEW t \in At({"none"}), pc' = [pc EXCEPT ![t] = "top"]
  PROVE  Cardinality(Running') = Cardinality(Running) + 1
<1>1. Running' = Running \cup {t}
  BY DEF Running, At, Places
<1>2. t \notin Running
  BY DEF Running, At
<1> QED
  BY <1>1, <1>2, RunningIsFinite, FS_AddElement

\* Any other step of a thread leaves the running threads what they are.
LEMMA AsMany ==
  ASSUME pc \in [TxThread -> Places], NEW t \in TxThread, pc[t] # "none",
         NEW place, place # "none", pc' = [pc EXCEPT ![t] = place]
  PROVE  Running' = Running
BY DEF Running, At, Places

LEMMA EvenPlaces == Even(0) /\ \A n \in Nat : Even(n) => Even(n + 2)
BY DEF Even

LEMMA FirstPlace == 0 \in {k \in 0..Len(Timing) - 1 : Even(k)}
BY TimingAssumption, EvenPlaces, EmptySeq

-----------------------------------------------------------------------------
\* A notification takes one thread from its wait, or none.
LEMMA NotifyKeeps ==
  ASSUME Inv, notify_one
  PROVE  /\ pc' \in [TxThread -> Places]
         /\ \A t \in TxThread : HoldsTxMtx(t)' <=> HoldsTxMtx(t)
         /\ \A t \in TxThread : HasPacket(t)' <=> HasPacket(t)
         /\ Running' = Running
<1>1. pc \in [TxThread -> Places]
  BY DEF Inv, TypeOK, Places
<1>2. ASSUME NEW t \in At({"waiting"}), pc' = [pc EXCEPT ![t] = "top"]
      PROVE  Running' = Running
  BY <1>1, <1>2, AsMany DEF At
<1>3. Running' = Running
  BY <1>2 DEF notify_one, Running, At
<1> QED
  BY <1>1, <1>3 DEF notify_one, At, HoldsTxMtx, HasPacket, Places

\* Where nobody comes to hold txMtx, takes a packet or drops one, and the count still covers
\* those that run, the parts of the invariant that are not about types are kept.
LEMMA NobodyTakes ==
  ASSUME Inv, UNCHANGED job,
         \A t \in TxThread : HoldsTxMtx(t)' => HoldsTxMtx(t),
         \A t \in TxThread : HasPacket(t)' <=> HasPacket(t)
  PROVE  OneHolds' /\ PacketsInHand'
BY DEF Inv, OneHolds, PacketsInHand

LEMMA SameThreads ==
  ASSUME Inv, UNCHANGED <<pc, job, txThreadCounter>>
  PROVE  OneHolds' /\ PacketsInHand' /\ AllCounted'
<1>1. Running' = Running
  BY DEF Running, At
<1>2. OneHolds' /\ PacketsInHand'
  BY NobodyTakes DEF HoldsTxMtx, HasPacket
<1> QED
  BY <1>1, <1>2 DEF Inv, AllCounted

-----------------------------------------------------------------------------
LEMMA InitInv == Init => Inv
<1> SUFFICES ASSUME Init PROVE Inv
  OBVIOUS
<1>2. TypeOK
  BY FirstPlace, EmptySeq, Zenon DEF Init, TypeOK
<1>3. OneHolds /\ PacketsInHand
  BY DEF Init, OneHolds, PacketsInHand, HoldsTxMtx, HasPacket
<1>4. Running = {}
  BY DEF Init, Running, At
<1>5. AllCounted
  BY <1>4, FS_EmptySet DEF Init, AllCounted
<1> QED
  BY <1>2, <1>3, <1>5 DEF Inv

\* The next interval is one of Timing.
LEMMA IntervalType ==
  ASSUME TypeOK, getNextInterval
  PROVE  /\ i' \in {k \in 0..Len(Timing) - 1 : Even(k)}
         /\ j' \in Nat
         /\ interval' \in Nat
<1>1. Len(Timing) \in Nat /\ Timing \in Seq(Nat)
  BY TimingAssumption, LenProperties
<1>2. i' \in {k \in 0..Len(Timing) - 1 : Even(k)}
  <2>1. CASE UsedUp /\ ~LastPair
    <3>1. i' = i + 2 /\ i + 2 < Len(Timing)
      BY <1>1, <2>1 DEF TypeOK, getNextInterval, LastPair
    <3> QED
      BY <1>1, <3>1, EvenPlaces DEF TypeOK
  <2>2. CASE ~(UsedUp /\ ~LastPair)
    BY <2>2 DEF TypeOK, getNextInterval
  <2> QED
    BY <2>1, <2>2
<1>3. j' \in Nat
  BY DEF TypeOK, getNextInterval
<1>4. i' + 1 \in 1..Len(Timing)
  <2>1. i' \in 0..Len(Timing) - 1
    BY <1>2
  <2>2. \A n \in Nat : \A k \in 0..n - 1 : k + 1 \in 1..n
    OBVIOUS
  <2>3. Len(Timing) \in Nat
    BY <1>1
  <2> QED
    BY <2>1, <2>2, <2>3
<1>5. interval' \in Nat
  BY <1>1, <1>4, ElementOfSeq DEF getNextInterval
<1> QED
  BY <1>2, <1>3, <1>5

LEMMA ReconnectType ==
  ASSUME TypeOK, reconnect
  PROVE  /\ connection' \in {"waiting", "connecting", "opening", "up", "dead"}
         /\ i' \in {k \in 0..Len(Timing) - 1 : Even(k)}
         /\ j' \in Nat /\ interval' \in Nat /\ tries' \in Nat
<1>1. CASE getNextInterval /\ tries' = tries + 1 /\ connection' = "waiting"
  BY <1>1, IntervalType DEF TypeOK
<1>2. CASE resetInterval /\ connection' = "dead" /\ UNCHANGED <<interval, tries>>
  BY <1>2, FirstPlace DEF TypeOK, resetInterval
<1> QED
  BY <1>1, <1>2 DEF reconnect

LEMMA EventLoopStep == ASSUME Inv, EventLoop PROVE Inv'
<1>1. CASE ConnectFails \/ EndOfFile
  <2>1. reconnect /\ UNCHANGED <<sender, txVars, counters, manager, written, lost, forgotten>>
    BY <1>1 DEF ConnectFails, EndOfFile
  <2>2. TypeOK'
    BY <2>1, ReconnectType DEF Inv, TypeOK, txVars, counters
  <2> QED
    BY <2>1, <2>2, SameThreads DEF Inv, txVars
<1>2. CASE reconnTimerCB \/ ReadError
  <2>1. TypeOK'
    <3>1. CASE reconnTimerCB
      BY <1>2, <3>1 DEF Inv, TypeOK, reconnTimerCB, txVars, counters
    <3>2. CASE ReadError
      BY <1>2, <3>2 DEF Inv, TypeOK, ReadError, txVars, counters
    <3> QED
      BY <1>2, <3>1, <3>2
  <2> QED
    BY <1>2, <2>1, SameThreads DEF Inv, reconnTimerCB, ReadError, txVars
<1>3. CASE on_connect
  <2>1. i' \in {k \in 0..Len(Timing) - 1 : Even(k)} /\ j' \in Nat /\ tries' \in Nat
    BY <1>3, FirstPlace DEF on_connect, resetInterval
  <2>2. TypeOK'
    BY <1>3, <2>1 DEF Inv, TypeOK, on_connect, txVars, counters
  <2> QED
    BY <1>3, <2>2, SameThreads DEF Inv, on_connect, txVars
<1>4. CASE StartThreads
  <2>1. TypeOK'
    BY <1>4 DEF Inv, TypeOK, StartThreads, counters
  <2> QED
    BY <1>4, <2>1, SameThreads DEF Inv, StartThreads
<1> QED
  BY <1>1, <1>2, <1>3, <1>4 DEF EventLoop

LEMMA SenderStep ==
  ASSUME Inv, NEW p \in Packet, send(p) \/ Push(p) \/ Arm(p)
  PROVE  Inv'
<1>1. CASE send(p)
  <2>1. TypeOK'
    BY <1>1 DEF Inv, TypeOK, send, connVars, txVars, counters
  <2> QED
    BY <1>1, <2>1, SameThreads DEF Inv, send, txVars
<1>2. CASE Push(p)
  <2>1. pendingBuffs' \in Seq(Packet)
    BY <1>2, AppendProperties DEF Inv, TypeOK, Push
  <2>2. TypeOK'
    BY <1>2, <2>1 DEF Inv, TypeOK, Push, connVars, counters
  <2> QED
    BY <1>2, <2>2, SameThreads DEF Inv, Push
<1>3. CASE Arm(p)
  <2>1. TypeOK'
    <3>1. pc' \in [TxThread -> Places]
      BY <1>3, NotifyKeeps DEF Arm
    <3>2. sender' \in [Packet -> {"new", "checked", "arming", "sent"}]
      BY <1>3 DEF Inv, TypeOK, Arm
    <3>3. txDataQ_Pushes' \in Nat
      BY <1>3 DEF Inv, TypeOK, Arm
    <3>4. UNCHANGED <<connVars, job, pendingBuffs, txRemoveThread, txThreadCounter, txDataQ_Pops,
                      txlastDataQSize, manager, written, lost>>
      BY <1>3 DEF Arm
    <3>5. txReady' \in BOOLEAN /\ forgotten' \in BOOLEAN
      BY <1>3 DEF Arm
    <3> QED
      BY <3>1, <3>2, <3>3, <3>4, <3>5 DEF Inv, TypeOK, connVars, Places
  <2>2. OneHolds' /\ PacketsInHand'
    BY <1>3, NotifyKeeps, NobodyTakes DEF Arm
  <2>3. AllCounted'
    BY <1>3, NotifyKeeps DEF Inv, AllCounted, Arm
  <2> QED
    BY <2>1, <2>2, <2>3 DEF Inv
<1> QED
  BY <1>1, <1>2, <1>3

-----------------------------------------------------------------------------
\* Who finds txMtx free and takes it is alone with it.
LEMMA AloneWithTxMtx ==
  ASSUME Inv, txMtxFree, NEW t \in TxThread, NEW place, pc' = [pc EXCEPT ![t] = place]
  PROVE  OneHolds'
BY DEF Inv, TypeOK, txMtxFree, At, OneHolds, HoldsTxMtx

\* What the other variables do while a thread runs.
Elsewhere == UNCHANGED <<connVars, sender, manager, forgotten>>

LEMMA EndThreadStep ==
  ASSUME Inv, NEW t \in TxThread, EndThread(t), Elsewhere
  PROVE  Inv'
<1>1. pc \in [TxThread -> Places] /\ pc' = [pc EXCEPT ![t] = "none"] /\ pc[t] = "top"
  BY DEF Inv, TypeOK, EndThread, Places
<1>2. Cardinality(Running') = Cardinality(Running) - 1
  BY <1>1, OneLess
<1>3. txThreadCounter' \in Nat /\ AllCounted'
  <2>1. t \in Running
    BY <1>1 DEF Running, At
  <2>2. Cardinality(Running) # 0
    BY <2>1, RunningIsFinite, FS_EmptySet
  <2> QED
    BY <1>2, <2>2, RunningIsFinite DEF Inv, TypeOK, AllCounted, EndThread
<1>4. TypeOK'
  BY <1>1, <1>3 DEF Inv, TypeOK, EndThread, Elsewhere, connVars, counters, Places
<1>5. OneHolds' /\ PacketsInHand'
  BY <1>1, NobodyTakes DEF EndThread, HoldsTxMtx, HasPacket
<1> QED
  BY <1>3, <1>4, <1>5 DEF Inv

LEMMA TakePacketStep ==
  ASSUME Inv, NEW t \in TxThread, TakePacket(t), Elsewhere
  PROVE  Inv'
<1>1. Head(pendingBuffs) \in Packet /\ Tail(pendingBuffs) \in Seq(Packet)
  BY HeadTailProperties DEF Inv, TypeOK, TakePacket
<1>2. TypeOK'
  BY <1>1 DEF Inv, TypeOK, TakePacket, Elsewhere, connVars
<1>3. OneHolds'
  BY AloneWithTxMtx DEF TakePacket
<1>4. PacketsInHand'
  BY <1>1, TimingAssumption DEF Inv, TypeOK, PacketsInHand, HasPacket, TakePacket
<1>5. Running' = Running
  BY AsMany DEF Inv, TypeOK, TakePacket, Places
<1> QED
  BY <1>2, <1>3, <1>4, <1>5 DEF Inv, AllCounted, TakePacket

LEMMA FindNothingStep ==
  ASSUME Inv, NEW t \in TxThread, FindNothing(t), Elsewhere
  PROVE  Inv'
<1>1. CASE UNCHANGED pc
  <2>1. TypeOK'
    BY <1>1 DEF Inv, TypeOK, FindNothing, Elsewhere, connVars, counters
  <2> QED
    BY <1>1, <2>1, SameThreads DEF Inv, FindNothing
<1>2. CASE pc' = [pc EXCEPT ![t] = "stopping"]
  <2>1. TypeOK'
    BY <1>2 DEF Inv, TypeOK, FindNothing, Elsewhere, connVars, counters
  <2>2. OneHolds'
    BY <1>2, AloneWithTxMtx DEF FindNothing
  <2>3. PacketsInHand'
    BY <1>2 DEF Inv, TypeOK, PacketsInHand, HasPacket, FindNothing
  <2>4. Running' = Running
    BY <1>2, AsMany DEF Inv, TypeOK, FindNothing, Places
  <2> QED
    BY <2>1, <2>2, <2>3, <2>4 DEF Inv, AllCounted, FindNothing
<1> QED
  BY <1>1, <1>2 DEF FindNothing

\* A thread that has txMtx goes on: it waits, or its socket is writable.
LEMMA GoOnStep ==
  ASSUME Inv, NEW t \in TxThread, Wait(t) \/ BecomesWritable(t), Elsewhere
  PROVE  Inv'
<1>1. TypeOK'
  BY DEF Inv, TypeOK, Wait, BecomesWritable, Elsewhere, connVars, counters
<1>2. \A u \in TxThread : HoldsTxMtx(u)' => HoldsTxMtx(u)
  BY DEF Inv, TypeOK, Wait, BecomesWritable, HoldsTxMtx
<1>3. \A u \in TxThread : HasPacket(u)' <=> HasPacket(u)
  BY DEF Inv, TypeOK, Wait, BecomesWritable, HasPacket
<1>4. Running' = Running
  BY AsMany DEF Inv, TypeOK, Wait, BecomesWritable, Places
<1>5. UNCHANGED <<job, txThreadCounter>>
  BY DEF Wait, BecomesWritable
<1>6. OneHolds' /\ PacketsInHand'
  BY <1>2, <1>3, <1>5, NobodyTakes
<1> QED
  BY <1>1, <1>4, <1>5, <1>6 DEF Inv, AllCounted

LEMMA WriteStep ==
  ASSUME Inv, NEW t \in TxThread, uv_write(t), Elsewhere
  PROVE  Inv'
<1>1. job[t] \in Packet
  BY DEF Inv, TypeOK, PacketsInHand, HasPacket, uv_write
<1>2. /\ \/ pc' = [pc EXCEPT ![t] = "top"]
         \/ pc' = [pc EXCEPT ![t] = "none"]
      /\ written' \in Seq(Packet)
      /\ lost' \in SUBSET Packet
  <2>1. Append(written, job[t]) \in Seq(Packet)
    BY <1>1, AppendProperties DEF Inv, TypeOK
  <2>2. /\ \/ pc' = [pc EXCEPT ![t] = "top"]
           \/ pc' = [pc EXCEPT ![t] = "none"]
        /\ written' \in {written, Append(written, job[t])}
        /\ lost' \in {lost, lost \cup {job[t]}}
    BY DEF uv_write
  <2> QED
    BY <1>1, <2>1, <2>2 DEF Inv, TypeOK
<1>3. TypeOK'
  BY <1>2 DEF Inv, TypeOK, uv_write, Elsewhere, connVars, counters
<1>4. OneHolds'
  BY <1>2 DEF Inv, TypeOK, OneHolds, HoldsTxMtx
<1>5. PacketsInHand'
  BY <1>2 DEF Inv, TypeOK, PacketsInHand, HasPacket, uv_write
<1>6. Cardinality(Running') \in {Cardinality(Running), Cardinality(Running) - 1}
  BY <1>2, AsMany, OneLess DEF Inv, TypeOK, uv_write, Places
<1>7. AllCounted'
  BY <1>6, RunningIsFinite DEF Inv, TypeOK, AllCounted, uv_write
<1> QED
  BY <1>3, <1>4, <1>5, <1>7 DEF Inv

LEMMA ProcessorStep == ASSUME Inv, NEW t \in TxThread, txProcessor(t) PROVE Inv'
BY EndThreadStep, TakePacketStep, FindNothingStep, GoOnStep, WriteStep DEF txProcessor, Elsewhere

-----------------------------------------------------------------------------
\* The manager makes a thread, has one end, or leaves the pool as it is.
LEMMA DecideKeeps ==
  ASSUME Inv, Decide
  PROVE  /\ pc' \in [TxThread -> Places]
         /\ txRemoveThread' \in BOOLEAN
         /\ txThreadCounter' \in Nat
         /\ \A t \in TxThread : HoldsTxMtx(t)' <=> HoldsTxMtx(t)
         /\ \A t \in TxThread : HasPacket(t)' <=> HasPacket(t)
         /\ AllCounted'
<1>1. CASE notify_one /\ UNCHANGED txThreadCounter /\ txRemoveThread' \in BOOLEAN
  BY <1>1, NotifyKeeps DEF Inv, TypeOK, AllCounted
<1>2. CASE UNCHANGED <<pc, txThreadCounter, txRemoveThread>>
  <2>1. Running' = Running
    BY <1>2 DEF Running, At
  <2> QED
    BY <1>2, <2>1 DEF Inv, TypeOK, AllCounted, HoldsTxMtx, HasPacket, Places
<1>3. ASSUME NEW t \in At({"none"}), pc' = [pc EXCEPT ![t] = "top"],
             txThreadCounter' = txThreadCounter + 1, UNCHANGED txRemoveThread
      PROVE  /\ pc' \in [TxThread -> Places]
             /\ txRemoveThread' \in BOOLEAN
             /\ txThreadCounter' \in Nat
             /\ \A u \in TxThread : HoldsTxMtx(u)' <=> HoldsTxMtx(u)
             /\ \A u \in TxThread : HasPacket(u)' <=> HasPacket(u)
             /\ AllCounted'
  <2>1. pc \in [TxThread -> Places]
    BY DEF Inv, TypeOK, Places
  <2>2. AllCounted'
    <3>1. Cardinality(Running') = Cardinality(Running) + 1
      BY <1>3, <2>1, OneMore
    <3>2. txThreadCounter \in Nat /\ txThreadCounter >= Cardinality(Running)
      BY DEF Inv, TypeOK, AllCounted
    <3> QED
      BY <1>3, <3>1, <3>2, RunningIsFinite DEF AllCounted
  <2> QED
    BY <1>3, <2>1, <2>2 DEF Inv, TypeOK, At, HoldsTxMtx, HasPacket, Places
<1>4. txRemoveThread \in BOOLEAN
  BY DEF Inv, TypeOK
<1> QED
  BY <1>1, <1>2, <1>3, <1>4 DEF Decide, txThreadMaker

LEMMA ManagerStep == ASSUME Inv, NEW m \in Manager, txThreadMgr(m) PROVE Inv'
<1>1. manager' \in [Manager -> {"none", "decide", "size", "zero"}]
  BY DEF Inv, TypeOK, txThreadMgr
<1>2. UNCHANGED <<connVars, sender, job, pendingBuffs, txReady, written, lost, forgotten>>
  BY DEF txThreadMgr
<1>3. CASE Decide
  <2>1. TypeOK'
    BY <1>1, <1>2, <1>3, DecideKeeps DEF Inv, TypeOK, Decide, connVars, counters, Places
  <2>2. OneHolds' /\ PacketsInHand'
    BY <1>2, <1>3, DecideKeeps, NobodyTakes
  <2> QED
    BY <1>3, <2>1, <2>2, DecideKeeps DEF Inv
<1>4. CASE RecordSize \/ ZeroCounters
  <2>1. Len(pendingBuffs) \in Nat
    BY LenProperties DEF Inv, TypeOK
  <2>2. TypeOK'
    BY <1>1, <1>2, <1>4, <2>1 DEF Inv, TypeOK, RecordSize, ZeroCounters, connVars
  <2> QED
    BY <1>2, <1>4, <2>2, SameThreads DEF Inv, RecordSize, ZeroCounters
<1> QED
  BY <1>3, <1>4 DEF txThreadMgr

LEMMA InductiveInv == Inv /\ [Next]_vars => Inv'
<1> SUFFICES ASSUME Inv, [Next]_vars PROVE Inv'
  OBVIOUS
<1>1. CASE UNCHANGED vars
  <2>1. TypeOK'
    BY <1>1 DEF Inv, TypeOK, vars, connVars, counters
  <2> QED
    BY <1>1, <2>1, SameThreads DEF Inv, vars
<1>2. CASE Next
  BY <1>2, EventLoopStep, SenderStep, ProcessorStep, ManagerStep DEF Next
<1> QED
  BY <1>1, <1>2

LEMMA SpecInv == Spec => []Inv
BY InitInv, InductiveInv, PTL DEF Spec

\* The variables keep to their types; txThreadCounter is never negative.
THEOREM TypeCorrect == Spec => []TypeOK
BY SpecInv, PTL DEF Inv

-----------------------------------------------------------------------------
(***************************************************************************)
(* The flag.  Steps that make it false either find no packets, or find it  *)
(* false already, or are those of a new connection, which 'forgotten' is   *)
(* about.                                                                  *)
(***************************************************************************)
LEMMA ArmedStep ==
  ASSUME TypeOK, TxArmed, [Next]_vars
  PROVE  TxArmed'
<1>1. CASE UNCHANGED <<sender, pendingBuffs, txReady, forgotten>>
  BY <1>1 DEF TxArmed
<1>2. CASE StartThreads
  BY <1>2 DEF TxArmed, StartThreads
<1>3. CASE EventLoop /\ ~StartThreads
  BY <1>1, <1>3 DEF EventLoop, reconnTimerCB, ConnectFails, on_connect, EndOfFile, ReadError, txVars
<1>4. ASSUME NEW p \in Packet, send(p) PROVE TxArmed'
  <2>1. \A q \in Packet : sender[q] = "arming" => sender'[q] = "arming"
    BY <1>4 DEF TypeOK, send
  <2> QED
    BY <1>4, <2>1 DEF TxArmed, send, txVars
<1>5. ASSUME NEW p \in Packet, Push(p) PROVE TxArmed'
  BY <1>5 DEF TypeOK, TxArmed, Push
<1>6. ASSUME NEW p \in Packet, Arm(p) PROVE TxArmed'
  BY <1>6 DEF TxArmed, Arm
<1>7. ASSUME NEW t \in TxThread, txProcessor(t) PROVE TxArmed'
  <2>1. UNCHANGED <<sender, forgotten>>
    BY <1>7 DEF txProcessor
  <2>2. CASE TakePacket(t)
    BY <2>1, <2>2 DEF TxArmed, TakePacket
  <2>3. CASE FindNothing(t)
    BY <2>1, <2>3 DEF TxArmed, FindNothing
  <2>4. CASE EndThread(t) \/ Wait(t) \/ BecomesWritable(t) \/ uv_write(t)
    BY <1>1, <2>1, <2>4 DEF EndThread, Wait, BecomesWritable, uv_write
  <2> QED
    BY <1>7, <2>2, <2>3, <2>4 DEF txProcessor
<1>8. ASSUME NEW m \in Manager, txThreadMgr(m) PROVE TxArmed'
  BY <1>1, <1>8 DEF txThreadMgr
<1> QED
  BY <1>1, <1>2, <1>3, <1>4, <1>5, <1>6, <1>7, <1>8 DEF Next, vars

\* With packets in the queue the flag that a thread has to see is set, or is about to be,
\* unless a new connection has reset it over them.
THEOREM FlagNotForgotten == Spec => []TxArmed
<1>1. Init => TxArmed
  BY DEF Init, TxArmed
<1> QED
  BY <1>1, ArmedStep, TypeCorrect, PTL DEF Spec

-----------------------------------------------------------------------------
(***************************************************************************)
(* The order.  The queue of Fifo is the packet that a thread has taken, if *)
(* one has, and what is in pendingBuffs behind it.                         *)
(***************************************************************************)
LEMMA NobodyWrites ==
  ASSUME Writers = {}, TypeOK
  PROVE  BeingWritten \o pendingBuffs = pendingBuffs
BY ConcatEmptySeq DEF BeingWritten, TypeOK

LEMMA OneWrites ==
  ASSUME NEW t, Writers = {t}
  PROVE  BeingWritten = <<job[t]>>
BY DEF BeingWritten

LEMMA BeingWrittenType == Inv => BeingWritten \in Seq(Packet)
<1> SUFFICES ASSUME Inv, Writers # {} PROVE BeingWritten \in Seq(Packet)
  BY EmptySeq DEF BeingWritten
<1> DEFINE t == CHOOSE u \in Writers : TRUE
<1>1. t \in Writers
  OBVIOUS
<1>2. job[t] \in Packet
  BY <1>1 DEF Writers, Inv, TypeOK
<1>3. BeingWritten = <<job[t]>>
  BY DEF BeingWritten
<1> QED
  BY <1>2, <1>3

\* send() puts its packet behind all others.
LEMMA PushPuts ==
  ASSUME Inv, NEW p \in Packet, Push(p)
  PROVE  Transmitter!Put(p)
<1>1. BeingWritten' = BeingWritten
  BY DEF Push, BeingWritten, Writers
<1>2. (BeingWritten \o pendingBuffs)' = Append(BeingWritten \o pendingBuffs, p)
  BY <1>1, BeingWrittenType, AppendedBehind DEF Inv, TypeOK, Push
<1> QED
  BY <1>2 DEF Transmitter!Put, Push

\* A thread that takes a packet keeps it in its place, in front of the queue.
LEMMA TakeStutters ==
  ASSUME Inv, NEW t \in TxThread, TakePacket(t)
  PROVE  UNCHANGED (Transmitter!vars)
<1>1. Writers = {}
  BY DEF Inv, PacketsInHand, HasPacket, Writers, TakePacket, txMtxFree, At
<1>2. Head(pendingBuffs) \in Packet
  BY HeadTailProperties DEF Inv, TypeOK, TakePacket
<1>3. Writers' = {t}
  BY <1>1, <1>2, TimingAssumption DEF Inv, TypeOK, Writers, TakePacket
<1>4. BeingWritten' = <<Head(pendingBuffs)>>
  <2>1. BeingWritten' = <<job'[t]>>
    BY <1>3 DEF BeingWritten
  <2> QED
    BY <2>1 DEF Inv, TypeOK, TakePacket
<1>5. (BeingWritten \o pendingBuffs)' = pendingBuffs
  BY <1>4, PutBack DEF Inv, TypeOK, TakePacket
<1>6. BeingWritten \o pendingBuffs = pendingBuffs
  BY <1>1, NobodyWrites DEF Inv
<1> QED
  BY <1>5, <1>6 DEF Transmitter!vars, TakePacket

\* The packet that a thread writes, or loses with the connection, is the one in front.
LEMMA WriteTakesHead ==
  ASSUME Inv, NEW t \in TxThread, uv_write(t)
  PROVE  Transmitter!Get \/ Transmitter!Drop
<1>1. job[t] \in Packet
  BY DEF Inv, TypeOK, PacketsInHand, HasPacket, uv_write
<1>2. Writers = {t}
  BY <1>1, TimingAssumption
  DEF Inv, OneHolds, HoldsTxMtx, PacketsInHand, HasPacket, Writers, uv_write
<1>3. BeingWritten = <<job[t]>>
  BY <1>2, OneWrites
<1>4. Writers' = {}
  BY <1>2 DEF Inv, TypeOK, Writers, uv_write
<1>5. BeingWritten' = <<>>
  BY <1>4 DEF BeingWritten
<1>6. (BeingWritten \o pendingBuffs)' = pendingBuffs
  BY <1>5, ConcatEmptySeq DEF Inv, TypeOK, uv_write
<1>7. /\ BeingWritten \o pendingBuffs # <<>>
      /\ Head(BeingWritten \o pendingBuffs) = job[t]
      /\ (BeingWritten \o pendingBuffs)' = Tail(BeingWritten \o pendingBuffs)
  BY <1>1, <1>3, <1>6, TakenOff DEF Inv, TypeOK
<1>8. written' = Append(written, job[t]) \/ UNCHANGED written
  BY DEF uv_write
<1> QED
  BY <1>7, <1>8 DEF Transmitter!Get, Transmitter!Drop

\* Every other step leaves queue, packets in hand and wire alone.
LEMMA OtherStutters ==
  ASSUME UNCHANGED <<job, pendingBuffs, written>>
  PROVE  UNCHANGED (Transmitter!vars)
BY DEF Transmitter!vars, BeingWritten, Writers

LEMMA StepSimulation == Inv /\ [Next]_vars => [Transmitter!Next]_(Transmitter!vars)
<1> SUFFICES ASSUME Inv, [Next]_vars PROVE [Transmitter!Next]_(Transmitter!vars)
  OBVIOUS
<1>1. CASE UNCHANGED vars
  BY <1>1, OtherStutters DEF vars
<1>2. CASE EventLoop
  <2>1. UNCHANGED <<job, pendingBuffs, written>>
    BY <1>2 DEF EventLoop, reconnTimerCB, ConnectFails, on_connect, StartThreads, EndOfFile,
                ReadError, txVars
  <2> QED
    BY <2>1, OtherStutters
<1>3. ASSUME NEW p \in Packet, send(p) \/ Arm(p) PROVE UNCHANGED <<job, pendingBuffs, written>>
  BY <1>3 DEF send, Arm, txVars
<1>4. CASE \E p \in Packet : send(p) \/ Push(p) \/ Arm(p)
  BY <1>3, <1>4, PushPuts, OtherStutters DEF Transmitter!Next
<1>5. ASSUME NEW t \in TxThread, EndThread(t) \/ FindNothing(t) \/ Wait(t) \/ BecomesWritable(t)
      PROVE  UNCHANGED <<job, pendingBuffs, written>>
  BY <1>5 DEF EndThread, FindNothing, Wait, BecomesWritable
<1>6. CASE \E t \in TxThread : txProcessor(t)
  BY <1>5, <1>6, TakeStutters, WriteTakesHead, OtherStutters DEF txProcessor, Transmitter!Next
<1>7. ASSUME NEW m \in Manager, txThreadMgr(m) PROVE UNCHANGED <<job, pendingBuffs, written>>
  BY <1>7 DEF txThreadMgr
<1> QED
  BY <1>1, <1>2, <1>4, <1>6, <1>7, OtherStutters DEF Next

\* Packets go out once and in the order in which they were queued, over any number of
\* connections: TcpClient implements Fifo.
THEOREM ClientIsFifo == Spec => SentInOrder
<1>1. Init => Transmitter!Init
  <2> SUFFICES ASSUME Init PROVE Transmitter!Init
    OBVIOUS
  <2>1. Writers = {} /\ TypeOK
    BY InitInv DEF Init, Writers, Inv
  <2> QED
    BY <2>1, NobodyWrites DEF Init, Transmitter!Init
<1> QED
  BY <1>1, SpecInv, StepSimulation, PTL DEF Spec, SentInOrder

-----------------------------------------------------------------------------
(***************************************************************************)
(* The intervals.  UsesUpTo is what its definition says: there is such a   *)
(* function up to every pair, or there would be a first one without.       *)
(***************************************************************************)
LEMMA TimingPairs ==
  /\ Pairs \in Nat \ {0}
  /\ Len(Timing) = 2 * Pairs
  /\ \A n \in 1..Pairs : Timing[2 * n - 1] \in Nat /\ Timing[2 * n] \in Nat
<1>1. Len(Timing) \in Nat \ {0} /\ Timing \in Seq(Nat) /\ Len(Timing) % 2 = 0
  BY TimingAssumption, LenProperties, EmptySeq DEF Even
<1>2. \A l \in Nat \ {0} : l % 2 = 0 => l \div 2 \in Nat \ {0} /\ l = 2 * (l \div 2)
  OBVIOUS
<1>3. Pairs \in Nat \ {0} /\ Len(Timing) = 2 * Pairs
  BY <1>1, <1>2 DEF Pairs
<1>4. ASSUME NEW n \in 1..Pairs
      PROVE  2 * n - 1 \in 1..Len(Timing) /\ 2 * n \in 1..Len(Timing)
  BY <1>3
<1> QED
  BY <1>1, <1>3, <1>4, ElementOfSeq

\* A nonempty set of natural numbers has a least element, from which an argument by induction
\* is made as one about the least counterexample.
LEMMA LeastNatural ==
  ASSUME NEW S \in SUBSET Nat, S # {}
  PROVE  \E m \in S : \A n \in S : m <= n
<1> DEFINE Less == {ss \in Nat \X Nat : ss[1] < ss[2]}
<1>1. IsWellFoundedOn(Less, Nat)
  BY NatLessThanWellFounded DEF OpToRel
<1>2. PICK m \in S : \A n \in S : ~(<<n, m>> \in Less)
  <2> HIDE DEF Less
  <2> QED
    BY <1>1, WFMin
<1>3. \A n \in S : ~(n < m)
  BY <1>2
<1>4. \A n \in S : m <= n
  BY <1>3
<1> QED
  BY <1>4

\* g says for the first n pairs how often they are used together.
Sums(g, n) ==
  /\ g \in [0..n -> Nat]
  /\ g[0] = 0
  /\ \A k \in 1..n : g[k] = g[k - 1] + Timing[2 * k]

LEMMA SumsExist == \A n \in 0..Pairs : \E g : Sums(g, n)
<1> DEFINE Missing == {n \in 0..Pairs : ~ \E g : Sums(g, n)}
<1>1. SUFFICES ASSUME Missing # {} PROVE FALSE
  OBVIOUS
<1>2. Missing \in SUBSET Nat
  BY TimingPairs
<1> HIDE DEF Missing
<1>3. PICK n \in Missing : \A m \in Missing : n <= m
  BY <1>1, <1>2, LeastNatural
<1> USE DEF Missing
<1>4. n # 0
  <2>1. Sums([k \in 0..0 |-> 0], 0)
    BY DEF Sums
  <2> QED
    BY <1>3, <2>1
<1>5. n \in 1..Pairs /\ n - 1 \in 0..Pairs /\ ~(n <= n - 1)
  BY <1>3, <1>4, TimingPairs
<1>6. PICK f : Sums(f, n - 1)
  BY <1>3, <1>5
<1> DEFINE g == [k \in 0..n |-> IF k = n THEN f[n - 1] + Timing[2 * n] ELSE f[k]]
<1>7. Sums(g, n)
  <2>1. n - 1 \in 0..n - 1 /\ \A k \in 0..n : k = n \/ k \in 0..n - 1
    BY <1>5, TimingPairs
  <2>2. g \in [0..n -> Nat]
    <3>1. f[n - 1] \in Nat /\ Timing[2 * n] \in Nat
      BY <1>5, <1>6, <2>1, TimingPairs DEF Sums
    <3>2. \A k \in 0..n - 1 : f[k] \in Nat
      BY <1>6 DEF Sums
    <3>3. f[n - 1] + Timing[2 * n] \in Nat
      BY <3>1
    <3> QED
      BY <2>1, <3>2, <3>3
  <2>3. g[0] = 0
    BY <1>5, <1>6, <2>1 DEF Sums
  <2>4. ASSUME NEW k \in 1..n PROVE g[k] = g[k - 1] + Timing[2 * k]
    <3>1. CASE k = n
      <4>1. n \in 0..n /\ n - 1 \in 0..n /\ n - 1 # n
        BY <1>5
      <4>2. g[n] = f[n - 1] + Timing[2 * n] /\ g[n - 1] = f[n - 1]
        BY <4>1
      <4> QED
        BY <3>1, <4>2
    <3>2. CASE k # n
      <4>1. /\ k \in 1..n - 1 /\ k \in 0..n /\ k - 1 \in 0..n
            /\ k # n /\ k - 1 # n
        BY <1>5, <3>2
      <4>2. g[k] = f[k] /\ g[k - 1] = f[k - 1]
        BY <4>1
      <4> QED
        BY <1>6, <4>1, <4>2 DEF Sums
    <3> QED
      BY <3>1, <3>2
  <2> QED
    BY <2>2, <2>3, <2>4 DEF Sums
<1> QED
  BY <1>3, <1>7

LEMMA UsesAddUp ==
  /\ \A n \in 0..Pairs : UsesUpTo[n] \in Nat
  /\ UsesUpTo[0] = 0
  /\ \A n \in 1..Pairs : UsesUpTo[n] = UsesUpTo[n - 1] + Timing[2 * n]
<1> DEFINE IsUses(f) == f = [n \in 0..Pairs |-> IF n = 0 THEN 0 ELSE f[n - 1] + Timing[Pair(n) + 1]]
<1>1. PICK g : Sums(g, Pairs)
  BY SumsExist, TimingPairs
<1>2. IsUses(g)
  <2>1. \A n \in 0..Pairs : g[n] = IF n = 0 THEN 0 ELSE g[n - 1] + Timing[Pair(n) + 1]
    <3>1. ASSUME NEW n \in 0..Pairs, n # 0 PROVE n \in 1..Pairs /\ Pair(n) + 1 = 2 * n
      BY <3>1, TimingPairs DEF Pair
    <3> QED
      BY <1>1, <3>1 DEF Sums
  <2>2. g = [n \in 0..Pairs |-> g[n]]
    BY <1>1 DEF Sums
  <2> QED
    BY <2>1, <2>2
<1>3. UsesUpTo = CHOOSE f : IsUses(f)
  BY DEF UsesUpTo
<1>4. IsUses(UsesUpTo)
  <2> HIDE DEF IsUses
  <2> QED
    BY <1>2, <1>3
<1>5. UsesUpTo[0] = 0 /\ \A n \in 1..Pairs : UsesUpTo[n] = UsesUpTo[n - 1] + Timing[2 * n]
  <2>1. 0 \in 0..Pairs
    BY TimingPairs
  <2>2. ASSUME NEW n \in 1..Pairs PROVE n \in 0..Pairs /\ n # 0 /\ Pair(n) + 1 = 2 * n
    BY TimingPairs DEF Pair
  <2>3. \A n \in 0..Pairs :
            UsesUpTo[n] = IF n = 0 THEN 0 ELSE UsesUpTo[n - 1] + Timing[Pair(n) + 1]
    BY <1>4
  <2> QED
    BY <2>1, <2>2, <2>3
<1>6. \A n \in 0..Pairs : UsesUpTo[n] \in Nat
  <2> DEFINE Bad == {n \in 0..Pairs : UsesUpTo[n] \notin Nat}
  <2>1. SUFFICES ASSUME Bad # {} PROVE FALSE
    OBVIOUS
  <2>2. Bad \in SUBSET Nat
    BY TimingPairs
  <2> HIDE DEF Bad
  <2>3. PICK n \in Bad : \A m \in Bad : n <= m
    BY <2>1, <2>2, LeastNatural
  <2> USE DEF Bad
  <2>4. n \in 1..Pairs
    BY <1>5, <2>3, TimingPairs
  <2>5. n - 1 \in 0..Pairs /\ ~(n <= n - 1)
    BY <2>4, TimingPairs
  <2>6. UsesUpTo[n - 1] \in Nat /\ Timing[2 * n] \in Nat
    BY <2>3, <2>4, <2>5, TimingPairs
  <2>7. UsesUpTo[n] = UsesUpTo[n - 1] + Timing[2 * n]
    BY <1>5, <2>4
  <2>8. UsesUpTo[n] \in Nat
    BY <2>6, <2>7
  <2> QED
    BY <2>3, <2>8
<1> QED
  BY <1>5, <1>6

LEMMA UsesGrow == \A n \in 0..Pairs : UsesUpTo[n] <= AllUses
<1> DEFINE Bad == {d \in 0..Pairs : UsesUpTo[Pairs - d] > AllUses}
<1>1. Bad = {}
  <2>1. SUFFICES ASSUME Bad # {} PROVE FALSE
    OBVIOUS
  <2>2. Bad \in SUBSET Nat
    BY TimingPairs
  <2> HIDE DEF Bad
  <2>3. PICK d \in Bad : \A m \in Bad : d <= m
    BY <2>1, <2>2, LeastNatural
  <2> USE DEF Bad
  <2>4. d # 0
    <3>1. Pairs - 0 = Pairs /\ Pairs \in 0..Pairs
      BY TimingPairs
    <3> QED
      BY <2>3, <3>1, UsesAddUp DEF AllUses
  <2>5. /\ d - 1 \in 0..Pairs /\ ~(d <= d - 1)
        /\ Pairs - (d - 1) \in 1..Pairs /\ Pairs - (d - 1) - 1 = Pairs - d
        /\ Pairs - d \in 0..Pairs /\ Pairs - (d - 1) \in 0..Pairs /\ Pairs \in 0..Pairs
    BY <2>3, <2>4, TimingPairs
  <2>6. UsesUpTo[Pairs - (d - 1)] = UsesUpTo[Pairs - d] + Timing[2 * (Pairs - (d - 1))]
    BY <2>5, UsesAddUp
  <2>7. /\ Timing[2 * (Pairs - (d - 1))] \in Nat /\ UsesUpTo[Pairs - d] \in Nat
        /\ UsesUpTo[Pairs - (d - 1)] \in Nat /\ AllUses \in Nat
    BY <2>5, TimingPairs, UsesAddUp DEF AllUses
  <2>8. UsesUpTo[Pairs - (d - 1)] <= AllUses
    BY <2>3, <2>5, <2>7
  <2> QED
    BY <2>3, <2>6, <2>7, <2>8
<1>2. ASSUME NEW n \in 0..Pairs PROVE Pairs - n \in 0..Pairs /\ Pairs - (Pairs - n) = n
  BY TimingPairs
<1>3. \A n \in 0..Pairs : UsesUpTo[n] \in Nat /\ AllUses \in Nat
  BY UsesAddUp, TimingPairs DEF AllUses
<1> QED
  BY <1>1, <1>2, <1>3

(***************************************************************************)
(* Where the client is in Timing, pair n, and how many timers it has       *)
(* started: those of the pairs before and j of this one.  The first pair   *)
(* may be passed over (0 uses), the last one may be endless; every other   *)
(* one has to be used, as the code uses it once also where Timing says 0.  *)
(***************************************************************************)
MiddlePairsUsed == \A n \in 2..Pairs - 1 : Timing[2 * n] > 0

InPair(n) ==
  /\ i = 2 * (n - 1)
  /\ n > 1 => j > 0
  /\ \/ tries = UsesUpTo[n - 1] + j /\ j <= Timing[2 * n]
     \/ n = Pairs /\ Endless /\ tries >= UsesUpTo[n - 1] + j
  /\ connection = "waiting" => tries > UsesUpTo[n - 1] /\ interval = Timing[2 * n - 1]

RetryInv ==
  /\ connection # "dead" => \E n \in 1..Pairs : InPair(n)
  /\ connection \in {"opening", "up"} => tries = 0
  /\ connection = "dead" => tries = 0 \/ (tries = AllUses /\ ~Endless)

LEMMA FromTheStart ==
  ASSUME i' = 0, j' = 0, tries' = 0, connection' # "waiting"
  PROVE  \E n \in 1..Pairs : InPair(n)'
<1>1. 1 \in 1..Pairs /\ Timing[2 * 1] \in Nat
  BY TimingPairs
<1>2. InPair(1)'
  BY <1>1, UsesAddUp DEF InPair
<1> QED
  BY <1>1, <1>2

LEMMA NextTry ==
  ASSUME MiddlePairsUsed, TypeOK, NEW n \in 1..Pairs, InPair(n),
         getNextInterval, tries' = tries + 1
  PROVE  \E m \in 1..Pairs : InPair(m)'
<1>1. /\ Pairs \in Nat /\ Len(Timing) = 2 * Pairs
      /\ i = 2 * (n - 1) /\ i + 2 = 2 * n /\ i + 1 = 2 * n - 1
      /\ n \in Nat /\ j \in Nat /\ tries \in Nat
      /\ Timing[2 * n] \in Nat /\ UsesUpTo[n - 1] \in Nat
  <2>1. n - 1 \in 0..Pairs
    BY TimingPairs
  <2> QED
    BY <2>1, TimingPairs, UsesAddUp DEF InPair, TypeOK
<1>2. CASE ~UsedUp
  <2>1. /\ i' = i /\ j' = j + 1 /\ interval' = Timing[2 * n - 1]
        /\ j + 1 <= Timing[2 * n]
    BY <1>1, <1>2 DEF UsedUp, getNextInterval
  <2>2. \/ tries' = UsesUpTo[n - 1] + j' /\ j' <= Timing[2 * n]
        \/ n = Pairs /\ Endless /\ tries' >= UsesUpTo[n - 1] + j'
    BY <1>1, <2>1 DEF InPair
  <2>3. j' > 0 /\ tries' > UsesUpTo[n - 1]
    BY <1>1, <2>1, <2>2
  <2>4. InPair(n)'
    BY <1>1, <2>1, <2>2, <2>3 DEF InPair
  <2> QED
    BY <2>4
<1>3. CASE UsedUp /\ ~LastPair
  <2>1. n + 1 \in 1..Pairs /\ n # Pairs
    BY <1>1, <1>3 DEF LastPair
  <2>2. /\ i' = 2 * (n + 1 - 1) /\ j' = 1
        /\ interval' = Timing[2 * (n + 1) - 1]
    <3>1. i' = i + 2 /\ j' = 1 /\ interval' = Timing[i' + 1]
      BY <1>3 DEF getNextInterval
    <3>2. i + 2 = 2 * (n + 1 - 1) /\ 2 * (n + 1 - 1) + 1 = 2 * (n + 1) - 1
      BY <1>1
    <3> QED
      BY <3>1, <3>2
  <2>3. tries = UsesUpTo[n + 1 - 1]
    <3>1. j = Timing[2 * n]
      BY <1>1, <1>3, <2>1 DEF UsedUp, InPair
    <3>2. tries = UsesUpTo[n - 1] + Timing[2 * n] /\ n + 1 - 1 = n
      BY <1>1, <2>1, <3>1 DEF InPair
    <3> QED
      BY <3>2, UsesAddUp
  <2>4. 1 <= Timing[2 * (n + 1)] \/ (n + 1 = Pairs /\ Endless)
    <3>1. Timing[2 * (n + 1)] \in Nat
      BY <2>1, TimingPairs
    <3>2. CASE n + 1 = Pairs
      <4>1. Timing[Len(Timing)] = Timing[2 * (n + 1)]
        BY <1>1, <3>2
      <4> QED
        BY <3>1, <3>2, <4>1 DEF Endless
    <3>3. CASE n + 1 # Pairs
      <4>1. n + 1 \in 2..Pairs - 1
        BY <1>1, <2>1, <3>3
      <4> QED
        BY <3>1, <4>1 DEF MiddlePairsUsed
    <3> QED
      BY <3>2, <3>3
  <2>5. InPair(n + 1)'
    BY <1>1, <2>2, <2>3, <2>4 DEF InPair
  <2> QED
    BY <2>1, <2>5
<1>4. CASE UsedUp /\ LastPair
  <2>1. n = Pairs /\ Endless
    BY <1>1, <1>4 DEF LastPair, getNextInterval, Exhausted, Endless
  <2>2. i' = i /\ j' = j /\ interval' = Timing[2 * n - 1]
    BY <1>1, <1>4 DEF getNextInterval
  <2>3. tries >= UsesUpTo[n - 1] + j
    BY <1>1 DEF InPair
  <2>4. InPair(n)'
    BY <1>1, <2>1, <2>2, <2>3 DEF InPair
  <2> QED
    BY <2>4
<1> QED
  BY <1>2, <1>3, <1>4

LEMMA AllTried ==
  ASSUME TypeOK, NEW n \in 1..Pairs, InPair(n), Exhausted
  PROVE  tries = AllUses /\ ~Endless
<1>1. ~Endless
  BY DEF Exhausted, Endless
<1>2. n = Pairs /\ i + 2 = 2 * n /\ Pairs \in Nat
  BY TimingPairs DEF Exhausted, LastPair, InPair
<1>3. j = Timing[2 * n]
  BY <1>1, <1>2, TimingPairs DEF TypeOK, Exhausted, UsedUp, InPair
<1>4. tries = UsesUpTo[n - 1] + Timing[2 * n]
  BY <1>1, <1>3 DEF InPair
<1> QED
  BY <1>1, <1>2, <1>4, UsesAddUp DEF AllUses

LEMMA ReconnectRetries ==
  ASSUME MiddlePairsUsed, TypeOK, RetryInv, connection # "dead", reconnect
  PROVE  RetryInv'
<1>1. PICK n \in 1..Pairs : InPair(n)
  BY DEF RetryInv
<1>2. CASE getNextInterval /\ tries' = tries + 1 /\ connection' = "waiting"
  <2>1. \E m \in 1..Pairs : InPair(m)'
    BY <1>1, <1>2, NextTry
  <2> QED
    BY <1>2, <2>1 DEF RetryInv
<1>3. CASE Exhausted /\ connection' = "dead" /\ UNCHANGED tries
  BY <1>1, <1>3, AllTried DEF RetryInv
<1> QED
  BY <1>2, <1>3 DEF reconnect

LEMMA RetryStep ==
  ASSUME MiddlePairsUsed, TypeOK, RetryInv, [Next]_vars
  PROVE  RetryInv'
<1>1. CASE UNCHANGED connVars
  BY <1>1 DEF RetryInv, InPair, connVars
<1>2. CASE ConnectFails \/ EndOfFile
  BY <1>2, ReconnectRetries DEF ConnectFails, EndOfFile
<1>3. CASE reconnTimerCB
  <2>1. ASSUME NEW n \in 1..Pairs, InPair(n) PROVE InPair(n)'
    BY <1>3, <2>1 DEF InPair, reconnTimerCB
  <2> QED
    BY <1>3, <2>1 DEF RetryInv, reconnTimerCB
<1>4. CASE on_connect
  <2>1. i' = 0 /\ j' = 0 /\ tries' = 0 /\ connection' = "opening"
    BY <1>4 DEF on_connect, resetInterval
  <2> QED
    BY <2>1, FromTheStart DEF RetryInv
<1>5. CASE StartThreads
  <2>1. ASSUME NEW n \in 1..Pairs, InPair(n) PROVE InPair(n)'
    BY <1>5, <2>1 DEF InPair, StartThreads
  <2> QED
    BY <1>5, <2>1 DEF RetryInv, StartThreads
<1>6. CASE ReadError
  BY <1>6 DEF RetryInv, ReadError
<1>7. CASE Next /\ ~EventLoop
  <2>1. \A p \in Packet : send(p) \/ Push(p) \/ Arm(p) => UNCHANGED connVars
    BY DEF send, Push, Arm
  <2>2. \A t \in TxThread : txProcessor(t) => UNCHANGED connVars
    BY DEF txProcessor
  <2>3. \A m \in Manager : txThreadMgr(m) => UNCHANGED connVars
    BY DEF txThreadMgr
  <2> QED
    BY <1>1, <1>7, <2>1, <2>2, <2>3 DEF Next
<1> QED
  BY <1>1, <1>2, <1>3, <1>4, <1>5, <1>6, <1>7 DEF EventLoop, vars

LEMMA InTurn ==
  ASSUME TypeOK, RetryInv
  PROVE  RetriesInTurn
<1>1. AllUses \in Nat /\ Pairs \in Nat
  BY UsesAddUp, TimingPairs DEF AllUses
<1>2. ASSUME NEW n \in 1..Pairs, InPair(n)
      PROVE  /\ Endless \/ tries <= AllUses
             /\ tries <= UsesUpTo[n] \/ (n = Pairs /\ Endless)
  <2>1. n \in 0..Pairs /\ n - 1 \in 0..Pairs
    BY <1>1
  <2>2. /\ UsesUpTo[n] = UsesUpTo[n - 1] + Timing[2 * n] /\ UsesUpTo[n] <= AllUses
        /\ UsesUpTo[n] \in Nat /\ UsesUpTo[n - 1] \in Nat /\ Timing[2 * n] \in Nat
    BY <2>1, UsesAddUp, UsesGrow, TimingPairs
  <2>3. tries \in Nat /\ j \in Nat
    BY DEF TypeOK
  <2>4. CASE tries = UsesUpTo[n - 1] + j /\ j <= Timing[2 * n]
    BY <1>1, <2>2, <2>3, <2>4
  <2>5. CASE n = Pairs /\ Endless
    BY <2>5
  <2> QED
    BY <1>2, <2>4, <2>5 DEF InPair
<1>3. Endless \/ tries <= AllUses
  BY <1>1, <1>2 DEF RetryInv, TypeOK
<1>4. ASSUME connection = "waiting"
      PROVE  \E n \in 1..Pairs : /\ UsesUpTo[n - 1] < tries
                                 /\ tries <= UsesUpTo[n] \/ (n = Pairs /\ Endless)
                                 /\ interval = Timing[Pair(n)]
  <2>1. PICK n \in 1..Pairs : InPair(n)
    BY <1>4 DEF RetryInv
  <2>2. UsesUpTo[n - 1] \in Nat
    <3>1. n - 1 \in 0..Pairs
      BY <1>1
    <3> QED
      BY <3>1, UsesAddUp
  <2>3. UsesUpTo[n - 1] < tries /\ interval = Timing[Pair(n)]
    BY <1>4, <2>1, <2>2 DEF InPair, Pair, TypeOK
  <2> QED
    BY <1>2, <2>1, <2>3
<1> QED
  BY <1>3, <1>4 DEF RetriesInTurn, RetryInv

\* While it has no connection the client waits through the intervals of Timing, each as often as
\* it says and in their order, and gives up after the last use of the last one, never when that
\* one is endless.
THEOREM IntervalsInTurn ==
  ASSUME MiddlePairsUsed
  PROVE  Spec => []RetriesInTurn
<1>1. Init => RetryInv
  <2> SUFFICES ASSUME Init PROVE RetryInv
    OBVIOUS
  <2>1. 1 \in 1..Pairs /\ Timing[2 * 1] \in Nat
    BY TimingPairs
  <2>2. InPair(1)
    BY <2>1, UsesAddUp DEF Init, InPair
  <2> QED
    BY <2>1, <2>2 DEF Init, RetryInv
<1>2. TypeOK /\ RetryInv /\ [Next]_vars => RetryInv'
  BY RetryStep
<1>3. TypeOK /\ RetryInv => RetriesInTurn
  BY InTurn
<1> QED
  BY <1>1, <1>2, <1>3, TypeCorrect, PTL DEF Spec
=============================================================================
