----------------------------- MODULE TcpReceive -----------------------------
(* The receiving half of TCPServer: the event loop pushes the packets it has *)
(* read to receivedDataQ, a pool of threads handles them, and a manager that *)
(* runs every 100 ms makes threads and has them end.  The queue is pushed to *)
(* under rxMtx and popped under ggg.  A handler may wait for what another    *)
(* packet brings, as Router's do for the answers to their own calls.         *)
EXTENDS Naturals, Sequences, FiniteSets

CONSTANTS Packet,
          Awaits,      \* [Packet -> SUBSET Packet], what the handler waits for
          RxThread,    \* slots for threads, a bound
          None

ASSUME AwaitsAssumption ==
    /\ Awaits \in [Packet -> SUBSET Packet]
    /\ None \notin Packet

ASSUME RxThreadAssumption == IsFiniteSet(RxThread)

VARIABLES
    pc, job,           \* the threads, and the packet each has taken
    receivedDataQ, received, reduceRXthread,
    rxDataQ_Pushes, rxDataQ_Pops, rxLastDataQSize,
    manager,           \* where the manager is
    signalling,        \* the packet the event loop has pushed but not announced
    read, handled,     \* history
    missed             \* 'received' was cleared with packets in the queue

counters == <<rxDataQ_Pushes, rxDataQ_Pops, rxLastDataQSize>>
vars == <<pc, job, receivedDataQ, received, reduceRXthread, counters, manager, signalling, read,
          handled, missed>>

TypeOK ==
    /\ pc \in [RxThread -> {"none", "top", "stopping", "waiting", "woken", "clearing", "handling"}]
    /\ job \in [RxThread -> Packet \cup {None}]
    /\ receivedDataQ \in Seq(Packet)
    /\ received \in BOOLEAN
    /\ reduceRXthread \in BOOLEAN
    /\ rxDataQ_Pushes \in Nat /\ rxDataQ_Pops \in Nat /\ rxLastDataQSize \in Nat
    /\ manager \in {"decide", "size", "zero"}
    /\ signalling \in Packet \cup {None}
    /\ read \in SUBSET Packet
    /\ handled \in SUBSET Packet
    /\ missed \in BOOLEAN

Init ==
    /\ pc = [t \in RxThread |-> "none"]
    /\ job = [t \in RxThread |-> None]
    /\ receivedDataQ = <<>>
    /\ received = FALSE
    /\ reduceRXthread = FALSE
    /\ rxDataQ_Pushes = 0 /\ rxDataQ_Pops = 0 /\ rxLastDataQSize = 0
    /\ manager = "decide"
    /\ signalling = None
    /\ read = {}
    /\ handled = {}
    /\ missed = FALSE
-----------------------------------------------------------------------------
At(places) == {t \in RxThread : pc[t] \in places}

(* A thread that is going to wait, or about to clear the flag, has ggg.      *)
gggFree == At({"stopping", "clearing"}) = {}

(* readNotification.notify_one()                                             *)
notify_one ==
    \/ \E t \in At({"waiting"}) : pc' = [pc EXCEPT ![t] = "woken"]
    \/ At({"waiting"}) = {} /\ UNCHANGED pc

(* The event loop has read a packet.  _packetReceived pushes and counts ...  *)
_packetReceived(p) ==
    /\ signalling = None
    /\ p \notin read
    /\ read' = read \cup {p}
    /\ receivedDataQ' = Append(receivedDataQ, p)
    /\ rxDataQ_Pushes' = rxDataQ_Pushes + 1
    /\ signalling' = p
    /\ UNCHANGED <<pc, job, received, reduceRXthread, rxDataQ_Pops, rxLastDataQSize, manager,
                   handled, missed>>

(* ... then sets and notifies, all without ggg.                              *)
Announce ==
    /\ signalling # None
    /\ received' = TRUE
    /\ notify_one
    /\ signalling' = None
    /\ missed' = FALSE
    /\ UNCHANGED <<job, receivedDataQ, reduceRXthread, counters, manager, read, handled>>
-----------------------------------------------------------------------------
(* rxThread().  A thread that is woken ends if one is to go, whatever it was *)
(* woken for; any other way out of the wait tests the flag again.            *)
Ends(t) == pc[t] = "woken" /\ reduceRXthread
Tests(t) == pc[t] = "top" \/ (pc[t] = "woken" /\ ~reduceRXthread)

EndThread(t) ==
    /\ gggFree
    /\ Ends(t)
    /\ pc' = [pc EXCEPT ![t] = "none"]
    /\ reduceRXthread' = FALSE
    /\ UNCHANGED <<job, receivedDataQ, received, counters, manager, signalling, read, handled,
                   missed>>

TakePacketAndLeaveIt(t) ==      \* mutant: the packet is copied and not popped
    /\ gggFree
    /\ Tests(t)
    /\ received
    /\ receivedDataQ # <<>>
    /\ job' = [job EXCEPT ![t] = Head(receivedDataQ)]
    /\ pc' = [pc EXCEPT ![t] = "handling"]
    /\ UNCHANGED <<receivedDataQ, received, reduceRXthread, counters, manager, signalling, read,
                   handled, missed>>

TakePacket(t) ==
    /\ gggFree
    /\ Tests(t)
    /\ received
    /\ receivedDataQ # <<>>
    /\ job' = [job EXCEPT ![t] = Head(receivedDataQ)]
    /\ receivedDataQ' = Tail(receivedDataQ)
    /\ pc' = [pc EXCEPT ![t] = "handling"]
    /\ UNCHANGED <<received, reduceRXthread, counters, manager, signalling, read, handled, missed>>

FindNothing(t) ==
    /\ gggFree
    /\ Tests(t)
    /\ \/ ~received /\ pc' = [pc EXCEPT ![t] = "stopping"]
       \/ received /\ receivedDataQ = <<>> /\ pc' = [pc EXCEPT ![t] = "clearing"]
    /\ UNCHANGED <<job, receivedDataQ, received, reduceRXthread, counters, manager, signalling,
                   read, handled, missed>>

(* The flag may be set and notified between its test and the wait, and       *)
(* between the test of the queue and the flag's end.                         *)
Wait(t) ==
    /\ pc[t] = "stopping"
    /\ pc' = [pc EXCEPT ![t] = "waiting"]
    /\ UNCHANGED <<job, receivedDataQ, received, reduceRXthread, counters, manager, signalling,
                   read, handled, missed>>

ClearReceived(t) ==
    /\ pc[t] = "clearing"
    /\ received' = FALSE
    /\ missed' = (receivedDataQ # <<>>)
    /\ pc' = [pc EXCEPT ![t] = "top"]
    /\ UNCHANGED <<job, receivedDataQ, reduceRXthread, counters, manager, signalling, read, handled>>

(* _safeCaller(): the handler returns or throws, when what it waits for has  *)
(* been handled; only then the pop is counted.                               *)
_safeCaller(t) ==
    /\ pc[t] = "handling"
    /\ Awaits[job[t]] \subseteq handled
    /\ handled' = handled \cup {job[t]}
    /\ pc' = [pc EXCEPT ![t] = "top"]
    /\ job' = [job EXCEPT ![t] = None]
    /\ rxDataQ_Pops' = rxDataQ_Pops + 1
    /\ UNCHANGED <<receivedDataQ, received, reduceRXthread, rxDataQ_Pushes, rxLastDataQSize,
                   manager, signalling, read, missed>>

rxThread(t) == EndThread(t) \/ TakePacket(t) \/ FindNothing(t) \/ Wait(t) \/ ClearReceived(t)
               \/ _safeCaller(t)
-----------------------------------------------------------------------------
rxThreadCounter == Cardinality(RxThread \ At({"none"}))

(* A new thread starts at the top.  When the slots are used up, one that     *)
(* waits runs in its place; there are more slots than packets, so one does.  *)
rxThreadMaker ==
    \/ \E t \in At({"none"}) : pc' = [pc EXCEPT ![t] = "top"]
    \/ /\ At({"none"}) = {}
       /\ \E t \in At({"waiting"}) : pc' = [pc EXCEPT ![t] = "top"]
    \/ At({"none", "waiting"}) = {} /\ UNCHANGED pc

(* rxThreadMgr() decides, then records the size, then zeroes its counters,   *)
(* plain integers that the others increment meanwhile.  The count of quiet   *)
(* rounds (30) is left out: any quiet round may be the last of them.         *)
BusyIfEmpty == rxThreadCounter < 1          \* mutant: a pool that has threads does not grow
Busy == \/ rxDataQ_Pops = 0 /\ rxLastDataQSize > 0
        \/ rxDataQ_Pushes > rxDataQ_Pops

GrowPool ==
    /\ manager = "decide"
    /\ Busy
    /\ rxThreadMaker
    /\ manager' = "size"
    /\ UNCHANGED <<job, receivedDataQ, received, reduceRXthread, counters, signalling, read,
                   handled, missed>>

ShrinkPoolToNothing ==          \* mutant: the last thread may go
    /\ manager = "decide"
    /\ ~Busy
    /\ manager' = "size"
    /\ \/ UNCHANGED <<pc, reduceRXthread>>
       \/ /\ ~reduceRXthread
          /\ reduceRXthread' = TRUE
          /\ notify_one
    /\ UNCHANGED <<job, receivedDataQ, received, counters, signalling, read, handled, missed>>

ShrinkPool ==
    /\ manager = "decide"
    /\ ~Busy
    /\ manager' = "size"
    /\ \/ UNCHANGED <<pc, reduceRXthread>>
       \/ /\ rxThreadCounter > 1
          /\ ~reduceRXthread
          /\ reduceRXthread' = TRUE
          /\ notify_one
    /\ UNCHANGED <<job, receivedDataQ, received, counters, signalling, read, handled, missed>>

RecordSizeWithoutOwn ==          \* mutant: off by one
    /\ manager = "size"
    /\ rxLastDataQSize' = Len(receivedDataQ) - 1
    /\ manager' = "zero"
    /\ UNCHANGED <<pc, job, receivedDataQ, received, reduceRXthread, rxDataQ_Pushes, rxDataQ_Pops,
                   signalling, read, handled, missed>>

RecordSize ==
    /\ manager = "size"
    /\ rxLastDataQSize' = Len(receivedDataQ)
    /\ manager' = "zero"
    /\ UNCHANGED <<pc, job, receivedDataQ, received, reduceRXthread, rxDataQ_Pushes, rxDataQ_Pops,
                   signalling, read, handled, missed>>

ZeroCounters ==
    /\ manager = "zero"
    /\ rxDataQ_Pushes' = 0
    /\ rxDataQ_Pops' = 0
    /\ manager' = "decide"
    /\ UNCHANGED <<pc, job, receivedDataQ, received, reduceRXthread, rxLastDataQSize, signalling,
                   read, handled, missed>>

rxThreadMgr == GrowPool \/ ShrinkPool \/ RecordSize \/ ZeroCounters

Next ==
    \/ \E p \in Packet : _packetReceived(p)
    \/ Announce
    \/ \E t \in RxThread : rxThread(t)
    \/ rxThreadMgr

(* The event loop goes on, the manager and every thread run; no packet has   *)
(* to come.                                                                  *)
Fairness ==
    /\ WF_vars(Announce)
    /\ WF_vars(rxThreadMgr)
    /\ \A t \in RxThread : WF_vars(rxThread(t))

Spec == Init /\ [][Next]_vars /\ Fairness
-----------------------------------------------------------------------------
(* No two threads handle the same packet, and none is lost or comes back:    *)
(* what has been read is in the queue, with one thread, or done with.        *)
Queued == {receivedDataQ[i] : i \in DOMAIN receivedDataQ}
InHand == {job[t] : t \in RxThread} \ {None}

HandledOnce ==
    /\ read = Queued \cup InHand \cup handled
    /\ Cardinality(read) = Len(receivedDataQ) + Cardinality(handled)
                           + Cardinality({t \in RxThread : job[t] # None})

(* A packet is handled although notifications get lost, threads are told to  *)
(* end, and handlers wait for packets behind theirs.  Only when 'received'   *)
(* is cleared over it does it stay, and only until the next packet comes.    *)
Served ==
    \A p \in Packet :
        (p \in read /\ Awaits[p] \subseteq read) ~> (p \in handled \/ missed)

(* The pool does not lose its last thread.                                   *)
PoolStays == [][rxThreadCounter > 0 => rxThreadCounter' > 0]_vars
=============================================================================
