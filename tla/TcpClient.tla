------------------------------ MODULE TcpClient ------------------------------
(* TCPClient, the connection of a service to the core: send() with its pool  *)
(* of transmit threads, and the event loop that connects, meets the end of   *)
(* the connection and tries again after the intervals of ReconnectConfig.    *)
(* The queue outlives the connection.  Every connection starts a manager     *)
(* thread, none of them ever ends.                                           *)
EXTENDS Naturals, Sequences, FiniteSets

CONSTANTS Packet,
          Timing,      \* intervals and how often each is used, alternating
          TxThread,    \* slots for threads, a bound
          Manager,     \* slots for managers, which bounds the connections
          None

Even(n) == n % 2 = 0

ASSUME TimingAssumption ==
    /\ Timing \in Seq(Nat) \ {<<>>}
    /\ Even(Len(Timing))
    /\ None \notin Packet

ASSUME TxThreadAssumption == IsFiniteSet(TxThread)

VARIABLES
    connection,        \* waiting, connecting, opening (see on_connect), up, dead
    i, j,              \* ReconnectConfig: place in Timing, uses of it
    interval,          \* what the timer was started with, 0 when it has fired
    tries,             \* history: timers started since the last connection
    sender,            \* where the send() of each packet is
    pc, job,           \* the transmit threads, and the packet each has taken
    pendingBuffs, txReady, txRemoveThread, txThreadCounter,
    txDataQ_Pushes, txDataQ_Pops, txlastDataQSize,
    manager,           \* where each manager is
    written, lost,     \* history: what was written, in order, and what was not
    forgotten          \* a new connection has reset txReady over packets

counters == <<txDataQ_Pushes, txDataQ_Pops, txlastDataQSize>>
connVars == <<connection, i, j, interval, tries>>
vars == <<connVars, sender, pc, job, pendingBuffs, txReady, txRemoveThread, txThreadCounter,
          counters, manager, written, lost, forgotten>>

TypeOK ==
    /\ connection \in {"waiting", "connecting", "opening", "up", "dead"}
    /\ i \in {k \in 0..Len(Timing) - 1 : Even(k)}
    /\ j \in Nat
    /\ interval \in Nat
    /\ tries \in Nat
    /\ sender \in [Packet -> {"new", "checked", "arming", "sent"}]
    /\ pc \in [TxThread -> {"none", "top", "stopping", "waiting", "taken", "writing"}]
    /\ job \in [TxThread -> Packet \cup {None}]
    /\ pendingBuffs \in Seq(Packet)
    /\ txReady \in BOOLEAN
    /\ txRemoveThread \in BOOLEAN
    /\ txThreadCounter \in Nat
    /\ txDataQ_Pushes \in Nat /\ txDataQ_Pops \in Nat /\ txlastDataQSize \in Nat
    /\ manager \in [Manager -> {"none", "decide", "size", "zero"}]
    /\ written \in Seq(Packet)
    /\ lost \in SUBSET Packet
    /\ forgotten \in BOOLEAN

Init ==
    /\ connection = "connecting"
    /\ i = 0 /\ j = 0 /\ interval = 0 /\ tries = 0
    /\ sender = [p \in Packet |-> "new"]
    /\ pc = [t \in TxThread |-> "none"]
    /\ job = [t \in TxThread |-> None]
    /\ pendingBuffs = <<>>
    /\ txReady = FALSE
    /\ txRemoveThread = FALSE
    /\ txThreadCounter = 0
    /\ txDataQ_Pushes = 0 /\ txDataQ_Pops = 0 /\ txlastDataQSize = 0
    /\ manager = [m \in Manager |-> "none"]
    /\ written = <<>>
    /\ lost = {}
    /\ forgotten = FALSE

_connected == connection \in {"opening", "up"}
-----------------------------------------------------------------------------
At(places) == {t \in TxThread : pc[t] \in places}
\* mutant: the mutex is given back before the socket is writable
txMtxFreeWhileWriting == At({"stopping", "taken"}) = {}

txMtxFree == At({"stopping", "taken", "writing"}) = {}

(* txNotification.notify_one()                                               *)
notify_one ==
    \/ \E t \in At({"waiting"}) : pc' = [pc EXCEPT ![t] = "top"]
    \/ At({"waiting"}) = {} /\ UNCHANGED pc

txVars == <<pc, job, pendingBuffs, txReady, txRemoveThread, txThreadCounter>>
-----------------------------------------------------------------------------
(* getNextInterval(): a last pair with 0 uses is used for ever.              *)
UsedUp == j >= Timing[i + 2]
LastPair == i + 2 >= Len(Timing)
Exhausted == UsedUp /\ LastPair /\ Timing[Len(Timing)] # 0

\* mutant: the first use of the next interval is not counted
getNextIntervalUncounted ==
    /\ ~Exhausted
    /\ i' = IF UsedUp /\ ~LastPair THEN i + 2 ELSE i
    /\ j' = IF ~UsedUp THEN j + 1 ELSE IF LastPair THEN j ELSE 0
    /\ interval' = Timing[i' + 1]

getNextInterval ==
    /\ ~Exhausted
    /\ i' = IF UsedUp /\ ~LastPair THEN i + 2 ELSE i
    /\ j' = IF ~UsedUp THEN j + 1 ELSE IF LastPair THEN j ELSE 1
    /\ interval' = Timing[i' + 1]

resetInterval == i' = 0 /\ j' = 0

(* reconnect().  No interval left is an exception that nobody catches.       *)
reconnect ==
    \/ /\ getNextInterval
       /\ tries' = tries + 1
       /\ connection' = "waiting"
    \/ /\ Exhausted
       /\ resetInterval
       /\ connection' = "dead"
       /\ UNCHANGED <<interval, tries>>

reconnTimerCB ==
    /\ connection = "waiting"
    /\ connection' = "connecting"
    /\ interval' = 0
    /\ UNCHANGED <<i, j, tries, sender, txVars, counters, manager, written, lost,
                   forgotten>>

ConnectFails ==
    /\ connection = "connecting"
    /\ reconnect
    /\ UNCHANGED <<sender, txVars, counters, manager, written, lost, forgotten>>

(* on_connect: sends are accepted from here ...                              *)
on_connect ==
    /\ connection = "connecting"
    /\ \E m \in Manager : manager[m] = "none"
    /\ connection' = "opening"
    /\ resetInterval
    /\ tries' = 0
    /\ UNCHANGED <<interval, sender, txVars, counters, manager, written, lost, forgotten>>

(* ... the flags reset, and a manager started, here.                         *)
StartThreads ==
    /\ connection = "opening"
    /\ connection' = "up"
    /\ txReady' = FALSE
    /\ txRemoveThread' = FALSE
    /\ forgotten' = (pendingBuffs # <<>>)
    /\ \E m \in Manager : manager[m] = "none" /\ manager' = [manager EXCEPT ![m] = "decide"]
    /\ UNCHANGED <<i, j, interval, tries, sender, pc, job, pendingBuffs, txThreadCounter, counters,
                   written, lost>>

(* on_client_read: the end of the connection is followed by a retry, any     *)
(* other error by an exception that nobody catches.                          *)
EndOfFile ==
    /\ connection = "up"
    /\ reconnect
    /\ UNCHANGED <<sender, txVars, counters, manager, written, lost, forgotten>>

ReadError ==
    /\ connection = "up"
    /\ connection' = "dead"
    /\ UNCHANGED <<i, j, interval, tries, sender, txVars, counters, manager, written, lost,
                   forgotten>>
-----------------------------------------------------------------------------
(* send(): looks whether there is a connection (without one it throws, and   *)
(* nothing has changed), pushes, then sets and notifies.                     *)
send(p) ==
    /\ sender[p] = "new"
    /\ _connected
    /\ sender' = [sender EXCEPT ![p] = "checked"]
    /\ UNCHANGED <<connVars, txVars, counters, manager, written, lost, forgotten>>

Push(p) ==
    /\ sender[p] = "checked"
    /\ txMtxFree
    /\ pendingBuffs' = Append(pendingBuffs, p)
    /\ sender' = [sender EXCEPT ![p] = "arming"]
    /\ UNCHANGED <<connVars, pc, job, txReady, txRemoveThread, txThreadCounter, counters, manager,
                   written, lost, forgotten>>

Arm(p) ==
    /\ sender[p] = "arming"
    /\ sender' = [sender EXCEPT ![p] = "sent"]
    /\ txDataQ_Pushes' = txDataQ_Pushes + 1
    /\ txReady' = TRUE
    /\ forgotten' = FALSE
    /\ notify_one
    /\ UNCHANGED <<connVars, job, pendingBuffs, txRemoveThread, txThreadCounter, txDataQ_Pops,
                   txlastDataQSize, manager, written, lost>>
-----------------------------------------------------------------------------
(* txProcessor()                                                             *)
EndThread(t) ==
    /\ pc[t] = "top" /\ txMtxFree
    /\ txRemoveThread
    /\ txRemoveThread' = FALSE
    /\ txThreadCounter' = txThreadCounter - 1
    /\ pc' = [pc EXCEPT ![t] = "none"]
    /\ UNCHANGED <<job, pendingBuffs, txReady, counters, written, lost>>

\* mutant: every packet has its own notification
TakePacketAndDisarm(t) ==
    /\ pc[t] = "top" /\ txMtxFree
    /\ txReady /\ ~txRemoveThread
    /\ pendingBuffs # <<>>
    /\ job' = [job EXCEPT ![t] = Head(pendingBuffs)]
    /\ pendingBuffs' = Tail(pendingBuffs)
    /\ txDataQ_Pops' = txDataQ_Pops + 1
    /\ txReady' = FALSE
    /\ pc' = [pc EXCEPT ![t] = "taken"]
    /\ UNCHANGED <<txRemoveThread, txThreadCounter, txDataQ_Pushes, txlastDataQSize, written,
                   lost>>

TakePacket(t) ==
    /\ pc[t] = "top" /\ txMtxFree
    /\ txReady /\ ~txRemoveThread
    /\ pendingBuffs # <<>>
    /\ job' = [job EXCEPT ![t] = Head(pendingBuffs)]
    /\ pendingBuffs' = Tail(pendingBuffs)
    /\ txDataQ_Pops' = txDataQ_Pops + 1
    /\ pc' = [pc EXCEPT ![t] = "taken"]
    /\ UNCHANGED <<txReady, txRemoveThread, txThreadCounter, txDataQ_Pushes, txlastDataQSize,
                   written, lost>>

FindNothing(t) ==
    /\ pc[t] = "top" /\ txMtxFree
    /\ ~txRemoveThread
    /\ \/ ~txReady /\ pc' = [pc EXCEPT ![t] = "stopping"]
       \/ txReady /\ pendingBuffs = <<>> /\ UNCHANGED pc
    /\ txReady' = FALSE
    /\ UNCHANGED <<job, pendingBuffs, txRemoveThread, txThreadCounter, counters, written, lost>>

Wait(t) ==
    /\ pc[t] = "stopping"
    /\ pc' = [pc EXCEPT ![t] = "waiting"]
    /\ UNCHANGED <<job, pendingBuffs, txReady, txRemoveThread, txThreadCounter, counters, written,
                   lost>>

(* The thread waits for a writable socket with txMtx, over the end of a      *)
(* connection and into the next one.                                         *)
BecomesWritable(t) ==
    /\ pc[t] = "taken"
    /\ _connected
    /\ pc' = [pc EXCEPT ![t] = "writing"]
    /\ UNCHANGED <<job, pendingBuffs, txReady, txRemoveThread, txThreadCounter, counters, written,
                   lost>>

(* uv_write.  If the connection has ended just now it fails: the packet is   *)
(* lost and the exception ends the thread, which stays counted.              *)
uv_write(t) ==
    /\ pc[t] = "writing"
    /\ job' = [job EXCEPT ![t] = None]
    /\ \/ /\ _connected
          /\ written' = Append(written, job[t])
          /\ pc' = [pc EXCEPT ![t] = "top"]
          /\ UNCHANGED lost
       \/ /\ ~_connected
          /\ lost' = lost \cup {job[t]}
          /\ pc' = [pc EXCEPT ![t] = "none"]
          /\ UNCHANGED written
    /\ UNCHANGED <<pendingBuffs, txReady, txRemoveThread, txThreadCounter, counters>>

txProcessor(t) ==
    /\ \/ EndThread(t) \/ TakePacket(t) \/ FindNothing(t) \/ Wait(t)
       \/ BecomesWritable(t) \/ uv_write(t)
    /\ UNCHANGED <<connVars, sender, manager, forgotten>>
-----------------------------------------------------------------------------
(* A new thread starts at the top.  When the slots are used up, one that     *)
(* waits runs in its place, if one does.                                     *)
txThreadMaker ==
    \/ /\ \E t \in At({"none"}) : pc' = [pc EXCEPT ![t] = "top"]
       /\ txThreadCounter' = txThreadCounter + 1
    \/ /\ At({"none"}) = {}
       /\ notify_one
       /\ UNCHANGED txThreadCounter

(* txThreadMgr(), one step after the other.  The count of quiet rounds (3)   *)
(* is left out: any of them may be the last.                                 *)
\* mutant: one thread is thought to be enough
BusyWithoutThreads == txThreadCounter = 0 /\ txDataQ_Pushes > txDataQ_Pops

Busy == \/ txDataQ_Pops = 0 /\ txlastDataQSize > 0
        \/ txDataQ_Pushes > txDataQ_Pops
Quiet == txDataQ_Pops > txDataQ_Pushes \/ pendingBuffs = <<>>

Decide ==
    /\ \/ /\ Busy
          /\ txThreadMaker
          /\ UNCHANGED txRemoveThread
       \/ /\ ~Busy
          /\ UNCHANGED <<pc, txThreadCounter, txRemoveThread>>
       \/ /\ ~Busy
          /\ Quiet
          /\ txThreadCounter > 1
          /\ txRemoveThread' = TRUE
          /\ notify_one
          /\ UNCHANGED txThreadCounter
    /\ UNCHANGED counters

\* mutant: the packet that a thread is about to take is not counted
RecordSizeWithoutOwn ==
    /\ txlastDataQSize' = Len(pendingBuffs) - 1
    /\ UNCHANGED <<txDataQ_Pushes, txDataQ_Pops, pc, txThreadCounter, txRemoveThread>>

RecordSize ==
    /\ txlastDataQSize' = Len(pendingBuffs)
    /\ UNCHANGED <<txDataQ_Pushes, txDataQ_Pops, pc, txThreadCounter, txRemoveThread>>

ZeroCounters ==
    /\ txDataQ_Pushes' = 0
    /\ txDataQ_Pops' = 0
    /\ UNCHANGED <<txlastDataQSize, pc, txThreadCounter, txRemoveThread>>

txThreadMgr(m) ==
    /\ \/ /\ manager[m] = "decide"
          /\ Decide
          /\ manager' = [manager EXCEPT ![m] = "size"]
       \/ /\ manager[m] = "size"
          /\ RecordSize
          /\ manager' = [manager EXCEPT ![m] = "zero"]
       \/ /\ manager[m] = "zero"
          /\ ZeroCounters
          /\ manager' = [manager EXCEPT ![m] = "decide"]
    /\ UNCHANGED <<connVars, sender, job, pendingBuffs, txReady, written, lost, forgotten>>

EventLoop == reconnTimerCB \/ ConnectFails \/ on_connect \/ StartThreads \/ EndOfFile \/ ReadError

Next ==
    /\ connection # "dead"
    /\ \/ EventLoop
       \/ \E p \in Packet : send(p) \/ Push(p) \/ Arm(p)
       \/ \E t \in TxThread : txProcessor(t)
       \/ \E m \in Manager : txThreadMgr(m)

(* Threads run while the process lives.  Nobody has to send, the connection  *)
(* has neither to come nor to end.                                           *)
Alive == connection # "dead"
Fairness ==
    /\ WF_vars(StartThreads)
    /\ \A p \in Packet : WF_vars(Alive /\ (Push(p) \/ Arm(p)))
    /\ \A t \in TxThread : WF_vars(Alive /\ txProcessor(t))
    /\ \A m \in Manager : WF_vars(Alive /\ txThreadMgr(m))

Spec == Init /\ [][Next]_vars /\ Fairness
-----------------------------------------------------------------------------
Writers == {t \in TxThread : job[t] # None}
BeingWritten == IF Writers = {} THEN <<>> ELSE <<job[CHOOSE t \in Writers : TRUE]>>

Transmitter == INSTANCE Fifo WITH waiting <- BeingWritten \o pendingBuffs, out <- written

(* Packets go out in the order in which they were queued, over the end of    *)
(* one connection and into the next, and none goes out twice.                *)
SentInOrder == Transmitter!Init /\ [][Transmitter!Next]_(Transmitter!vars)

(* With packets to write and no send() that is about to set it, txReady is   *)
(* set, unless a new connection has reset it.                                *)
TxArmed ==
    pendingBuffs # <<>> => \/ txReady
                           \/ forgotten
                           \/ \E p \in Packet : sender[p] = "arming"

(* A connection that stays takes every packet that was accepted, although    *)
(* threads die, are told to end, and several managers make them: but for     *)
(* those that a new connection has reset txReady over, which stay in the     *)
(* queue until the next send().                                              *)
Transmitted ==
    \A p \in Packet :
        (sender[p] \in {"checked", "arming", "sent"} /\ connection = "up") ~>
            \/ \E k \in DOMAIN written : written[k] = p
            \/ p \in lost
            \/ forgotten
            \/ connection # "up"

(* The intervals are used in their order, each as often as Timing says, the  *)
(* last for ever if that is 0, and the client gives up only when all are     *)
(* used up, for as long as it has not been connected.                        *)
Pair(n) == 2 * n - 1
Pairs == Len(Timing) \div 2
Endless == Timing[Len(Timing)] = 0
UsesUpTo[n \in 0..Pairs] == IF n = 0 THEN 0 ELSE UsesUpTo[n - 1] + Timing[Pair(n) + 1]
AllUses == UsesUpTo[Pairs]

RetriesInTurn ==
    /\ Endless \/ tries <= AllUses
    /\ connection = "waiting" => \E n \in 1..Pairs :
                                     /\ UsesUpTo[n - 1] < tries
                                     /\ tries <= UsesUpTo[n] \/ (n = Pairs /\ Endless)
                                     /\ interval = Timing[Pair(n)]
    /\ connection = "dead" => tries = 0 \/ (tries = AllUses /\ ~Endless)
=============================================================================
