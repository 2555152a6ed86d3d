----------------------------- MODULE TcpTransmit -----------------------------
(* The transmitting half of TCPServer: send() pushes to pendingBuffs, a pool *)
(* of threads writes to the sockets, and a manager that runs every 100 ms    *)
(* makes threads and has them end.  Queue and writing have one mutex, txMtx, *)
(* the flag txReady that says there is something to do is set without it.    *)
(*   Clients are removed and freed when their connection ends; a packet in   *)
(* the queue keeps a pointer to its client.                                  *)
EXTENDS Naturals, Sequences, FiniteSets

CONSTANTS Packet, Client,
          To,          \* [Packet -> Client]
          Leaving,     \* clients whose connection may end, a bound
          TxThread,    \* slots for threads, a bound
          None

ASSUME ToAssumption ==
    /\ To \in [Packet -> Client]
    /\ Leaving \subseteq Client
    /\ None \notin Packet

VARIABLES
    sender,            \* where the send() of each packet is
    pc, job,           \* the transmit threads, and the packet each has taken
    pendingBuffs, txReady, txRemoveThread,
    txDataQ_Pushes, txDataQ_Pops, txlastDataQSize,
    manager,           \* where the manager is
    gone,              \* clients that are stopped
    written,           \* history: what was written, in order
    disarmed           \* the last send() threw and left txReady false

counters == <<txDataQ_Pushes, txDataQ_Pops, txlastDataQSize>>
vars == <<sender, pc, job, pendingBuffs, txReady, txRemoveThread, counters, manager, gone,
          written, disarmed>>

TypeOK ==
    /\ sender \in [Packet -> {"new", "arming", "sent", "thrown"}]
    /\ pc \in [TxThread -> {"none", "top", "stopping", "waiting", "woken", "writing"}]
    /\ job \in [TxThread -> Packet \cup {None}]
    /\ pendingBuffs \in Seq(Packet)
    /\ txReady \in BOOLEAN
    /\ txRemoveThread \in BOOLEAN
    /\ txDataQ_Pushes \in Nat /\ txDataQ_Pops \in Nat /\ txlastDataQSize \in Nat
    /\ manager \in {"decide", "size", "zero"}
    /\ gone \in SUBSET Client
    /\ written \in Seq(Packet)
    /\ disarmed \in BOOLEAN

Init ==
    /\ sender = [p \in Packet |-> "new"]
    /\ pc = [t \in TxThread |-> "none"]
    /\ job = [t \in TxThread |-> None]
    /\ pendingBuffs = <<>>
    /\ txReady = FALSE
    /\ txRemoveThread = FALSE
    /\ txDataQ_Pushes = 0 /\ txDataQ_Pops = 0 /\ txlastDataQSize = 0
    /\ manager = "decide"
    /\ gone = {}
    /\ written = <<>>
    /\ disarmed = FALSE
-----------------------------------------------------------------------------
At(places) == {t \in TxThread : pc[t] \in places}

(* A thread has txMtx while it is going to wait, and all the way from the    *)
(* queue to uv_write.                                                        *)
txMtxFreeWhileWriting == At({"stopping"}) = {}     \* mutant: unlocked after the pop
txMtxFree == At({"stopping", "writing"}) = {}

(* txNotification.notify_one()                                               *)
notify_one ==
    \/ \E t \in At({"waiting"}) : pc' = [pc EXCEPT ![t] = "woken"]
    \/ At({"waiting"}) = {} /\ UNCHANGED pc

(* send(): the flag is taken back before clients[] looks the client up; for  *)
(* a client that is gone that throws, and the flag stays as it is.           *)
send(p) ==
    /\ sender[p] = "new"
    /\ txMtxFree
    /\ txReady' = FALSE
    /\ \/ /\ To[p] \notin gone
          /\ pendingBuffs' = Append(pendingBuffs, p)
          /\ txDataQ_Pushes' = txDataQ_Pushes + 1
          /\ sender' = [sender EXCEPT ![p] = "arming"]
          /\ UNCHANGED disarmed
       \/ /\ To[p] \in gone
          /\ sender' = [sender EXCEPT ![p] = "thrown"]
          /\ disarmed' = TRUE
          /\ UNCHANGED <<pendingBuffs, txDataQ_Pushes>>
    /\ UNCHANGED <<pc, job, txRemoveThread, txDataQ_Pops, txlastDataQSize, manager, gone, written>>

(* After the unlock, the flag is set and a thread notified.                  *)
Arm(p) ==
    /\ sender[p] = "arming"
    /\ sender' = [sender EXCEPT ![p] = "sent"]
    /\ txReady' = TRUE
    /\ disarmed' = FALSE
    /\ notify_one
    /\ UNCHANGED <<job, pendingBuffs, txRemoveThread, counters, manager, gone, written>>
-----------------------------------------------------------------------------
(* txThread().  A thread that is woken ends if one is to go, whatever it was *)
(* woken for; any other way out of the wait tests the flag again.            *)
Ends(t) == pc[t] = "woken" /\ txRemoveThread
Tests(t) == pc[t] = "top" \/ (pc[t] = "woken" /\ ~txRemoveThread)

EndThread(t) ==
    /\ txMtxFree
    /\ Ends(t)
    /\ pc' = [pc EXCEPT ![t] = "none"]
    /\ txRemoveThread' = FALSE
    /\ UNCHANGED <<sender, job, pendingBuffs, txReady, counters, manager, gone, written, disarmed>>

TakePacketAndDisarm(t) ==       \* mutant: one packet for each time the flag is set
    /\ txMtxFree
    /\ Tests(t)
    /\ txReady
    /\ pendingBuffs # <<>>
    /\ job' = [job EXCEPT ![t] = Head(pendingBuffs)]
    /\ pendingBuffs' = Tail(pendingBuffs)
    /\ txReady' = FALSE
    /\ txDataQ_Pops' = txDataQ_Pops + 1
    /\ pc' = [pc EXCEPT ![t] = "writing"]
    /\ UNCHANGED <<sender, txRemoveThread, txDataQ_Pushes, txlastDataQSize, manager, gone,
                   written, disarmed>>

TakePacket(t) ==
    /\ txMtxFree
    /\ Tests(t)
    /\ txReady
    /\ pendingBuffs # <<>>
    /\ job' = [job EXCEPT ![t] = Head(pendingBuffs)]
    /\ pendingBuffs' = Tail(pendingBuffs)
    /\ txDataQ_Pops' = txDataQ_Pops + 1
    /\ pc' = [pc EXCEPT ![t] = "writing"]
    /\ UNCHANGED <<sender, txReady, txRemoveThread, txDataQ_Pushes, txlastDataQSize, manager, gone,
                   written, disarmed>>

(* Nothing to do: the flag is false, or is made false.                       *)
FindNothing(t) ==
    /\ txMtxFree
    /\ Tests(t)
    /\ \/ ~txReady /\ pc' = [pc EXCEPT ![t] = "stopping"]
       \/ txReady /\ pendingBuffs = <<>> /\ pc' = [pc EXCEPT ![t] = "top"]
    /\ txReady' = FALSE
    /\ UNCHANGED <<sender, job, pendingBuffs, txRemoveThread, counters, manager, gone, written,
                   disarmed>>

Wait(t) ==
    /\ pc[t] = "stopping"
    /\ pc' = [pc EXCEPT ![t] = "waiting"]
    /\ UNCHANGED <<sender, job, pendingBuffs, txReady, txRemoveThread, counters, manager, gone,
                   written, disarmed>>

Release(t) ==
    /\ pc[t] = "writing"
    /\ pc' = [pc EXCEPT ![t] = "top"]
    /\ job' = [job EXCEPT ![t] = None]
    /\ UNCHANGED <<sender, pendingBuffs, txReady, txRemoveThread, counters, manager, gone, disarmed>>

uv_write(t) ==
    /\ Release(t)
    /\ To[job[t]] \notin gone
    /\ written' = Append(written, job[t])

(* Through the pointer to a freed client the thread reads what it finds: the *)
(* socket looks writable and the client is not connected, or the thread goes *)
(* on waiting for a closed socket, with txMtx.                               *)
SkipWrite(t) ==
    /\ Release(t)
    /\ To[job[t]] \in gone
    /\ UNCHANGED written

txThread(t) == EndThread(t) \/ TakePacket(t) \/ FindNothing(t) \/ Wait(t) \/ uv_write(t)

(* client::stop()                                                            *)
stop(c) ==
    /\ c \notin gone
    /\ gone' = gone \cup {c}
    /\ UNCHANGED <<sender, pc, job, pendingBuffs, txReady, txRemoveThread, counters, manager,
                   written, disarmed>>
-----------------------------------------------------------------------------
txThreadCounter == Cardinality(TxThread \ At({"none"}))

(* A new thread starts at the top.  When the slots are used up, one that     *)
(* waits runs in its place, if one does.                                     *)
txThreadMaker ==
    \/ \E t \in At({"none"}) : pc' = [pc EXCEPT ![t] = "top"]
    \/ /\ At({"none"}) = {}
       /\ \E t \in At({"waiting"}) : pc' = [pc EXCEPT ![t] = "top"]
    \/ At({"none", "waiting"}) = {} /\ UNCHANGED pc

(* txThreadMgr() decides, then records the size, then zeroes its counters,   *)
(* plain integers that the others increment meanwhile.  The count of quiet   *)
(* rounds (15) is left out: any round may be the one that ends a thread.     *)
BusyIfEmpty == txThreadCounter < 1          \* mutant: a pool that has threads does not grow
Busy == \/ txDataQ_Pops = 0 /\ txlastDataQSize > 0
        \/ txThreadCounter < 1
        \/ txDataQ_Pushes > txDataQ_Pops

GrowPool ==
    /\ manager = "decide"
    /\ Busy
    /\ txThreadMaker
    /\ manager' = "size"
    /\ UNCHANGED <<sender, job, pendingBuffs, txReady, txRemoveThread, counters, gone, written,
                   disarmed>>

Quiet == txDataQ_Pops > txDataQ_Pushes \/ pendingBuffs = <<>>

ShrinkPool ==
    /\ manager = "decide"
    /\ ~Busy
    /\ manager' = "size"
    /\ \/ UNCHANGED <<pc, txRemoveThread>>
       \/ /\ ~Quiet
          /\ txThreadCounter > 1
          /\ ~txRemoveThread
          /\ txRemoveThread' = TRUE
          /\ notify_one
    /\ UNCHANGED <<sender, job, pendingBuffs, txReady, counters, gone, written, disarmed>>

RecordSizeWithoutOwn ==          \* mutant: off by one
    /\ manager = "size"
    /\ txlastDataQSize' = Len(pendingBuffs) - 1
    /\ manager' = "zero"
    /\ UNCHANGED <<sender, pc, job, pendingBuffs, txReady, txRemoveThread, txDataQ_Pushes,
                   txDataQ_Pops, gone, written, disarmed>>

RecordSize ==
    /\ manager = "size"
    /\ txlastDataQSize' = Len(pendingBuffs)
    /\ manager' = "zero"
    /\ UNCHANGED <<sender, pc, job, pendingBuffs, txReady, txRemoveThread, txDataQ_Pushes,
                   txDataQ_Pops, gone, written, disarmed>>

ZeroCounters ==
    /\ manager = "zero"
    /\ txDataQ_Pushes' = 0
    /\ txDataQ_Pops' = 0
    /\ manager' = "decide"
    /\ UNCHANGED <<sender, pc, job, pendingBuffs, txReady, txRemoveThread, txlastDataQSize, gone,
                   written, disarmed>>

txThreadMgr == GrowPool \/ ShrinkPool \/ RecordSize \/ ZeroCounters

Next ==
    \/ \E p \in Packet : send(p) \/ Arm(p)
    \/ \E t \in TxThread : txThread(t) \/ SkipWrite(t)
    \/ \E c \in Leaving : stop(c)
    \/ txThreadMgr

(* A thread that is in send() or in the pool runs, and so does the manager.  *)
(* Nobody has to send, no client has to go, and a thread with a pointer to   *)
(* freed memory may hang.                                                    *)
Fairness ==
    /\ WF_vars(txThreadMgr)
    /\ \A p \in Packet : WF_vars(Arm(p))
    /\ \A t \in TxThread : WF_vars(txThread(t))

Spec == Init /\ [][Next]_vars /\ Fairness
-----------------------------------------------------------------------------
Writers == {t \in TxThread : job[t] # None}
BeingWritten == IF Writers = {} THEN <<>> ELSE <<job[CHOOSE t \in Writers : TRUE]>>

Transmitter == INSTANCE Fifo WITH waiting <- BeingWritten \o pendingBuffs, out <- written

(* However many threads there are, packets go out in the order of the sends, *)
(* each at most once, and only those of a client that is gone are left out.  *)
SentInOrder == Transmitter!Init /\ [][Transmitter!Next]_(Transmitter!vars)

(* With packets to write and no send() that is about to set it, txReady is   *)
(* set, unless the last send() threw.                                        *)
TxArmed ==
    pendingBuffs # <<>> => \/ txReady
                           \/ disarmed
                           \/ \E p \in Packet : sender[p] = "arming"

(* A packet is written although notifications get lost and threads end,      *)
(* unless its client goes, a thread hangs at a client that went, or a send() *)
(* to such a client throws; then it waits for the next send() that does not. *)
Transmitted ==
    \A p \in Packet :
        (\E i \in DOMAIN pendingBuffs : pendingBuffs[i] = p) ~>
            \/ \E i \in DOMAIN written : written[i] = p
            \/ disarmed
            \/ To[p] \in gone
            \/ \E t \in Writers : To[job[t]] \in gone
=============================================================================
