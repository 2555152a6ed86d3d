---------------------------- MODULE ServiceCalls ----------------------------
(* A call from a service to a command of another service, through the core:  *)
(* CommunicationMediator on the two service sides, CommunicationManager and  *)
(* the routing part of Router in the core.  Packets are handled by thread    *)
(* pools at both ends, so packets in flight form a set: they are handled in  *)
(* any order.  A call carries an identity that is unique in the process that *)
(* made it and in no other; the core tells calls apart by caller#identity.   *)
(*   The core makes calls of its own (callCommandSync): the permission check *)
(* of a call that carries a session is one, and the thread that routes the   *)
(* call spins until the check has returned.                                  *)
EXTENDS FiniteSets

CONSTANTS Service,    \* services that connect to the core
          Core,       \* "_core"
          Call,       \* calls; a call is one run of runCommandSync/callCommandSync
          Caller,     \* [Call -> Service \cup {Core}]
          Callee,     \* [Call -> Service], the owner of the command
          Identity,   \* [Call -> identities]
          Check,      \* [Call -> Call \cup {NoCheck}], the permission check
          NoCheck,
          Nothing

CoreCalls == {c \in Call : Caller[c] = Core}

Verdict == {"yes", "no", "error"}
Answer == [of : Call, verdict : Verdict]

ASSUME CallsAssumption ==
    /\ Core \notin Service
    /\ NoCheck \notin Call
    /\ Nothing \notin Verdict \cup Answer
    /\ Caller \in [Call -> Service \cup {Core}]
    /\ Callee \in [Call -> Service]
    /\ Check \in [Call -> CoreCalls \cup {NoCheck}]

(* getRandomID() does not repeat itself within a process.                    *)
ASSUME IdentityAssumption ==
    \A c, d \in Call : Caller[c] = Caller[d] /\ Identity[c] = Identity[d] => c = d

(* CallbackProfile::uniqId()                                                 *)
uniqIdOfIdentity(c) == Identity[c]         \* mutant: without the caller's name
uniqId(c) == <<Caller[c], Identity[c]>>

VARIABLES
    \* service side, one idData on the stack of every call
    pc,            \* where runCommandSync/callCommandSync is
    box,           \* idData: set, data, isException
    got,           \* the copy of data that will be returned
    idList,        \* calls registered in their maker's idList
    writing,       \* error handlers between set = true and their last write
    \* core
    online,        \* services the core knows the connection of
    commandList,   \* services whose commands are registered
    callbackList,  \* calls whose CallbackProfile is stored
    routing,       \* calls between callCommand's unlock and sendFunc
    \* in flight
    net,
    \* history
    ran,           \* what the handler of the command came to
    disturbed      \* calls that were refused or that lost one of their ends

vars == <<pc, box, got, idList, writing, online, commandList, callbackList,
          routing, net, ran, disturbed>>
makerVars == <<pc, box, got, idList, writing>>
coreVars == <<online, commandList, callbackList, routing>>

EmptyBox == [set |-> FALSE, data |-> Nothing, isException |-> FALSE]

CallPacket(c) == [type |-> "call", call |-> c]
ExecPacket(c) == [type |-> "exec", call |-> c, id |-> uniqId(c)]
ReplyPacket(type, key, a) == [type |-> type, id |-> key, answer |-> a]
ToMaker(type, c, a) == [type |-> type, maker |-> Caller[c], id |-> Identity[c], answer |-> a]

Packet ==
    [type : {"call"}, call : Call]
    \cup [type : {"exec"}, call : Call, id : {uniqId(c) : c \in Call}]
    \cup [type : {"callback", "error"}, id : {uniqId(c) : c \in Call}, answer : Answer]
    \cup [type : {"result", "fault"}, maker : Service, id : {Identity[c] : c \in Call},
          answer : Answer]

(* The service that a packet comes from or goes to.                          *)
Ends(m) == CASE m.type = "call" -> Caller[m.call]
             [] m.type = "exec" -> Callee[m.call]
             [] m.type \in {"callback", "error"} -> Callee[m.answer.of]
             [] m.type \in {"result", "fault"} -> m.maker

TypeOK ==
    /\ pc \in [Call -> {"new", "waiting", "copied", "returned", "raised", "refused"}]
    /\ box \in [Call -> [set : BOOLEAN, data : Answer \cup {Nothing}, isException : BOOLEAN]]
    /\ got \in [Call -> Answer \cup {Nothing}]
    /\ idList \in SUBSET Call
    /\ writing \in SUBSET Call
    /\ online \in SUBSET Service
    /\ commandList \in SUBSET Service
    /\ callbackList \in SUBSET Call
    /\ routing \in SUBSET Call
    /\ net \in SUBSET Packet
    /\ ran \in [Call -> Verdict \cup {Nothing}]
    /\ disturbed \in SUBSET Call

Init ==
    /\ pc = [c \in Call |-> "new"]
    /\ box = [c \in Call |-> EmptyBox]
    /\ got = [c \in Call |-> Nothing]
    /\ idList = {}
    /\ writing = {}
    /\ online = {}
    /\ commandList = {}
    /\ callbackList = {}
    /\ routing = {}
    /\ net = {}
    /\ ran = [c \in Call |-> Nothing]
    /\ disturbed = {}
-----------------------------------------------------------------------------
(* The two locks that an error handler holds while it writes: the MtxIdList  *)
(* of the maker's process, and in the core also MTXCallback.                 *)
IdListFree(s) == \A c \in writing : Caller[c] # s
CallbackFree == IdListFree(Core)

(* A send goes out if the connection is up; otherwise the packet is dropped. *)
Send(s, m) == net' = IF s \in online THEN net \cup {m} ELSE net

(* runCommandSync up to its spin.  A service that the core does not know     *)
(* (yet) is connected, then its packet will be ignored, or not, then         *)
(* TCPClient::send throws.                                                   *)
runCommandSync(c) ==
    /\ Caller[c] \in Service
    /\ pc[c] = "new"
    /\ IdListFree(Caller[c])
    /\ idList' = idList \cup {c}
    /\ \/ /\ pc' = [pc EXCEPT ![c] = "waiting"]
          /\ net' = net \cup {CallPacket(c)}
       \/ /\ Caller[c] \notin online
          /\ pc' = [pc EXCEPT ![c] = "refused"]
          /\ UNCHANGED net
    /\ disturbed' = IF {Caller[c], Callee[c]} \subseteq online THEN disturbed
                                                              ELSE disturbed \cup {c}
    /\ UNCHANGED <<box, got, writing, coreVars, ran>>

(* mutant: the whole idData is copied.                                       *)
CopyDataWhole(c) ==
    /\ Caller[c] \in Service
    /\ pc[c] = "waiting"
    /\ box[c].set
    /\ got' = [got EXCEPT ![c] = box[c]]
    /\ pc' = [pc EXCEPT ![c] = "copied"]
    /\ UNCHANGED <<box, idList, writing, coreVars, net, ran, disturbed>>

(* The spin sees x.set and data is copied, without a lock.                   *)
CopyData(c) ==
    /\ Caller[c] \in Service
    /\ pc[c] = "waiting"
    /\ box[c].set
    /\ got' = [got EXCEPT ![c] = box[c].data]
    /\ pc' = [pc EXCEPT ![c] = "copied"]
    /\ UNCHANGED <<box, idList, writing, coreVars, net, ran, disturbed>>

(* mutant: without MtxIdList.                                                *)
FinishCallUnlocked(c) ==
    /\ pc[c] = "copied"
    /\ idList' = idList \ {c}
    /\ pc' = [pc EXCEPT ![c] = IF box[c].isException THEN "raised" ELSE "returned"]
    /\ UNCHANGED <<box, got, writing, coreVars, net, ran, disturbed>>

(* idList.erase under MtxIdList, then isException decides.                   *)
FinishCall(c) ==
    /\ pc[c] = "copied"
    /\ IdListFree(Caller[c])
    /\ idList' = idList \ {c}
    /\ pc' = [pc EXCEPT ![c] = IF box[c].isException THEN "raised" ELSE "returned"]
    /\ UNCHANGED <<box, got, writing, coreVars, net, ran, disturbed>>
-----------------------------------------------------------------------------
(* callCommand, up to the unlock: the callback is stored (in the place of    *)
(* one with the same key), the routing thread goes on to sendFunc.  A        *)
(* command nobody registered is answered by makeError, whose packet has no   *)
(* id at the top: the maker's errorReceive cannot find its call in it.       *)
Stored(c) == {d \in callbackList : uniqId(d) # uniqId(c)} \cup {c}

Refused(c) == disturbed' = disturbed \cup {c}

callCommand(c) ==
    /\ CallPacket(c) \in net
    /\ Caller[c] \in online
    /\ net' = net \ {CallPacket(c)}
    /\ \/ /\ Callee[c] \in commandList
          /\ CallbackFree
          /\ callbackList' = Stored(c)
          /\ routing' = routing \cup {c}
          /\ UNCHANGED disturbed
       \/ /\ Callee[c] \notin commandList
          /\ Refused(c)
          /\ UNCHANGED <<callbackList, routing>>
    /\ UNCHANGED <<makerVars, online, commandList, ran>>

(* sendMessage of a routed call.  A call with a session waits for its        *)
(* permission check, and anything but a yes is an exception that leaves the  *)
(* callback stored.                                                          *)
Granted == {k \in Call : pc[k] = "returned" /\ got[k] # Nothing /\ got[k].verdict = "yes"}
CheckedReturned(c) ==                      \* mutant: any answer will do
    Check[c] \in {k \in Call : pc[k] = "returned"} \cup {NoCheck}
Checked(c) == Check[c] \in Granted \cup {NoCheck}
Decided(c) == Check[c] \in {k \in Call : pc[k] \in {"returned", "refused"}} \cup {NoCheck}

sendMessage(c) ==
    /\ c \in routing
    /\ Decided(c)
    /\ routing' = routing \ {c}
    /\ \/ /\ Checked(c)
          /\ Send(Callee[c], ExecPacket(c))
          /\ disturbed' = IF Callee[c] \in online THEN disturbed ELSE disturbed \cup {c}
       \/ /\ ~Checked(c)
          /\ Refused(c)
          /\ UNCHANGED net
    /\ UNCHANGED <<makerVars, online, commandList, callbackList, ran>>

(* callCommandSync up to its spin: callCommand with the placeholder.  A      *)
(* check is made by the thread that routes the call it is for.               *)
callCommandSync(c) ==
    /\ c \in CoreCalls
    /\ pc[c] = "new"
    /\ \A d \in Call : Check[d] = c => d \in routing
    /\ \/ /\ Callee[c] \in commandList
          /\ CallbackFree
          /\ callbackList' = Stored(c)
          /\ idList' = idList \cup {c}
          /\ routing' = routing \cup {c}
          /\ pc' = [pc EXCEPT ![c] = "waiting"]
       \/ /\ Callee[c] \notin commandList
          /\ pc' = [pc EXCEPT ![c] = "refused"]
          /\ UNCHANGED <<callbackList, idList, routing>>
    /\ UNCHANGED <<box, got, writing, online, commandList, net, ran, disturbed>>

(* The spin of callCommandSync ends; nothing is erased from idList.          *)
ReturnCoreCall(c) ==
    /\ c \in CoreCalls
    /\ pc[c] = "waiting"
    /\ box[c].set
    /\ got' = [got EXCEPT ![c] = box[c].data]
    /\ pc' = [pc EXCEPT ![c] = "returned"]
    /\ UNCHANGED <<box, idList, writing, coreVars, net, ran, disturbed>>
-----------------------------------------------------------------------------
(* The callee handles a call: onCommand, then runCallback, or errorReport if *)
(* it raised an exception.                                                   *)
datareceive(c) ==
    /\ ExecPacket(c) \in net
    /\ \E v \in Verdict :
        LET type == IF v = "error" THEN "error" ELSE "callback"
            reply == ReplyPacket(type, ExecPacket(c).id, [of |-> c, verdict |-> v])
        IN /\ ran' = [ran EXCEPT ![c] = v]
           /\ net' = (net \ {ExecPacket(c)}) \cup
                     (IF Callee[c] \in online THEN {reply} ELSE {})
    /\ disturbed' = IF Callee[c] \in online THEN disturbed ELSE disturbed \cup {c}
    /\ UNCHANGED <<makerVars, coreVars>>

Given(c, a, exc) == [box EXCEPT ![c] = [set |-> TRUE, data |-> a, isException |-> exc]]

(* callCallback: the placeholder of a call of the core is filled, any other  *)
(* answer is passed on to the service that made the call.                    *)
callCallback(m, c) ==
    /\ m \in net
    /\ m.type = "callback"
    /\ Callee[m.answer.of] \in online
    /\ CallbackFree
    /\ c \in callbackList
    /\ uniqId(c) = m.id
    /\ callbackList' = callbackList \ {c}
    /\ \/ /\ c \in idList \cap CoreCalls
          /\ box' = Given(c, m.answer, FALSE)
          /\ net' = net \ {m}
       \/ /\ c \notin idList \cap CoreCalls
          /\ Caller[c] \in Service
          /\ net' = (net \ {m}) \cup
                    (IF Caller[c] \in online THEN {ToMaker("result", c, m.answer)} ELSE {})
          /\ UNCHANGED box
    /\ UNCHANGED <<pc, got, idList, writing, online, commandList, routing, ran, disturbed>>

(* callCallbackError: for a call of the core set = true comes first, data    *)
(* later, and the exception at the end leaves the callback stored.           *)
callCallbackError(m, c) ==
    /\ m \in net
    /\ m.type = "error"
    /\ Callee[m.answer.of] \in online
    /\ CallbackFree
    /\ c \in callbackList
    /\ uniqId(c) = m.id
    /\ \/ /\ c \in idList \cap CoreCalls
          /\ box' = [box EXCEPT ![c].set = TRUE]
          /\ writing' = writing \cup {c}
          /\ net' = net \ {m}
          /\ UNCHANGED callbackList
       \/ /\ c \notin idList \cap CoreCalls
          /\ Caller[c] \in Service
          /\ callbackList' = callbackList \ {c}
          /\ net' = (net \ {m}) \cup
                    (IF Caller[c] \in online THEN {ToMaker("fault", c, m.answer)} ELSE {})
          /\ UNCHANGED <<box, writing>>
    /\ UNCHANGED <<pc, got, idList, online, commandList, routing, ran, disturbed>>

(* Its last write.  The stack frame may be gone by now.                      *)
WriteErrorText(c) ==
    /\ c \in writing \cap CoreCalls
    /\ box' = [box EXCEPT ![c].data = [of |-> c, verdict |-> ran[c]]]
    /\ writing' = writing \ {c}
    /\ UNCHANGED <<pc, got, idList, coreVars, net, ran, disturbed>>

(* Packets the core does not act on: those of a service it does not know the *)
(* connection of, and answers without a callback.                            *)
IgnorePacket(m) ==
    /\ m \in net
    /\ \/ m.type = "call" /\ Caller[m.call] \notin online
       \/ /\ m.type \in {"callback", "error"}
          /\ \/ Callee[m.answer.of] \notin online
             \/ \A c \in callbackList : uniqId(c) # m.id
    /\ net' = net \ {m}
    /\ UNCHANGED <<makerVars, coreVars, ran, disturbed>>
-----------------------------------------------------------------------------
(* The maker receives the answer.  dataReceive writes the three fields under *)
(* MtxIdList in the order data, set; the spin may see set at once, so the    *)
(* isException of errorReceive is a step of its own.                         *)
Addressee(m, c) == c \in idList /\ Caller[c] = m.maker /\ Identity[c] = m.id

dataReceive(m, c) ==
    /\ m \in net
    /\ m.type = "result"
    /\ Addressee(m, c)
    /\ IdListFree(m.maker)
    /\ box' = Given(c, m.answer, box[c].isException)
    /\ net' = net \ {m}
    /\ UNCHANGED <<pc, got, idList, writing, coreVars, ran, disturbed>>

errorReceive(m, c) ==
    /\ m \in net
    /\ m.type = "fault"
    /\ Addressee(m, c)
    /\ IdListFree(m.maker)
    /\ box' = Given(c, m.answer, box[c].isException)
    /\ writing' = writing \cup {c}
    /\ net' = net \ {m}
    /\ UNCHANGED <<pc, got, idList, coreVars, ran, disturbed>>

MarkException(c) ==
    /\ c \in writing \ CoreCalls
    /\ box' = [box EXCEPT ![c].isException = TRUE]
    /\ writing' = writing \ {c}
    /\ UNCHANGED <<pc, got, idList, coreVars, net, ran, disturbed>>
-----------------------------------------------------------------------------
(* Services come and go.  cleanup() drops the commands of the service and    *)
(* the callbacks of the calls it made, not those of the calls it was to      *)
(* answer.                                                                   *)
InProgress(c) == pc[c] = "waiting"

Disturb(s) ==
    disturbed' = disturbed \cup {c \in Call : InProgress(c) /\ s \in {Caller[c], Callee[c]}}

cleanupAll(s) ==                           \* mutant: the filter on the caller is gone
    /\ CallbackFree
    /\ commandList' = commandList \ {s}
    /\ callbackList' = {}
cleanup(s) ==
    /\ CallbackFree
    /\ commandList' = commandList \ {s}
    /\ callbackList' = {c \in callbackList : Caller[c] # s}

(* A hello is accepted.                                                      *)
Connect(s) ==
    /\ s \notin online
    /\ online' = online \cup {s}
    /\ UNCHANGED <<makerVars, commandList, callbackList, routing, net, ran, disturbed>>

(* onEnable registers the commands of the service.                           *)
registerCommand(s) ==
    /\ s \in online \ commandList
    /\ commandList' = commandList \cup {s}
    /\ UNCHANGED <<makerVars, online, callbackList, routing, net, ran, disturbed>>

(* _core.removeCommand: whoever asks, and whatever answers are still owed.   *)
removeCommand(s) ==
    /\ s \in commandList
    /\ commandList' = commandList \ {s}
    /\ UNCHANGED <<makerVars, online, callbackList, routing, net, ran, disturbed>>

(* disableService of a service that stays connected.                         *)
disableService(s) ==
    /\ s \in online \cap commandList
    /\ cleanup(s)
    /\ Disturb(s)
    /\ UNCHANGED <<makerVars, online, routing, net, ran>>

(* The connection breaks.  A packet in flight is lost, or it survives: in    *)
(* the send queue of the service until it is connected again, or in its      *)
(* receive queue.                                                            *)
onClientDisconnect(s) ==
    /\ s \in online
    /\ cleanup(s)
    /\ Disturb(s)
    /\ online' = online \ {s}
    /\ \E lost \in SUBSET {m \in net : Ends(m) = s} : net' = net \ lost
    /\ UNCHANGED <<makerVars, routing, ran>>
-----------------------------------------------------------------------------
ServiceStep(s) == \/ Connect(s) \/ registerCommand(s) \/ removeCommand(s)
                  \/ disableService(s) \/ onClientDisconnect(s)

CallStep(c) == \/ CopyData(c) \/ FinishCall(c) \/ callCommand(c) \/ sendMessage(c)
               \/ ReturnCoreCall(c) \/ datareceive(c) \/ WriteErrorText(c) \/ MarkException(c)

Answering(c) ==
    \E m \in net : \/ callCallback(m, c) \/ callCallbackError(m, c)
                   \/ dataReceive(m, c) \/ errorReceive(m, c)

Next ==
    \/ \E s \in Service : ServiceStep(s)
    \/ \E c \in Call : \/ runCommandSync(c) \/ callCommandSync(c)
                       \/ CallStep(c) \/ Answering(c)
    \/ \E m \in net : IgnorePacket(m)

(* Threads that can run do, a packet that arrived is handled, a handler      *)
(* returns.  Nobody has to connect, to register, to call.                    *)
Fairness == \A c \in Call : /\ WF_vars(CallStep(c))
                            /\ WF_vars(Answering(c))
                            /\ WF_vars(Caller[c] = Core /\ callCommandSync(c))

Spec == Init /\ [][Next]_vars /\ Fairness
-----------------------------------------------------------------------------
(* What the maker of a call was given.                                       *)
OutcomeOf(c) ==
    IF pc[c] \in {"returned", "raised", "refused"} THEN [how |-> pc[c], answer |-> got[c]]
                                                  ELSE Nothing

Promise == INSTANCE Calls WITH
    Bare <- CoreCalls,
    made <- {c \in Call : pc[c] # "new"},
    outcome <- [c \in Call |-> OutcomeOf(c)]

(* The way through both mediators and the core, with packets handled in any  *)
(* order and services that come and go, keeps the promise of module Calls:   *)
(* a command runs once for a call, and its maker gets the answer of its own  *)
(* call, raised if and only if it is an error.                               *)
KeepsPromise == Promise!Init /\ [][Promise!Next]_(Promise!vars)

(* A call that carries a session is only forwarded, and only runs, if the    *)
(* user manager has answered yes to the check the core made for it.          *)
CheckedBeforeRun ==
    \A c \in Call : (ExecPacket(c) \in net \/ ran[c] # Nothing) =>
        Check[c] \in {k \in Call : ran[k] = "yes"} \cup {NoCheck}

(* A placeholder is a variable on the stack of the thread that made the call.*)
(* Whatever a service may still receive for a call, and whatever a receive   *)
(* thread is still writing, the thread is there.                             *)
FrameIsAlive ==
    \A c \in Call \ CoreCalls :
        (c \in writing \/ \E m \in net : m.type \in {"result", "fault"} /\ Addressee(m, c))
        => pc[c] \in {"waiting", "copied"}

(* A call only hangs if it was refused, or if the maker or the owner of the  *)
(* command went away, or if that happened to its permission check.           *)
Answered ==
    \A c \in Call : pc[c] \in {"waiting", "copied"} ~>
        \/ pc[c] \in {"returned", "raised"}
        \/ c \in disturbed
        \/ Check[c] \in disturbed
=============================================================================
