----------------------------- MODULE GuiGateway -----------------------------
(* The gateway between websocket clients and the core (GUICore,              *)
(* WebSocketPort): whose command each answer belongs to, which session each  *)
(* client has, and how many clients share a session, so that the last one to *)
(* leave logs it out.                                                        *)
(*   Connections begin and end in the one thread of the websocket loop, each *)
(* message of a client has a thread of its own, answers come in a pool of    *)
(* the service's.  Nothing is locked: a step here is what one of them does   *)
(* to one of the maps.  The user manager and the core between are external.  *)
EXTENDS Naturals, FiniteSets

CONSTANTS MaxClients,        \* bound on the connections
          MaxCalls,          \* bound on the commands sent
          MaxSessions,       \* bound on the sessions made
          Id,                \* ids of commands, chosen by the clients
          None

ASSUME GatewayAssumption ==
    /\ MaxClients \in Nat /\ MaxCalls \in Nat /\ MaxSessions \in Nat
    /\ None \notin Id \cup Nat

Client == 1..MaxClients      \* numbered as they come (conIDCounter)
Call == 1..MaxCalls
Session == 1..MaxSessions
Command == {"login", "logout"}    \* any other goes the way of a login that is refused

VARIABLES
    connection,              \* client: "new", "open", "left" connectionList, "gone" from clients
    sessionID,               \* client: session in its clientData, or None
    cmdClients,              \* command id: client, or None
    concurrentSessions,      \* session: clients counted, 0 where it is not listed
    closing,                 \* WSClientDisconnect: where it is, its client and session
    call,                    \* commands: what was read, where their threads and answers are
    logouts,                 \* logouts the gateway itself has sent
    usermanager,             \* session: "unused", "alive" or "gone" at the user manager
    running,                 \* the process has not crashed
    disturbed                \* history: sessions that were handled by two at once

maps == <<connection, sessionID, cmdClients, concurrentSessions>>
outside == <<logouts, usermanager>>
vars == <<maps, closing, call, outside, running, disturbed>>

Nobody == [at |-> "none"]
NoCall == [thread |-> "new", answer |-> "none", result |-> None]

Init ==
    /\ connection = [c \in Client |-> "new"]
    /\ sessionID = [c \in Client |-> None]
    /\ cmdClients = [i \in Id |-> None]
    /\ concurrentSessions = [s \in Session |-> 0]
    /\ closing = Nobody
    /\ call = [k \in Call |-> NoCall]
    /\ logouts = {}
    /\ usermanager = [s \in Session |-> "unused"]
    /\ running = TRUE
    /\ disturbed = {}

Listed(c) == connection[c] \in {"open", "left"}

(* History: s is touched by two who do not know of each other.               *)
Disturb(sessions) == disturbed' = disturbed \cup (sessions \ {None})
Arriving(s) ==
    \E k \in Call : call[k].result = s /\ call[k].answer \in {"answered", "session", "count"}
Departing(s) ==
    \/ s \in logouts
    \/ closing.at \in {"check", "erase"} /\ closing.session = s
-----------------------------------------------------------------------------
(* A command of a client: its thread reads the client's session, then notes  *)
(* whose command it is and sends it, and after a logout clears the session.  *)
(* It throws when the client is gone before it sends; what it clears when    *)
(* the client is gone by then is nobody's memory.                            *)
WSNewClient(c) ==
    /\ connection[c] = "new" /\ \A d \in 1..(c - 1) : connection[d] # "new"
    /\ connection' = [connection EXCEPT ![c] = "open"]
    /\ UNCHANGED <<sessionID, cmdClients, concurrentSessions, closing, call, outside, running,
                   disturbed>>

WSDataReceived(k, c, id, cmd) ==
    /\ connection[c] = "open"
    /\ call[k] = NoCall /\ \A j \in 1..(k - 1) : call[j] # NoCall
    /\ call' = [call EXCEPT ![k] =
                    [client |-> c, id |-> id, cmd |-> cmd, session |-> sessionID[c],
                     thread |-> "calling", answer |-> "none", result |-> None, to |-> None,
                     reached |-> None]]
    /\ UNCHANGED <<maps, closing, outside, running, disturbed>>

callFromClient(k) ==
    /\ call[k].thread = "calling"
    /\ IF Listed(call[k].client)
       THEN /\ cmdClients' = [cmdClients EXCEPT ![call[k].id] = call[k].client]
            /\ call' = [call EXCEPT ![k].answer = "asked",
                                    ![k].thread = IF call[k].cmd = "logout" THEN "clearing"
                                                  ELSE "done"]
       ELSE call' = [call EXCEPT ![k].thread = "done"] /\ UNCHANGED cmdClients
    /\ UNCHANGED <<connection, sessionID, concurrentSessions, closing, outside, running, disturbed>>

ClearSession(k) ==
    /\ call[k].thread = "clearing"
    /\ LET c == call[k].client
       IN  /\ sessionID' = IF Listed(c) THEN [sessionID EXCEPT ![c] = None] ELSE sessionID
           /\ Disturb({sessionID[c]} \ {call[k].session})
    /\ call' = [call EXCEPT ![k].thread = "done"]
    /\ UNCHANGED <<connection, cmdClients, concurrentSessions, closing, outside, running>>
-----------------------------------------------------------------------------
(* The user manager gives a login the session its user has or a new one, or  *)
(* refuses it; it ends the session of a logout.                              *)
Ended(s) == [usermanager EXCEPT ![s] = IF @ = "alive" THEN "gone" ELSE @]

UserManager(k) ==
    /\ call[k].answer = "asked"
    /\ \/ \E s \in Session :
              /\ call[k].cmd = "login" /\ usermanager[s] # "gone"
              /\ \A r \in 1..(s - 1) : usermanager[r] # "unused"
              /\ call' = [call EXCEPT ![k].answer = "answered", ![k].result = s]
              /\ usermanager' = [usermanager EXCEPT ![s] = "alive"]
              /\ Disturb(IF Departing(s) THEN {s} ELSE {})
       \/ /\ call' = [call EXCEPT ![k].answer = "answered"]
          /\ usermanager' = IF call[k].cmd = "login" \/ call[k].session = None THEN usermanager
                            ELSE Ended(call[k].session)
          /\ UNCHANGED disturbed
    /\ UNCHANGED <<maps, closing, logouts, running>>

LogoutDone(s) ==
    /\ s \in logouts
    /\ logouts' = logouts \ {s}
    /\ usermanager' = Ended(s)
    /\ UNCHANGED <<maps, closing, call, running, disturbed>>
-----------------------------------------------------------------------------
(* callBackReceived() and errorReceived(): the client of the command, for a  *)
(* login the session and the count, then the answer itself.                  *)
callBackReceived(k) ==
    /\ call[k].answer = "answered"
    /\ LET c == cmdClients[call[k].id]
       IN  /\ call' = [call EXCEPT ![k].to = c,
                                   ![k].answer = CASE c = None -> "over"
                                                   [] c # None /\ call[k].result = None -> "send"
                                                   [] OTHER -> "session"]
           /\ Disturb(IF c = None THEN {call[k].result} ELSE {})
    /\ UNCHANGED <<maps, closing, outside, running>>

(* clients[clientID] of a client that is gone makes an entry that is null.   *)
SetSession(k) ==
    /\ call[k].answer = "session"
    /\ LET c == call[k].to
       IN  /\ IF Listed(c) THEN sessionID' = [sessionID EXCEPT ![c] = call[k].result]
              ELSE UNCHANGED sessionID
           /\ running' = Listed(c)
           /\ Disturb({sessionID[c], IF connection[c] = "left" THEN call[k].result ELSE None})
    /\ call' = [call EXCEPT ![k].answer = "count"]
    /\ UNCHANGED <<connection, cmdClients, concurrentSessions, closing, outside>>

\* mutant: a session that is listed is not counted again
CountOnce(k) ==
    /\ call[k].answer = "count"
    /\ concurrentSessions' = [concurrentSessions EXCEPT ![call[k].result] = 1]
    /\ call' = [call EXCEPT ![k].answer = "send"]
    /\ UNCHANGED <<connection, sessionID, cmdClients, closing, outside, running, disturbed>>

CountSession(k) ==
    /\ call[k].answer = "count"
    /\ concurrentSessions' = [concurrentSessions EXCEPT ![call[k].result] = @ + 1]
    /\ call' = [call EXCEPT ![k].answer = "send"]
    /\ UNCHANGED <<connection, sessionID, cmdClients, closing, outside, running, disturbed>>

(* Sending to a connection that is not listed throws.                        *)
SendAnswer(k) ==
    /\ call[k].answer = "send"
    /\ call' = IF connection[call[k].to] = "open"
               THEN [call EXCEPT ![k].reached = call[k].to, ![k].answer = "erase"]
               ELSE [call EXCEPT ![k].answer = "over"]
    /\ UNCHANGED <<maps, closing, outside, running, disturbed>>

EraseCommand(k) ==
    /\ call[k].answer = "erase"
    /\ cmdClients' = [cmdClients EXCEPT ![call[k].id] = None]
    /\ call' = [call EXCEPT ![k].answer = "over"]
    /\ UNCHANGED <<connection, sessionID, concurrentSessions, closing, outside, running, disturbed>>
-----------------------------------------------------------------------------
(* on_close and WSClientDisconnect(): forget the client's commands, count it *)
(* out of its session, log that out when nobody is left.                     *)
\* mutant: the commands of all clients are forgotten
on_close_all(c) ==
    /\ closing = Nobody /\ connection[c] = "open"
    /\ connection' = [connection EXCEPT ![c] = "left"]
    /\ cmdClients' = [i \in Id |-> None]
    /\ closing' = [at |-> "leave", client |-> c]
    /\ UNCHANGED <<sessionID, concurrentSessions, call, outside, running, disturbed>>

on_close(c) ==
    /\ closing = Nobody /\ connection[c] = "open"
    /\ connection' = [connection EXCEPT ![c] = "left"]
    /\ cmdClients' = [i \in Id |-> IF cmdClients[i] = c THEN None ELSE cmdClients[i]]
    /\ closing' = [at |-> "leave", client |-> c]
    /\ UNCHANGED <<sessionID, concurrentSessions, call, outside, running, disturbed>>

Forgetting == [at |-> "forget", client |-> closing.client]
Leaving(s) == [at |-> "check", client |-> closing.client, session |-> s]

(* For a session that is not listed the count is read from the end of the    *)
(* map: it may be anything, and to erase it may end the process.             *)
LeaveSession ==
    /\ closing.at = "leave"
    /\ LET s == sessionID[closing.client]
       IN  \/ /\ s = None
              /\ closing' = Forgetting
              /\ UNCHANGED <<concurrentSessions, running, disturbed>>
           \/ /\ s # None /\ concurrentSessions[s] > 0
              /\ concurrentSessions' = [concurrentSessions EXCEPT ![s] = @ - 1]
              /\ closing' = Leaving(s)
              /\ Disturb(IF Arriving(s) THEN {s} ELSE {})
              /\ UNCHANGED running
           \/ /\ s # None /\ concurrentSessions[s] = 0
              /\ closing' \in {Forgetting, Leaving(s)}
              /\ running' \in BOOLEAN
              /\ Disturb(IF Arriving(s) THEN {s} ELSE {})
              /\ UNCHANGED concurrentSessions
    /\ UNCHANGED <<connection, sessionID, cmdClients, call, outside>>

CheckSession ==
    /\ closing.at = "check"
    /\ IF concurrentSessions[closing.session] < 1
       THEN /\ logouts' = logouts \cup {closing.session}
            /\ closing' = [closing EXCEPT !.at = "erase"]
       ELSE closing' = Forgetting /\ UNCHANGED logouts
    /\ UNCHANGED <<maps, call, usermanager, running, disturbed>>

EraseSession ==
    /\ closing.at = "erase"
    /\ concurrentSessions' = [concurrentSessions EXCEPT ![closing.session] = 0]
    /\ closing' = Forgetting
    /\ UNCHANGED <<connection, sessionID, cmdClients, call, outside, running, disturbed>>

ForgetClient ==
    /\ closing.at = "forget"
    /\ connection' = [connection EXCEPT ![closing.client] = "gone"]
    /\ closing' = Nobody
    /\ UNCHANGED <<sessionID, cmdClients, concurrentSessions, call, outside, running, disturbed>>
-----------------------------------------------------------------------------
Handle(k) ==
    \/ callFromClient(k) \/ ClearSession(k)
    \/ callBackReceived(k) \/ SetSession(k) \/ CountSession(k)
    \/ SendAnswer(k) \/ EraseCommand(k)

Next ==
    /\ running
    /\ \/ \E c \in Client :
              \/ WSNewClient(c) \/ on_close(c)
              \/ \E k \in Call, id \in Id, cmd \in Command : WSDataReceived(k, c, id, cmd)
       \/ \E k \in Call : Handle(k) \/ UserManager(k)
       \/ LeaveSession \/ CheckSession \/ EraseSession \/ ForgetClient
       \/ \E s \in Session : LogoutDone(s)

(* Threads that can run do, and what is asked is answered.                   *)
Spec ==
    /\ Init /\ [][Next]_vars
    /\ \A k \in Call : WF_vars(running /\ Handle(k)) /\ WF_vars(running /\ UserManager(k))
-----------------------------------------------------------------------------
Has(c, s) == connection[c] = "open" /\ sessionID[c] = s
Quiet ==
    /\ closing = Nobody /\ logouts = {}
    /\ \A k \in Call : call[k].thread \in {"new", "done"} /\ call[k].answer \in {"none", "over"}
Commands == {k \in Call : call[k] # NoCall}
CommandedOut(s) == \E k \in Commands : call[k].cmd = "logout" /\ call[k].session = s

(* A session that connected clients have is not logged out by the gateway    *)
(* when others leave, whoever logged in and left in what order: it ends only *)
(* by a client's own command.  And when nothing is under way, a session that *)
(* lives at the user manager has a client: the last that left logged it out. *)
(* Neither is claimed of a session once a login to it met a client leaving,  *)
(* or its client logged in again without logging out.                        *)
SessionsFollowClients ==
    running =>
        \A s \in Session \ disturbed :
            /\ \A c \in Client : Has(c, s) => usermanager[s] = "alive" \/ CommandedOut(s)
            /\ Quiet /\ usermanager[s] = "alive" => \E c \in Client : Has(c, s)

(* A client that stays and whose command has an id of its own gets the       *)
(* answer of it, unless the gateway crashes.                                 *)
IdShared(k) == \E j \in Commands \ {k} : call[j].id = call[k].id
Settled(k) == \/ call[k].reached = call[k].client
              \/ connection[call[k].client] # "open" \/ IdShared(k)
CallsAnswered ==
    \A k \in Call : (k \in Commands) ~> (~running \/ (k \in Commands /\ Settled(k)))
=============================================================================
