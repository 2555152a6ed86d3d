------------------------- MODULE GuiGateway_proofs -------------------------
(***************************************************************************)
(* Proofs about GuiGateway, for any number of clients, commands and        *)
(* sessions, and any ids.                                                  *)
(*                                                                         *)
(* That the last client to leave is the one that logs the session out      *)
(* rests on a count: concurrentSessions, together with the answers that    *)
(* are yet to be counted, is the number of clients that have the session.  *)
(***************************************************************************)
EXTENDS GuiGateway, FiniteSetTheorems, TLAPS

-----------------------------------------------------------------------------
(* The inductive invariant.                                                *)

CallData ==
  [client : Client, id : Id, cmd : Command, session : Session \cup {None},
   thread : {"calling", "clearing", "done"},
   answer : {"none", "asked", "answered", "session", "count", "send", "erase", "over"},
   result : Session \cup {None}, to : Client \cup {None}, reached : Client \cup {None}]

Typed ==
  /\ connection \in [Client -> {"new", "open", "left", "gone"}]
  /\ sessionID \in [Client -> Session \cup {None}]
  /\ cmdClients \in [Id -> Client \cup {None}]
  /\ concurrentSessions \in [Session -> Nat]
  /\ call \in [Call -> CallData \cup {NoCall}]
  /\ logouts \in SUBSET Session
  /\ usermanager \in [Session -> {"unused", "alive", "gone"}]

\* WSDisconnect works for one client at a time, and that one is not connected any more
ClosingTyped ==
  \/ closing = Nobody
  \/ /\ \/ closing \in [at : {"leave", "forget"}, client : Client]
        \/ closing \in [at : {"check", "erase"}, client : Client, session : Session]
     /\ connection[closing.client] = "left"

\* where a command is follows from what is known of it
Progress(k) ==
  /\ call[k].thread = "calling" => call[k].answer = "none"
  /\ call[k].thread = "clearing" => call[k].answer # "none" /\ call[k].cmd = "logout"
  /\ call[k].answer \in {"none", "asked"} => call[k].result = None
  /\ call[k].answer \in {"session", "count"} => call[k].result \in Session
  /\ call[k].answer \in {"session", "count", "send"} => call[k].to \in Client

\* a session that anyone knows of was made by the user manager
Made(s) == s # None => usermanager[s] # "unused"
KnownAreMade ==
  /\ \A c \in Client : /\ connection[c] = "new" => sessionID[c] = None
                       /\ Made(sessionID[c])
  /\ \A k \in Commands : Made(call[k].session) /\ Made(call[k].result)

\* the command k has logged s out, or is to do it: it has been sent to the user manager
LogsOut(k, s) == call[k].answer # "none" /\ call[k].cmd = "logout" /\ call[k].session = s

\* a session that a client has logged out never lives again
LogoutsEnd ==
  \A k \in Commands, s \in Session :
    LogsOut(k, s) /\ call[k].answer # "asked" => usermanager[s] = "gone"

\* the sessions of which something is claimed
Claimed(s) == s \notin disturbed /\ \A k \in Commands : ~LogsOut(k, s)

\* the clients that have a session and are not yet counted out of it
Counted(c) == connection[c] = "open" \/ (closing.at = "leave" /\ closing.client = c)
Holders(s) == {c \in Client : sessionID[c] = s /\ Counted(c)}

\* the answers that are about to count one client more
Counts(k, s) == call[k].answer = "count" /\ call[k].result = s
Counting(s) == {k \in Call : Counts(k, s)}

Arrives(k, s) == call[k].result = s /\ call[k].answer \in {"answered", "session", "count"}

\* the number counted is that of the clients
CountIsRight(s) == concurrentSessions[s] + Cardinality(Counting(s)) = Cardinality(Holders(s))

\* who has a session, or is to get one, has one that lives
HeldLives(s) == Holders(s) # {} \/ Arriving(s) => usermanager[s] = "alive"

\* a session that lives has someone, or will get someone, or is about to be logged out
LivingIsHeld(s) == usermanager[s] = "alive" => Holders(s) # {} \/ Arriving(s) \/ Departing(s)

\* a session that is logged out has nobody, and nobody is to get it
Erasing(s) == closing.at = "erase" /\ closing.session = s
DepartingIsLeft(s) ==
  /\ Departing(s) => ~Arriving(s)
  /\ s \in logouts \/ Erasing(s) => Holders(s) = {}
  /\ Erasing(s) => s \in logouts \/ usermanager[s] # "alive"

Followed(s) == CountIsRight(s) /\ HeldLives(s) /\ LivingIsHeld(s) /\ DepartingIsLeft(s)

Inv ==
  /\ Typed /\ ClosingTyped
  /\ \A k \in Commands : Progress(k)
  /\ KnownAreMade /\ LogoutsEnd
  /\ \A s \in Session : Claimed(s) => Followed(s)

\* SetSession for a client that is gone ends the process, and with it all that is claimed
IInv == running => Inv
-----------------------------------------------------------------------------
(* What a step does to a command, and what follows for the sessions.       *)

\* command k goes on; all others stay where they are
Goes(k) ==
  /\ call' \in [Call -> CallData \cup {NoCall}]
  /\ call[k] \in CallData /\ call'[k] \in CallData
  /\ \A j \in Call \ {k} : call'[j] = call[j]
  /\ call'[k].cmd = call[k].cmd /\ call'[k].session = call[k].session
  /\ call'[k].client = call[k].client

LEMMA CommandsAreData ==
  ASSUME Typed, NEW k \in Call
  PROVE  /\ k \in Commands => call[k] \in CallData
         /\ call[k].thread \in {"calling", "clearing", "done"} => k \in Commands
         /\ call[k].answer \notin {"none"} => k \in Commands
         /\ call[k] \in CallData => k \in Commands
<1>1. call[k] \in CallData \/ call[k] = NoCall
  BY DEF Typed
<1>2. NoCall.thread = "new" /\ NoCall.answer = "none"
  BY DEF NoCall
<1>3. ASSUME call[k] \in CallData PROVE call[k].thread # "new"
  BY <1>3 DEF CallData
<1> QED
  BY <1>1, <1>2, <1>3 DEF Commands

LEMMA CallChanges ==
  ASSUME Typed, NEW k \in Call, NEW p \in CallData \cup {NoCall}, call' = [call EXCEPT ![k] = p]
  PROVE  /\ call' \in [Call -> CallData \cup {NoCall}]
         /\ call'[k] = p
         /\ \A j \in Call \ {k} : call'[j] = call[j]
BY DEF Typed

LEMMA CommandsStay ==
  ASSUME Typed, NEW k \in Call, Goes(k)
  PROVE  Commands' = Commands
<1>1. NoCall.thread = "new"
  BY DEF NoCall
<1>2. \A d \in CallData : d.thread # "new"
  BY DEF CallData
<1> QED
  BY <1>1, <1>2 DEF Commands, Goes

\* Where a session is left alone, what is claimed of it stays.
SessionStays(s) ==
  /\ Holders(s)' = Holders(s)
  /\ Counting(s)' = Counting(s)
  /\ Arriving(s)' <=> Arriving(s)
  /\ concurrentSessions'[s] = concurrentSessions[s]

OutsideStays(s) ==
  /\ usermanager'[s] = usermanager[s]
  /\ s \in logouts' <=> s \in logouts
  /\ Departing(s)' <=> Departing(s)
  /\ Erasing(s)' <=> Erasing(s)

LEMMA FollowedStays ==
  ASSUME NEW s \in Session, Followed(s), SessionStays(s), OutsideStays(s)
  PROVE  Followed(s)'
<1>1. CountIsRight(s)'
  BY DEF Followed, CountIsRight, SessionStays
<1>2. HeldLives(s)' /\ LivingIsHeld(s)'
  BY DEF Followed, HeldLives, LivingIsHeld, SessionStays, OutsideStays
<1>3. DepartingIsLeft(s)'
  BY DEF Followed, DepartingIsLeft, SessionStays, OutsideStays
<1> QED
  BY <1>1, <1>2, <1>3 DEF Followed

\* The answers on their way change only with the command that goes on.
LEMMA OthersGoNot ==
  ASSUME NEW k \in Call, NEW s \in Session, Goes(k)
  PROVE  /\ (Counts(k, s)' <=> Counts(k, s)) => Counting(s)' = Counting(s)
         /\ (Arrives(k, s)' <=> Arrives(k, s)) => (Arriving(s)' <=> Arriving(s))
         /\ Arrives(k, s)' => Arriving(s)'
         /\ ~Arrives(k, s)' /\ ~Arriving(s) => ~Arriving(s)'
<1>1. \A j \in Call \ {k} : (Counts(j, s)' <=> Counts(j, s)) /\ (Arrives(j, s)' <=> Arrives(j, s))
  BY DEF Goes, Counts, Arrives
<1>2. (Arriving(s) <=> \E j \in Call : Arrives(j, s)) /\ (Arriving(s)' <=> \E j \in Call : Arrives(j, s)')
  BY DEF Arriving, Arrives
<1> QED
  BY <1>1, <1>2 DEF Counting

\* What is claimed afterwards was claimed before: a logout that was sent stays sent.
LEMMA ClaimedBefore ==
  ASSUME Typed, NEW k \in Call, Goes(k), NEW s \in Session, Claimed(s)',
         disturbed \subseteq disturbed',
         call[k].answer # "none" => call'[k].answer # "none"
  PROVE  Claimed(s) /\ ~LogsOut(k, s)' /\ ~LogsOut(k, s)
<1>1. Commands' = Commands
  BY CommandsStay
<1>2. k \in Commands
  BY CommandsAreData DEF Goes
<1>3. ~LogsOut(k, s)'
  BY <1>1, <1>2 DEF Claimed
<1>4. ~LogsOut(k, s)
  BY <1>3 DEF LogsOut, Goes
<1>5. \A j \in Call \ {k} : LogsOut(j, s)' <=> LogsOut(j, s)
  <2> SUFFICES ASSUME NEW j \in Call \ {k} PROVE LogsOut(j, s)' <=> LogsOut(j, s)
    OBVIOUS
  <2>1. call'[j] = call[j]
    BY DEF Goes
  <2> QED
    BY <2>1 DEF LogsOut
<1>6. Commands \subseteq Call
  BY DEF Commands
<1> QED
  BY <1>1, <1>3, <1>4, <1>5, <1>6 DEF Claimed

\* The answers on their way can be counted.
LEMMA CountingIsFinite ==
  ASSUME GatewayAssumption
  PROVE  \A s : /\ IsFiniteSet(Counting(s)) /\ Cardinality(Counting(s)) \in Nat
                /\ IsFiniteSet(Holders(s)) /\ Cardinality(Holders(s)) \in Nat
<1>1. IsFiniteSet(Call) /\ IsFiniteSet(Client)
  BY FS_Interval DEF GatewayAssumption, Call, Client
<1>2. \A s : Counting(s) \subseteq Call /\ Holders(s) \subseteq Client
  BY DEF Counting, Holders
<1> QED
  BY <1>1, <1>2, FS_Subset, FS_CardinalityType
\* A step of a command that touches no session.
LEMMA CommandGoes ==
  ASSUME Inv, NEW k \in Call, Goes(k),
         UNCHANGED <<connection, sessionID, concurrentSessions, closing, outside>>,
         cmdClients' \in [Id -> Client \cup {None}],
         disturbed \subseteq disturbed',
         Progress(k)', call'[k].result = call[k].result,
         call[k].answer # "none" => call'[k].answer # "none",
         call[k].answer \in {"none", "asked"} => call'[k].answer \in {"none", "asked"},
         \A s \in Session : s \notin disturbed' =>
            (Counts(k, s)' <=> Counts(k, s)) /\ (Arrives(k, s)' <=> Arrives(k, s))
  PROVE  Inv'
<1>1. Typed' /\ ClosingTyped'
  BY DEF Inv, Typed, ClosingTyped, Goes, outside
<1>2. Commands' = Commands /\ k \in Commands /\ Commands \subseteq Call
  BY CommandsStay, CommandsAreData DEF Inv, Goes, Commands
<1>3. \A j \in Commands' : Progress(j)'
  <2> SUFFICES ASSUME NEW j \in Commands, j # k PROVE Progress(j)'
    BY <1>2
  <2>1. call'[j] = call[j] /\ Progress(j)
    BY <1>2 DEF Inv, Goes
  <2> QED
    BY <2>1 DEF Progress
<1>4. KnownAreMade'
  <2>1. \A j \in Commands : /\ call'[j].session = call[j].session
                            /\ call'[j].result = call[j].result
    BY <1>2 DEF Goes
  <2> QED
    BY <1>2, <2>1 DEF Inv, KnownAreMade, Made, outside
<1>5. LogoutsEnd'
  <2> SUFFICES ASSUME NEW j \in Commands, NEW s \in Session, LogsOut(j, s)', call'[j].answer # "asked"
               PROVE  usermanager[s] = "gone"
    BY <1>2 DEF LogoutsEnd, outside
  <2>1. LogsOut(j, s) /\ call[j].answer # "asked"
    <3>1. CASE j = k
      BY <3>1 DEF LogsOut, Goes
    <3>2. CASE j # k
      BY <1>2, <3>2 DEF LogsOut, Goes
    <3> QED
      BY <3>1, <3>2
  <2> QED
    BY <2>1 DEF Inv, LogoutsEnd
<1>6. ASSUME NEW s \in Session, Claimed(s)' PROVE Followed(s)'
  <2>1. Claimed(s)
    BY <1>6, ClaimedBefore DEF Inv
  <2>2. Counting(s)' = Counting(s) /\ (Arriving(s)' <=> Arriving(s))
    BY <1>6, OthersGoNot DEF Claimed
  <2>3. SessionStays(s)
    BY <2>2 DEF SessionStays, Holders, Counted
  <2>4. OutsideStays(s)
    BY DEF OutsideStays, Departing, Erasing, outside
  <2> QED
    BY <2>1, <2>3, <2>4, FollowedStays DEF Inv
<1> QED
  BY <1>1, <1>3, <1>4, <1>5, <1>6 DEF Inv

LEMMA CallFromClientKeeps ==
  ASSUME Inv, NEW k \in Call, callFromClient(k)
  PROVE  Inv'
<1>1. call[k] \in CallData /\ k \in Commands
  BY CommandsAreData DEF Inv, callFromClient
<1>2. Progress(k)
  BY <1>1 DEF Inv
<1>3. call[k].answer = "none" /\ call[k].result = None
  BY <1>2 DEF Progress, callFromClient
<1>4. CASE Listed(call[k].client)
  <2>0. PICK th \in {"clearing", "done"} :
          /\ th = IF call[k].cmd = "logout" THEN "clearing" ELSE "done"
          /\ th = "clearing" => call[k].cmd = "logout"
    OBVIOUS
  <2>1. PICK p \in CallData :
          /\ call' = [call EXCEPT ![k] = p]
          /\ p = [call[k] EXCEPT !.answer = "asked", !.thread = th]
    <3>1. call' = [call EXCEPT ![k].answer = "asked", ![k].thread = th]
      BY <1>4, <2>0 DEF callFromClient
    <3>2. PICK p : p = [call[k] EXCEPT !.answer = "asked", !.thread = th]
      OBVIOUS
    <3>3. p \in CallData
      BY <1>1, <3>2 DEF CallData
    <3>4. call' = [call EXCEPT ![k] = p]
      BY <3>1, <3>2
    <3> QED
      BY <3>2, <3>3, <3>4
  <2>2. /\ p.cmd = call[k].cmd /\ p.session = call[k].session /\ p.client = call[k].client
        /\ p.answer = "asked" /\ p.result = None /\ p.thread \in {"clearing", "done"}
        /\ p.thread = "clearing" => p.cmd = "logout"
    BY <1>1, <1>3, <2>0, <2>1 DEF CallData
  <2>3. Goes(k) /\ call'[k] = p
    BY <1>1, <2>1, <2>2, CallChanges DEF Inv, Goes
  <2>4. Progress(k)'
    BY <2>2, <2>3 DEF Progress
  <2>5. cmdClients' \in [Id -> Client \cup {None}]
    <3>1. call[k].client \in Client
      BY <1>1 DEF CallData
    <3> QED
      BY <1>4, <3>1 DEF callFromClient, Inv, Typed
  <2>6. \A s \in Session :
           (Counts(k, s)' <=> Counts(k, s)) /\ (Arrives(k, s)' <=> Arrives(k, s))
    BY <1>3, <2>2, <2>3 DEF Counts, Arrives
  <2> QED
    BY <1>3, <2>2, <2>3, <2>4, <2>5, <2>6, CommandGoes DEF callFromClient
<1>5. CASE ~Listed(call[k].client)
  <2>1. PICK p \in CallData :
          call' = [call EXCEPT ![k] = p] /\ p = [call[k] EXCEPT !.thread = "done"]
    BY <1>1, <1>5 DEF callFromClient, CallData
  <2>2. /\ p.cmd = call[k].cmd /\ p.session = call[k].session /\ p.client = call[k].client
        /\ p.answer = "none" /\ p.result = None /\ p.thread = "done"
    BY <1>1, <1>3, <2>1 DEF CallData
  <2>3. Goes(k) /\ call'[k] = p
    BY <1>1, <2>1, <2>2, CallChanges DEF Inv, Goes
  <2>4. Progress(k)'
    BY <2>2, <2>3 DEF Progress
  <2>6. \A s \in Session :
           (Counts(k, s)' <=> Counts(k, s)) /\ (Arrives(k, s)' <=> Arrives(k, s))
    BY <1>3, <2>2, <2>3 DEF Counts, Arrives
  <2>7. cmdClients' \in [Id -> Client \cup {None}]
    BY <1>5 DEF callFromClient, Inv, Typed
  <2> QED
    BY <1>3, <2>2, <2>3, <2>4, <2>6, <2>7, CommandGoes DEF callFromClient
<1> QED
  BY <1>4, <1>5

LEMMA CallBackReceivedKeeps ==
  ASSUME Inv, NEW k \in Call, callBackReceived(k)
  PROVE  Inv'
<1>1. call[k] \in CallData /\ k \in Commands
  BY CommandsAreData DEF Inv, callBackReceived
<1>2. Progress(k)
  BY <1>1 DEF Inv
<1>3. PICK c \in Client \cup {None} : c = cmdClients[call[k].id]
  BY <1>1 DEF CallData, Inv, Typed
<1>4. PICK a \in {"over", "send", "session"} :
         /\ a = CASE c = None -> "over" [] c # None /\ call[k].result = None -> "send"
                  [] OTHER -> "session"
         /\ c = None <=> a = "over"
         /\ a = "session" => call[k].result # None
         /\ a = "send" => call[k].result = None
  BY SMT
<1>5. PICK p \in CallData :
        /\ call' = [call EXCEPT ![k] = p] /\ p = [call[k] EXCEPT !.to = c, !.answer = a]
  <2>1. call' = [call EXCEPT ![k].to = c, ![k].answer = a]
    BY <1>3, <1>4 DEF callBackReceived
  <2>2. PICK p : p = [call[k] EXCEPT !.to = c, !.answer = a]
    OBVIOUS
  <2>3. p \in CallData
    BY <1>1, <2>2 DEF CallData
  <2>4. call' = [call EXCEPT ![k] = p]
    BY <2>1, <2>2
  <2> QED
    BY <2>2, <2>3, <2>4
<1>6. /\ p.cmd = call[k].cmd /\ p.session = call[k].session /\ p.client = call[k].client
      /\ p.answer = a /\ p.result = call[k].result /\ p.thread = call[k].thread /\ p.to = c
  BY <1>1, <1>5 DEF CallData
<1>7. Goes(k) /\ call'[k] = p
  BY <1>1, <1>5, <1>6, CallChanges DEF Inv, Goes
<1>8. call[k].answer = "answered" /\ call[k].result \in Session \cup {None} /\ None \notin Session
  BY <1>1, GatewayAssumption DEF callBackReceived, CallData, Session
<1>9. Progress(k)'
  BY <1>2, <1>4, <1>6, <1>7, <1>8 DEF Progress
<1>10. disturbed' = disturbed \cup ((IF c = None THEN {call[k].result} ELSE {}) \ {None})
  BY <1>3 DEF callBackReceived, Disturb
<1>11. \A s \in Session : s \notin disturbed' =>
           (Counts(k, s)' <=> Counts(k, s)) /\ (Arrives(k, s)' <=> Arrives(k, s))
  BY <1>4, <1>6, <1>7, <1>8, <1>10 DEF Counts, Arrives
<1>12. /\ UNCHANGED <<connection, sessionID, concurrentSessions, closing, outside>>
       /\ cmdClients' \in [Id -> Client \cup {None}]
  BY DEF callBackReceived, maps, Inv, Typed
<1> QED
  BY <1>4, <1>6, <1>7, <1>8, <1>9, <1>10, <1>11, <1>12, CommandGoes

LEMMA SendAnswerKeeps ==
  ASSUME Inv, NEW k \in Call, SendAnswer(k)
  PROVE  Inv'
<1>1. call[k] \in CallData /\ k \in Commands
  BY CommandsAreData DEF Inv, SendAnswer
<1>2. Progress(k)
  BY <1>1 DEF Inv
<1>3. call[k].to \in Client /\ call[k].answer = "send"
  BY <1>2 DEF Progress, SendAnswer
<1>4. PICK p \in CallData :
        /\ call' = [call EXCEPT ![k] = p]
        /\ \/ p = [call[k] EXCEPT !.reached = call[k].to, !.answer = "erase"]
           \/ p = [call[k] EXCEPT !.answer = "over"]
  BY <1>1, <1>3 DEF SendAnswer, CallData
<1>5. /\ p.cmd = call[k].cmd /\ p.session = call[k].session /\ p.client = call[k].client
      /\ p.answer \in {"erase", "over"} /\ p.result = call[k].result /\ p.thread = call[k].thread
  BY <1>1, <1>4 DEF CallData
<1>6. Goes(k) /\ call'[k] = p
  BY <1>1, <1>4, <1>5, CallChanges DEF Inv, Goes
<1>7. Progress(k)'
  BY <1>2, <1>3, <1>5, <1>6 DEF Progress
<1>8. \A s \in Session : (Counts(k, s)' <=> Counts(k, s)) /\ (Arrives(k, s)' <=> Arrives(k, s))
  BY <1>3, <1>5, <1>6 DEF Counts, Arrives
<1>9. /\ UNCHANGED <<connection, sessionID, concurrentSessions, closing, outside, disturbed>>
      /\ cmdClients' \in [Id -> Client \cup {None}]
  BY DEF SendAnswer, maps, Inv, Typed
<1> QED
  BY <1>3, <1>5, <1>6, <1>7, <1>8, <1>9, CommandGoes

LEMMA EraseCommandKeeps ==
  ASSUME Inv, NEW k \in Call, EraseCommand(k)
  PROVE  Inv'
<1>1. call[k] \in CallData /\ k \in Commands
  BY CommandsAreData DEF Inv, EraseCommand
<1>2. Progress(k) /\ call[k].answer = "erase"
  BY <1>1 DEF Inv, EraseCommand
<1>4. PICK p \in CallData :
        call' = [call EXCEPT ![k] = p] /\ p = [call[k] EXCEPT !.answer = "over"]
  BY <1>1 DEF EraseCommand, CallData
<1>5. /\ p.cmd = call[k].cmd /\ p.session = call[k].session /\ p.client = call[k].client
      /\ p.answer = "over" /\ p.result = call[k].result /\ p.thread = call[k].thread
  BY <1>1, <1>4 DEF CallData
<1>6. Goes(k) /\ call'[k] = p
  BY <1>1, <1>4, <1>5, CallChanges DEF Inv, Goes
<1>7. Progress(k)'
  BY <1>2, <1>5, <1>6 DEF Progress
<1>8. \A s \in Session : (Counts(k, s)' <=> Counts(k, s)) /\ (Arrives(k, s)' <=> Arrives(k, s))
  BY <1>2, <1>5, <1>6 DEF Counts, Arrives
<1>9. /\ UNCHANGED <<connection, sessionID, concurrentSessions, closing, outside, disturbed>>
      /\ cmdClients' \in [Id -> Client \cup {None}]
  BY DEF EraseCommand, Inv, Typed
<1> QED
  BY <1>2, <1>5, <1>6, <1>7, <1>8, <1>9, CommandGoes
\* What a step of a command leaves of the commands' part of the invariant.
LEMMA CommandsKeep ==
  ASSUME Inv, NEW k \in Call, Goes(k), Progress(k)',
         \A s \in Session : /\ usermanager[s] = "gone" => usermanager'[s] = "gone"
                            /\ usermanager[s] # "unused" => usermanager'[s] # "unused",
         \A s \in Session : LogsOut(k, s)' /\ call'[k].answer # "asked" => usermanager'[s] = "gone",
         Made(call[k].result)',
         \A c \in Client : /\ connection'[c] = "new" => sessionID'[c] = None
                           /\ Made(sessionID[c])'
  PROVE  (\A j \in Commands : Progress(j))' /\ KnownAreMade' /\ LogoutsEnd'
<1>1. Commands' = Commands /\ k \in Commands /\ Commands \subseteq Call
  BY CommandsStay, CommandsAreData DEF Inv, Goes, Commands
<1>2. \A j \in Commands, s \in Session : j # k => (LogsOut(j, s)' <=> LogsOut(j, s))
  BY <1>1 DEF Goes, LogsOut
<1>3. \A j \in Commands : Progress(j)'
  <2> SUFFICES ASSUME NEW j \in Commands, j # k PROVE Progress(j)'
    BY <1>1
  <2>1. call'[j] = call[j] /\ Progress(j)
    BY <1>1 DEF Inv, Goes
  <2> QED
    BY <2>1 DEF Progress
<1>4. KnownAreMade'
  <2>0. Typed /\ KnownAreMade
    BY DEF Inv
  <2>1. \A j \in Commands : Made(call[j].session)' /\ Made(call[j].result)'
    <3> SUFFICES ASSUME NEW j \in Commands PROVE Made(call[j].session)' /\ Made(call[j].result)'
      OBVIOUS
    <3>1. /\ Made(call[j].session) /\ Made(call[j].result)
          /\ call[j].session \in Session \cup {None} /\ call[j].result \in Session \cup {None}
      <4>1. call[j] \in CallData
        BY <1>1, <2>0, CommandsAreData
      <4> QED
        BY <2>0, <4>1 DEF KnownAreMade, CallData
    <3>2. call'[j].session = call[j].session
      BY <1>1 DEF Goes
    <3>3. Made(call[j].session)'
      BY <3>1, <3>2 DEF Made
    <3>4. Made(call[j].result)'
      <4>1. CASE j = k
        BY <4>1
      <4>2. CASE j # k
        <5>1. call'[j] = call[j]
          BY <1>1, <4>2 DEF Goes
        <5> QED
          BY <3>1, <5>1 DEF Made
      <4> QED
        BY <4>1, <4>2
    <3> QED
      BY <3>3, <3>4
  <2> QED
    BY <1>1, <2>1 DEF KnownAreMade
<1>5. LogoutsEnd'
  <2> SUFFICES ASSUME NEW j \in Commands, NEW s \in Session, LogsOut(j, s)', call'[j].answer # "asked"
               PROVE  usermanager'[s] = "gone"
    BY <1>1 DEF LogoutsEnd
  <2>1. CASE j = k
    BY <2>1
  <2>2. CASE j # k
    <3>1. LogsOut(j, s) /\ call[j].answer # "asked"
      BY <1>1, <1>2, <2>2 DEF Goes
    <3>2. usermanager[s] = "gone"
      BY <3>1 DEF Inv, LogoutsEnd
    <3> QED
      BY <3>2
  <2> QED
    BY <2>1, <2>2
<1> QED
  BY <1>1, <1>3, <1>4, <1>5

LEMMA NoneIsNoSession == None \notin Session
BY GatewayAssumption DEF Session

\* The session of a client that logs out is let go of; one that came in between is disturbed.
LEMMA ClearSessionKeeps ==
  ASSUME Inv, NEW k \in Call, ClearSession(k)
  PROVE  Inv'
<1>1. call[k] \in CallData /\ k \in Commands
  BY CommandsAreData DEF Inv, ClearSession
<1>2. Progress(k) /\ call[k].thread = "clearing"
  BY <1>1 DEF Inv, ClearSession
<1>3. call[k].answer # "none" /\ call[k].cmd = "logout"
  BY <1>2 DEF Progress
<1>4. PICK p \in CallData :
        call' = [call EXCEPT ![k] = p] /\ p = [call[k] EXCEPT !.thread = "done"]
  BY <1>1 DEF ClearSession, CallData
<1>5. /\ p.cmd = call[k].cmd /\ p.session = call[k].session /\ p.client = call[k].client
      /\ p.answer = call[k].answer /\ p.result = call[k].result /\ p.thread = "done"
      /\ p.to = call[k].to
  BY <1>1, <1>4 DEF CallData
<1>6. Goes(k) /\ call'[k] = p
  BY <1>1, <1>4, <1>5, CallChanges DEF Inv, Goes
<1>7. PICK c \in Client : c = call[k].client
  BY <1>1 DEF CallData
<1>8. /\ sessionID' \in [Client -> Session \cup {None}]
      /\ \A d \in Client : sessionID'[d] = sessionID[d] \/ (d = c /\ sessionID'[d] = None)
      /\ disturbed' = disturbed \cup (({sessionID[c]} \ {call[k].session}) \ {None})
  BY <1>7 DEF ClearSession, Disturb, Inv, Typed
<1>9. /\ UNCHANGED <<connection, cmdClients, concurrentSessions, closing, outside>>
  BY DEF ClearSession
<1>10. Typed' /\ ClosingTyped'
  BY <1>6, <1>8, <1>9 DEF Inv, Typed, ClosingTyped, Goes, outside
<1>11. (\A j \in Commands : Progress(j))' /\ KnownAreMade' /\ LogoutsEnd'
  <2>1. Progress(k)'
    BY <1>2, <1>5, <1>6 DEF Progress
  <2>2. \A s \in Session : LogsOut(k, s)' /\ call'[k].answer # "asked" => usermanager'[s] = "gone"
    BY <1>1, <1>5, <1>6, <1>9 DEF Inv, LogoutsEnd, LogsOut, outside
  <2>3. Made(call[k].result)'
    BY <1>1, <1>5, <1>6, <1>9 DEF Inv, KnownAreMade, Made, outside
  <2>4. \A d \in Client : /\ connection'[d] = "new" => sessionID'[d] = None
                          /\ Made(sessionID[d])'
    BY <1>8, <1>9 DEF Inv, KnownAreMade, Made, outside
  <2> QED
    BY <1>6, <1>9, <2>1, <2>2, <2>3, <2>4, CommandsKeep DEF outside
<1>12. ASSUME NEW s \in Session, Claimed(s)' PROVE Followed(s)'
  <2>1. Claimed(s) /\ ~LogsOut(k, s)
    BY <1>3, <1>5, <1>6, <1>8, <1>12, ClaimedBefore DEF Inv
  <2>2. s # sessionID[c]
    <3>1. s # call[k].session
      BY <1>3, <2>1 DEF LogsOut
    <3> QED
      BY <1>8, <1>12, <3>1, NoneIsNoSession DEF Claimed
  <2>3. Counting(s)' = Counting(s) /\ (Arriving(s)' <=> Arriving(s))
    BY <1>5, <1>6, OthersGoNot DEF Counts, Arrives
  <2>4. Holders(s)' = Holders(s)
    <3>1. \A d \in Client : sessionID'[d] = s <=> sessionID[d] = s
      BY <1>8, <2>2, NoneIsNoSession
    <3> QED
      BY <1>9, <3>1 DEF Holders, Counted
  <2>5. SessionStays(s) /\ OutsideStays(s)
    BY <1>9, <2>3, <2>4 DEF SessionStays, OutsideStays, Departing, Erasing, outside
  <2> QED
    BY <2>1, <2>5, FollowedStays DEF Inv
<1> QED
  BY <1>10, <1>11, <1>12 DEF Inv
\* The user manager gives a login a session that it has not ended; one that is about to be
\* logged out is disturbed by it.
LEMMA LoginKeeps ==
  ASSUME Inv, NEW k \in Call, NEW r \in Session,
         call[k].answer = "asked", call[k].cmd = "login", usermanager[r] # "gone",
         call' = [call EXCEPT ![k].answer = "answered", ![k].result = r],
         usermanager' = [usermanager EXCEPT ![r] = "alive"],
         Disturb(IF Departing(r) THEN {r} ELSE {}),
         UNCHANGED <<maps, closing, logouts, running>>
  PROVE  Inv'
<1>1. call[k] \in CallData /\ k \in Commands
  BY CommandsAreData DEF Inv
<1>2. Progress(k)
  BY <1>1 DEF Inv
<1>3. PICK p \in CallData :
        call' = [call EXCEPT ![k] = p] /\ p = [call[k] EXCEPT !.answer = "answered", !.result = r]
  <2>1. PICK p : p = [call[k] EXCEPT !.answer = "answered", !.result = r]
    OBVIOUS
  <2>2. p \in CallData
    BY <1>1, <2>1 DEF CallData
  <2>3. call' = [call EXCEPT ![k] = p]
    BY <2>1
  <2> QED
    BY <2>1, <2>2, <2>3
<1>4. /\ p.cmd = call[k].cmd /\ p.session = call[k].session /\ p.client = call[k].client
      /\ p.answer = "answered" /\ p.result = r /\ p.thread = call[k].thread
  BY <1>1, <1>3 DEF CallData
<1>5. Goes(k) /\ call'[k] = p
  <2>1. /\ call' \in [Call -> CallData \cup {NoCall}] /\ call'[k] = p
        /\ \A j \in Call \ {k} : call'[j] = call[j]
    BY <1>3, CallChanges DEF Inv
  <2> QED
    BY <1>1, <1>4, <2>1 DEF Goes
<1>6. /\ usermanager' \in [Session -> {"unused", "alive", "gone"}] /\ usermanager'[r] = "alive"
      /\ \A s \in Session \ {r} : usermanager'[s] = usermanager[s]
  BY DEF Inv, Typed
<1>7. disturbed' = disturbed \cup ((IF Departing(r) THEN {r} ELSE {}) \ {None})
  BY DEF Disturb
<1>8. Typed' /\ ClosingTyped'
  BY <1>5, <1>6 DEF Inv, Typed, ClosingTyped, Goes, maps
<1>9. (\A j \in Commands : Progress(j))' /\ KnownAreMade' /\ LogoutsEnd'
  <2>1. Progress(k)'
    BY <1>2, <1>4, <1>5 DEF Progress
  <2>2. \A s \in Session : ~LogsOut(k, s)'
    BY <1>4, <1>5 DEF LogsOut
  <2>3. Made(call[k].result)'
    BY <1>4, <1>5, <1>6 DEF Made
  <2>4. \A s \in Session : usermanager[s] # "unused" => usermanager'[s] # "unused"
    BY <1>6
  <2>5. \A d \in Client : /\ connection'[d] = "new" => sessionID'[d] = None
                          /\ Made(sessionID[d])'
    BY <2>4 DEF Inv, Typed, KnownAreMade, Made, maps
  <2> QED
    BY <1>5, <1>6, <2>1, <2>2, <2>3, <2>4, <2>5, CommandsKeep
<1>10. ASSUME NEW s \in Session, Claimed(s)' PROVE Followed(s)'
  <2>1. Claimed(s)
    BY <1>4, <1>5, <1>7, <1>10, ClaimedBefore DEF Inv
  <2>2. /\ Counting(s)' = Counting(s)
        /\ Holders(s)' = Holders(s) /\ concurrentSessions'[s] = concurrentSessions[s]
    BY <1>4, <1>5, OthersGoNot DEF Counts, Holders, Counted, maps
  <2>3. (Departing(s)' <=> Departing(s)) /\ (Erasing(s)' <=> Erasing(s))
    BY DEF Departing, Erasing
  <2>4. CASE s = r
    <3>1. ~Departing(s)
      BY <1>7, <1>10, <2>4, NoneIsNoSession DEF Claimed
    <3>2. Arriving(s)'
      BY <1>4, <1>5, <2>4, OthersGoNot DEF Arrives
    <3>3. CountIsRight(s)'
      BY <2>1, <2>2 DEF Inv, Followed, CountIsRight
    <3>4. HeldLives(s)' /\ LivingIsHeld(s)'
      BY <1>6, <2>4, <3>2 DEF HeldLives, LivingIsHeld
    <3>5. DepartingIsLeft(s)'
      BY <2>3, <3>1 DEF DepartingIsLeft, Departing, Erasing
    <3> QED
      BY <3>3, <3>4, <3>5 DEF Followed
  <2>5. CASE s # r
    <3>1. Arriving(s)' <=> Arriving(s)
      BY <1>2, <1>4, <1>5, <2>5, OthersGoNot DEF Arrives
    <3>2. SessionStays(s) /\ OutsideStays(s)
      BY <1>6, <2>2, <2>3, <2>5, <3>1 DEF SessionStays, OutsideStays
    <3> QED
      BY <2>1, <3>2, FollowedStays DEF Inv
  <2> QED
    BY <2>4, <2>5
<1> QED
  BY <1>8, <1>9, <1>10 DEF Inv

\* A session that the user manager ends for a client is one of which nothing is claimed.
LEMMA EndedIs ==
  ASSUME Typed, NEW r \in Session
  PROVE  /\ Ended(r) \in [Session -> {"unused", "alive", "gone"}]
         /\ usermanager[r] # "unused" => Ended(r)[r] = "gone"
         /\ Ended(r)[r] # "alive"
         /\ \A s \in Session \ {r} : Ended(r)[s] = usermanager[s]
         /\ \A s \in Session : /\ usermanager[s] = "gone" => Ended(r)[s] = "gone"
                               /\ usermanager[s] # "unused" => Ended(r)[s] # "unused"
BY DEF Typed, Ended

LEMMA RefusalKeeps ==
  ASSUME Inv, NEW k \in Call, call[k].answer = "asked",
         call' = [call EXCEPT ![k].answer = "answered"],
         usermanager' = IF call[k].cmd = "login" \/ call[k].session = None THEN usermanager
                        ELSE Ended(call[k].session),
         UNCHANGED <<maps, closing, logouts, running, disturbed>>
  PROVE  Inv'
<1>1. call[k] \in CallData /\ k \in Commands
  BY CommandsAreData DEF Inv
<1>2. Progress(k) /\ call[k].result = None
  BY <1>1 DEF Inv, Progress
<1>3. PICK p \in CallData :
        call' = [call EXCEPT ![k] = p] /\ p = [call[k] EXCEPT !.answer = "answered"]
  BY <1>1 DEF CallData
<1>4. /\ p.cmd = call[k].cmd /\ p.session = call[k].session /\ p.client = call[k].client
      /\ p.answer = "answered" /\ p.result = call[k].result /\ p.thread = call[k].thread
  BY <1>1, <1>3 DEF CallData
<1>5. Goes(k) /\ call'[k] = p
  BY <1>1, <1>3, <1>4, CallChanges DEF Inv, Goes
<1>6. /\ usermanager' \in [Session -> {"unused", "alive", "gone"}]
      /\ \A s \in Session : /\ usermanager[s] = "gone" => usermanager'[s] = "gone"
                            /\ usermanager[s] # "unused" => usermanager'[s] # "unused"
                            /\ LogsOut(k, s) => usermanager'[s] = "gone"
                            /\ ~LogsOut(k, s) => usermanager'[s] = usermanager[s]
  <2>0. Typed /\ call[k].session \in Session \cup {None} /\ call[k].cmd \in {"login", "logout"}
    BY <1>1 DEF Inv, CallData, Command
  <2>1. CASE call[k].cmd = "login" \/ call[k].session = None
    BY <2>0, <2>1, NoneIsNoSession DEF Typed, LogsOut
  <2>2. CASE ~(call[k].cmd = "login" \/ call[k].session = None)
    <3>1. PICK r \in Session : r = call[k].session
      BY <2>0, <2>2
    <3>2. usermanager' = Ended(r) /\ call[k].cmd = "logout"
      BY <2>0, <2>2, <3>1
    <3>3. usermanager[r] # "unused"
      BY <1>1, <3>1, NoneIsNoSession DEF Inv, KnownAreMade, Made
    <3>4. \A s \in Session : LogsOut(k, s) <=> s = r
      BY <3>1, <3>2 DEF LogsOut
    <3> QED
      BY <2>0, <3>2, <3>3, <3>4, EndedIs
  <2> QED
    BY <2>1, <2>2
<1>8. Typed' /\ ClosingTyped'
  BY <1>5, <1>6 DEF Inv, Typed, ClosingTyped, Goes, maps
<1>9. (\A j \in Commands : Progress(j))' /\ KnownAreMade' /\ LogoutsEnd'
  <2>1. Progress(k)'
    BY <1>2, <1>4, <1>5 DEF Progress
  <2>2. \A s \in Session : LogsOut(k, s)' => usermanager'[s] = "gone"
    BY <1>4, <1>5, <1>6 DEF LogsOut
  <2>3. Made(call[k].result)'
    BY <1>2, <1>4, <1>5 DEF Made
  <2>5. \A d \in Client : /\ connection'[d] = "new" => sessionID'[d] = None
                          /\ Made(sessionID[d])'
    BY <1>6 DEF Inv, Typed, KnownAreMade, Made, maps
  <2> QED
    BY <1>5, <1>6, <2>1, <2>2, <2>3, <2>5, CommandsKeep
<1>10. ASSUME NEW s \in Session, Claimed(s)' PROVE Followed(s)'
  <2>1. Claimed(s) /\ ~LogsOut(k, s)
    BY <1>4, <1>5, <1>10, ClaimedBefore DEF Inv
  <2>2. Counting(s)' = Counting(s) /\ (Arriving(s)' <=> Arriving(s))
    BY <1>2, <1>4, <1>5, NoneIsNoSession, OthersGoNot DEF Counts, Arrives
  <2>3. SessionStays(s) /\ OutsideStays(s)
    BY <1>6, <2>1, <2>2
    DEF SessionStays, OutsideStays, Holders, Counted, Departing, Erasing, maps
  <2> QED
    BY <2>1, <2>3, FollowedStays DEF Inv
<1> QED
  BY <1>8, <1>9, <1>10 DEF Inv

LEMMA UserManagerKeeps ==
  ASSUME Inv, NEW k \in Call, UserManager(k)
  PROVE  Inv'
BY LoginKeeps, RefusalKeeps DEF UserManager
\* A client that has no session is given one: from then on it holds it, and is yet to be counted.
LEMMA SetSessionKeeps ==
  ASSUME Inv, GatewayAssumption, NEW k \in Call, SetSession(k), running'
  PROVE  Inv'
<1>1. call[k] \in CallData /\ k \in Commands /\ call[k].answer = "session"
  BY CommandsAreData DEF Inv, SetSession
<1>2. Progress(k)
  BY <1>1 DEF Inv
<1>3. PICK c \in Client, r \in Session : c = call[k].to /\ r = call[k].result
  BY <1>1, <1>2 DEF Progress
<1>4. PICK p \in CallData :
        call' = [call EXCEPT ![k] = p] /\ p = [call[k] EXCEPT !.answer = "count"]
  BY <1>1 DEF SetSession, CallData
<1>5. /\ p.cmd = call[k].cmd /\ p.session = call[k].session /\ p.client = call[k].client
      /\ p.answer = "count" /\ p.result = r /\ p.thread = call[k].thread /\ p.to = c
  BY <1>1, <1>3, <1>4 DEF CallData
<1>6. Goes(k) /\ call'[k] = p
  <2>1. /\ call' \in [Call -> CallData \cup {NoCall}] /\ call'[k] = p
        /\ \A j \in Call \ {k} : call'[j] = call[j]
    BY <1>4, CallChanges DEF Inv
  <2> QED
    BY <1>1, <1>5, <2>1 DEF Goes
<1>7. /\ connection[c] \in {"open", "left"}
      /\ sessionID' = [sessionID EXCEPT ![c] = r]
  BY <1>3 DEF SetSession, Listed
<1>8. /\ sessionID' \in [Client -> Session \cup {None}] /\ sessionID'[c] = r
      /\ \A d \in Client \ {c} : sessionID'[d] = sessionID[d]
  BY <1>7 DEF Inv, Typed
<1>9. disturbed' = disturbed \cup
        ({sessionID[c], IF connection[c] = "left" THEN r ELSE None} \ {None})
  BY <1>3 DEF SetSession, Disturb
<1>10. UNCHANGED <<connection, cmdClients, concurrentSessions, closing, outside>>
  BY DEF SetSession
<1>11. Typed' /\ ClosingTyped'
  BY <1>6, <1>8, <1>10 DEF Inv, Typed, ClosingTyped, Goes, outside
<1>12. (\A j \in Commands : Progress(j))' /\ KnownAreMade' /\ LogoutsEnd'
  <2>1. Progress(k)'
    BY <1>2, <1>5, <1>6, <1>1 DEF Progress
  <2>2. \A s \in Session : LogsOut(k, s)' /\ call'[k].answer # "asked" => usermanager'[s] = "gone"
    BY <1>1, <1>5, <1>6, <1>10 DEF Inv, LogoutsEnd, LogsOut, outside
  <2>3. usermanager'[r] # "unused"
    BY <1>1, <1>3, <1>10, NoneIsNoSession DEF Inv, KnownAreMade, Made, outside
  <2>4. Made(call[k].result)'
    BY <1>5, <1>6, <2>3 DEF Made
  <2>5. \A d \in Client : /\ connection'[d] = "new" => sessionID'[d] = None
                          /\ Made(sessionID[d])'
    BY <1>7, <1>8, <1>10, <2>3 DEF Inv, KnownAreMade, Made, outside
  <2> QED
    BY <1>6, <1>10, <2>1, <2>2, <2>4, <2>5, CommandsKeep DEF outside
<1>13. ASSUME NEW s \in Session, Claimed(s)' PROVE Followed(s)'
  <2>1. Claimed(s) /\ Followed(s)
    BY <1>5, <1>6, <1>9, <1>13, ClaimedBefore DEF Inv
  <2>2. s # sessionID[c] /\ (s = r => connection[c] = "open")
    BY <1>7, <1>9, <1>13, NoneIsNoSession DEF Claimed
  <2>3. Arriving(s)' <=> Arriving(s)
    BY <1>1, <1>3, <1>5, <1>6, OthersGoNot DEF Arrives
  <2>4. OutsideStays(s)
    BY <1>10 DEF OutsideStays, Departing, Erasing, outside
  <2>5. \A d \in Client : Counted(d)' <=> Counted(d)
    BY <1>10 DEF Counted
  <2>6. CASE s = r
    <3>1. Arriving(s) /\ ~Departing(s)
      <4>1. Arriving(s)
        BY <1>1, <1>3, <2>6 DEF Arriving
      <4> QED
        BY <2>1, <4>1 DEF Followed, DepartingIsLeft
    <3>2. Holders(s)' = Holders(s) \cup {c} /\ c \notin Holders(s)
      <4>1. Counted(c)
        BY <2>2, <2>6 DEF Counted
      <4> QED
        BY <1>8, <2>2, <2>5, <2>6, <4>1 DEF Holders
    <3>3. Counting(s)' = Counting(s) \cup {k} /\ k \notin Counting(s)
      <4>1. \A j \in Call \ {k} : Counts(j, s)' <=> Counts(j, s)
        BY <1>6 DEF Goes, Counts
      <4>2. Counts(k, s)' /\ ~Counts(k, s)
        BY <1>1, <1>5, <1>6, <2>6 DEF Counts
      <4> QED
        BY <4>1, <4>2 DEF Counting
    <3>4. CountIsRight(s)'
      <4>1. /\ Cardinality(Holders(s)') = Cardinality(Holders(s)) + 1
            /\ Cardinality(Counting(s)') = Cardinality(Counting(s)) + 1
        BY <3>2, <3>3, CountingIsFinite, FS_AddElement
      <4>2. /\ Cardinality(Holders(s)) \in Nat /\ Cardinality(Counting(s)) \in Nat
            /\ concurrentSessions[s] \in Nat /\ concurrentSessions' = concurrentSessions
        BY <1>10, CountingIsFinite DEF Inv, Typed
      <4> QED
        BY <2>1, <4>1, <4>2 DEF Followed, CountIsRight
    <3>5. HeldLives(s)' /\ LivingIsHeld(s)'
      BY <2>1, <2>3, <2>4, <3>1 DEF Followed, HeldLives, LivingIsHeld, OutsideStays
    <3>6. DepartingIsLeft(s)'
      BY <2>4, <3>1 DEF DepartingIsLeft, OutsideStays, Departing, Erasing
    <3> QED
      BY <3>4, <3>5, <3>6 DEF Followed
  <2>7. CASE s # r
    <3>1. Holders(s)' = Holders(s)
      <4>1. \A d \in Client : sessionID'[d] = s <=> sessionID[d] = s
        BY <1>8, <2>2, <2>7
      <4> QED
        BY <2>5, <4>1 DEF Holders
    <3>2. Counting(s)' = Counting(s)
      BY <1>3, <1>5, <1>6, <2>7, OthersGoNot DEF Counts
    <3>3. SessionStays(s)
      BY <1>10, <2>3, <3>1, <3>2 DEF SessionStays
    <3> QED
      BY <2>1, <2>4, <3>3, FollowedStays
  <2> QED
    BY <2>6, <2>7
<1> QED
  BY <1>11, <1>12, <1>13 DEF Inv

\* Once the client is counted there is somebody who holds the session: had it left before, the
\* session would be disturbed.
LEMMA CountSessionKeeps ==
  ASSUME Inv, GatewayAssumption, NEW k \in Call, CountSession(k)
  PROVE  Inv'
<1>1. call[k] \in CallData /\ k \in Commands /\ call[k].answer = "count"
  BY CommandsAreData DEF Inv, CountSession
<1>2. Progress(k)
  BY <1>1 DEF Inv
<1>3. PICK r \in Session : r = call[k].result
  BY <1>1, <1>2 DEF Progress
<1>4. PICK p \in CallData :
        call' = [call EXCEPT ![k] = p] /\ p = [call[k] EXCEPT !.answer = "send"]
  BY <1>1 DEF CountSession, CallData
<1>5. /\ p.cmd = call[k].cmd /\ p.session = call[k].session /\ p.client = call[k].client
      /\ p.answer = "send" /\ p.result = r /\ p.thread = call[k].thread /\ p.to = call[k].to
  BY <1>1, <1>3, <1>4 DEF CallData
<1>6. Goes(k) /\ call'[k] = p
  <2>1. /\ call' \in [Call -> CallData \cup {NoCall}] /\ call'[k] = p
        /\ \A j \in Call \ {k} : call'[j] = call[j]
    BY <1>4, CallChanges DEF Inv
  <2> QED
    BY <1>1, <1>3, <1>5, <2>1 DEF Goes
<1>7. /\ concurrentSessions' \in [Session -> Nat]
      /\ concurrentSessions'[r] = concurrentSessions[r] + 1
      /\ \A s \in Session \ {r} : concurrentSessions'[s] = concurrentSessions[s]
  BY <1>3 DEF CountSession, Inv, Typed
<1>8. UNCHANGED <<connection, sessionID, cmdClients, closing, outside, disturbed>>
  BY DEF CountSession
<1>9. Typed' /\ ClosingTyped'
  BY <1>6, <1>7, <1>8 DEF Inv, Typed, ClosingTyped, Goes, outside
<1>10. (\A j \in Commands : Progress(j))' /\ KnownAreMade' /\ LogoutsEnd'
  <2>1. Progress(k)'
    BY <1>1, <1>2, <1>5, <1>6 DEF Progress
  <2>2. \A s \in Session : LogsOut(k, s)' /\ call'[k].answer # "asked" => usermanager'[s] = "gone"
    BY <1>1, <1>5, <1>6, <1>8 DEF Inv, LogoutsEnd, LogsOut, outside
  <2>3. Made(call[k].result)'
    BY <1>1, <1>3, <1>5, <1>6, <1>8 DEF Inv, KnownAreMade, Made, outside
  <2>4. \A d \in Client : /\ connection'[d] = "new" => sessionID'[d] = None
                          /\ Made(sessionID[d])'
    BY <1>8 DEF Inv, KnownAreMade, Made, outside
  <2> QED
    BY <1>6, <1>8, <2>1, <2>2, <2>3, <2>4, CommandsKeep DEF outside
<1>11. ASSUME NEW s \in Session, Claimed(s)' PROVE Followed(s)'
  <2>1. Claimed(s) /\ Followed(s)
    BY <1>5, <1>6, <1>8, <1>11, ClaimedBefore DEF Inv
  <2>2. Holders(s)' = Holders(s) /\ OutsideStays(s)
    BY <1>8 DEF Holders, Counted, OutsideStays, Departing, Erasing, outside
  <2>3. CASE s = r
    <3>1. Arriving(s) /\ ~Departing(s)
      <4>1. Arriving(s)
        BY <1>1, <1>3, <2>3 DEF Arriving
      <4> QED
        BY <2>1, <4>1 DEF Followed, DepartingIsLeft
    <3>2. Counting(s)' = Counting(s) \ {k} /\ k \in Counting(s)
      <4>1. \A j \in Call \ {k} : Counts(j, s)' <=> Counts(j, s)
        BY <1>6 DEF Goes, Counts
      <4>2. ~Counts(k, s)' /\ Counts(k, s)
        BY <1>1, <1>3, <1>5, <1>6, <2>3 DEF Counts
      <4> QED
        BY <4>1, <4>2 DEF Counting
    <3>3. CountIsRight(s)' /\ Cardinality(Holders(s)) # 0
      <4>1. /\ Cardinality(Counting(s)') = Cardinality(Counting(s)) - 1
            /\ IsFiniteSet(Counting(s)')
        BY <3>2, CountingIsFinite, FS_RemoveElement
      <4>2. /\ Cardinality(Holders(s)) \in Nat /\ Cardinality(Counting(s)) \in Nat
            /\ Cardinality(Counting(s)') \in Nat
            /\ concurrentSessions[s] \in Nat /\ concurrentSessions'[s] = concurrentSessions[s] + 1
        BY <1>7, <2>3, <4>1, CountingIsFinite, FS_CardinalityType DEF Inv, Typed
      <4> QED
        BY <2>1, <2>2, <4>1, <4>2 DEF Followed, CountIsRight
    <3>4. Holders(s) # {}
      BY <3>3, FS_EmptySet
    <3>5. HeldLives(s)' /\ LivingIsHeld(s)'
      BY <2>1, <2>2, <3>4 DEF Followed, HeldLives, LivingIsHeld, OutsideStays
    <3>6. DepartingIsLeft(s)'
      BY <2>2, <3>1 DEF DepartingIsLeft, OutsideStays, Departing, Erasing
    <3> QED
      BY <3>3, <3>5, <3>6 DEF Followed
  <2>4. CASE s # r
    <3>1. Counting(s)' = Counting(s) /\ (Arriving(s)' <=> Arriving(s))
      BY <1>3, <1>5, <1>6, <2>4, OthersGoNot DEF Counts, Arrives
    <3>2. SessionStays(s)
      BY <1>7, <2>2, <2>4, <3>1 DEF SessionStays
    <3> QED
      BY <2>1, <2>2, <3>2, FollowedStays
  <2> QED
    BY <2>3, <2>4
<1> QED
  BY <1>9, <1>10, <1>11 DEF Inv
\* A command that comes in is nobody's yet.
LEMMA WSDataReceivedKeeps ==
  ASSUME Inv, NEW k \in Call, NEW c \in Client, NEW id \in Id, NEW cmd \in Command,
         WSDataReceived(k, c, id, cmd)
  PROVE  Inv'
<1>1. call[k] = NoCall
  BY DEF WSDataReceived
<1>2. PICK p \in CallData :
        /\ call' = [call EXCEPT ![k] = p]
        /\ p.cmd = cmd /\ p.session = sessionID[c] /\ p.thread = "calling" /\ p.answer = "none"
        /\ p.result = None
  <2>1. PICK p :
          p = [client |-> c, id |-> id, cmd |-> cmd, session |-> sessionID[c],
               thread |-> "calling", answer |-> "none", result |-> None, to |-> None,
               reached |-> None]
    OBVIOUS
  <2>2. sessionID[c] \in Session \cup {None}
    BY DEF Inv, Typed
  <2>3. p \in CallData
    BY <2>1, <2>2 DEF CallData
  <2>4. call' = [call EXCEPT ![k] = p]
    BY <2>1 DEF WSDataReceived
  <2> QED
    BY <2>1, <2>3, <2>4
<1>3. /\ call' \in [Call -> CallData \cup {NoCall}] /\ call'[k] = p
      /\ \A j \in Call \ {k} : call'[j] = call[j]
  BY <1>2, CallChanges DEF Inv
<1>4. UNCHANGED <<connection, sessionID, cmdClients, concurrentSessions, closing, outside, disturbed>>
  BY DEF WSDataReceived, maps
<1>5. /\ Commands' = Commands \cup {k} /\ k \notin Commands /\ Commands \subseteq Call
      /\ \A j \in Commands : j \in Call /\ call'[j] = call[j]
  <2>1. p # NoCall
    BY <1>2 DEF NoCall
  <2> QED
    BY <1>1, <1>3, <2>1 DEF Commands
<1>6. Typed' /\ ClosingTyped'
  BY <1>3, <1>4 DEF Inv, Typed, ClosingTyped, outside
<1>7. (\A j \in Commands : Progress(j))'
  <2>1. Progress(k)'
    BY <1>2, <1>3 DEF Progress
  <2>2. ASSUME NEW j \in Commands PROVE Progress(j)'
    <3>1. call'[j] = call[j] /\ Progress(j)
      BY <1>5 DEF Inv
    <3> QED
      BY <3>1 DEF Progress
  <2> QED
    BY <1>5, <2>1, <2>2
<1>8. KnownAreMade'
  <2>1. Made(call[k].session)' /\ Made(call[k].result)'
    BY <1>2, <1>3, <1>4 DEF Inv, KnownAreMade, Made, outside
  <2> QED
    BY <1>4, <1>5, <2>1 DEF Inv, KnownAreMade, Made, outside
<1>9. \A s \in Session : ~LogsOut(k, s)'
  BY <1>2, <1>3 DEF LogsOut
<1>10. \A j \in Commands, s \in Session : LogsOut(j, s)' <=> LogsOut(j, s)
  BY <1>5 DEF LogsOut
<1>11. LogoutsEnd'
  BY <1>4, <1>5, <1>9, <1>10 DEF Inv, LogoutsEnd, outside
<1>12. ASSUME NEW s \in Session, Claimed(s)' PROVE Followed(s)'
  <2>1. Claimed(s) /\ Followed(s)
    <3>1. Claimed(s)
      BY <1>4, <1>5, <1>10, <1>12 DEF Claimed
    <3> QED
      BY <3>1 DEF Inv
  <2>2. /\ ~Counts(k, s) /\ ~Arrives(k, s) /\ ~Counts(k, s)' /\ ~Arrives(k, s)'
    BY <1>1, <1>2, <1>3 DEF NoCall, Counts, Arrives
  <2>3. \A j \in Call \ {k} : (Counts(j, s)' <=> Counts(j, s)) /\ (Arrives(j, s)' <=> Arrives(j, s))
    BY <1>3 DEF Counts, Arrives
  <2>4. Counting(s)' = Counting(s)
    BY <2>2, <2>3 DEF Counting
  <2>5. Arriving(s)' <=> Arriving(s)
    <3>1. (Arriving(s) <=> \E j \in Call : Arrives(j, s)) /\ (Arriving(s)' <=> \E j \in Call : Arrives(j, s)')
      BY DEF Arriving, Arrives
    <3> QED
      BY <2>2, <2>3, <3>1
  <2>6. SessionStays(s) /\ OutsideStays(s)
    BY <1>4, <2>4, <2>5
    DEF SessionStays, OutsideStays, Holders, Counted, Departing, Erasing, outside
  <2> QED
    BY <2>1, <2>6, FollowedStays
<1> QED
  BY <1>6, <1>7, <1>8, <1>11, <1>12 DEF Inv

\* What stays when no command goes on.
LEMMA CommandsRest ==
  ASSUME Inv, UNCHANGED <<call, sessionID>>,
         \A s \in Session : /\ usermanager[s] = "gone" => usermanager'[s] = "gone"
                            /\ usermanager[s] # "unused" => usermanager'[s] # "unused",
         \A c \in Client : connection'[c] = "new" => connection[c] = "new"
  PROVE  /\ (\A j \in Commands : Progress(j))' /\ KnownAreMade' /\ LogoutsEnd'
         /\ \A s \in Session : /\ Counting(s)' = Counting(s)
                               /\ Arriving(s)' <=> Arriving(s)
                               /\ disturbed \subseteq disturbed' /\ Claimed(s)' => Claimed(s)
<1>1. Commands' = Commands /\ Commands \subseteq Call
  BY DEF Commands
<1>2. \A j \in Commands, s \in Session : LogsOut(j, s)' <=> LogsOut(j, s)
  BY DEF LogsOut
<1>3. (\A j \in Commands : Progress(j))'
  BY <1>1 DEF Inv, Progress
<1>4. KnownAreMade'
  <2>1. /\ \A c \in Client : sessionID[c] \in Session \cup {None}
        /\ \A j \in Commands : /\ call[j].session \in Session \cup {None}
                               /\ call[j].result \in Session \cup {None}
    <3>1. \A j \in Commands : call[j] \in CallData
      BY <1>1, CommandsAreData DEF Inv
    <3> QED
      BY <3>1 DEF Inv, Typed, CallData
  <2>2. \A s \in Session \cup {None} : Made(s) => (s # None => usermanager'[s] # "unused")
    BY DEF Made
  <2>3. /\ \A c \in Client : /\ connection'[c] = "new" => sessionID'[c] = None
                             /\ Made(sessionID[c])'
    BY <2>1, <2>2 DEF Inv, KnownAreMade, Made
  <2>4. \A j \in Commands : Made(call[j].session)' /\ Made(call[j].result)'
    BY <2>1, <2>2 DEF Inv, KnownAreMade, Made
  <2> QED
    BY <1>1, <2>3, <2>4 DEF KnownAreMade
<1>5. LogoutsEnd'
  BY <1>1, <1>2 DEF Inv, LogoutsEnd
<1>6. \A s \in Session : Counting(s)' = Counting(s) /\ (Arriving(s)' <=> Arriving(s))
  BY DEF Counting, Counts, Arriving
<1>7. \A s \in Session : disturbed \subseteq disturbed' /\ Claimed(s)' => Claimed(s)
  BY <1>1, <1>2 DEF Claimed
<1> QED
  BY <1>3, <1>4, <1>5, <1>6, <1>7

LEMMA WSNewClientKeeps ==
  ASSUME Inv, NEW c \in Client, WSNewClient(c)
  PROVE  Inv'
<1>1. /\ connection[c] = "new" /\ sessionID[c] = None
      /\ connection' \in [Client -> {"new", "open", "left", "gone"}]
      /\ connection'[c] = "open" /\ \A d \in Client \ {c} : connection'[d] = connection[d]
      /\ UNCHANGED <<sessionID, cmdClients, concurrentSessions, closing, call, outside, disturbed>>
  BY DEF Inv, Typed, KnownAreMade, WSNewClient
<1>2. Typed'
  BY <1>1 DEF Inv, Typed, outside
<1>3. ClosingTyped'
  <2>1. CASE closing = Nobody
    BY <1>1, <2>1 DEF ClosingTyped
  <2>2. CASE closing # Nobody
    <3>1. closing.client \in Client /\ connection[closing.client] = "left"
      BY <2>2 DEF Inv, ClosingTyped
    <3>2. connection'[closing.client] = "left"
      BY <1>1, <3>1
    <3> QED
      BY <1>1, <2>2, <3>2 DEF Inv, ClosingTyped
  <2> QED
    BY <2>1, <2>2
<1>4. /\ (\A j \in Commands : Progress(j))' /\ KnownAreMade' /\ LogoutsEnd'
      /\ \A s \in Session : /\ Counting(s)' = Counting(s)
                            /\ Arriving(s)' <=> Arriving(s)
                            /\ Claimed(s)' => Claimed(s)
  BY <1>1, CommandsRest DEF outside
<1>5. ASSUME NEW s \in Session, Claimed(s)' PROVE Followed(s)'
  <2>1. Claimed(s) /\ Followed(s)
    BY <1>4, <1>5 DEF Inv
  <2>2. Holders(s)' = Holders(s)
    <3>1. \A d \in Client \ {c} : Counted(d)' <=> Counted(d)
      BY <1>1 DEF Counted
    <3> QED
      BY <1>1, <3>1, NoneIsNoSession DEF Holders
  <2>3. SessionStays(s) /\ OutsideStays(s)
    BY <1>1, <1>4, <2>2 DEF SessionStays, OutsideStays, Departing, Erasing, outside
  <2> QED
    BY <2>1, <2>3, FollowedStays
<1> QED
  BY <1>2, <1>3, <1>4, <1>5 DEF Inv

\* A client that leaves holds its session until it is counted out.
LEMMA OnCloseKeeps ==
  ASSUME Inv, NEW c \in Client, on_close(c)
  PROVE  Inv'
<1>1. /\ connection[c] = "open" /\ closing = Nobody
      /\ connection' \in [Client -> {"new", "open", "left", "gone"}]
      /\ connection'[c] = "left" /\ \A d \in Client \ {c} : connection'[d] = connection[d]
      /\ closing' = [at |-> "leave", client |-> c]
      /\ UNCHANGED <<sessionID, concurrentSessions, call, outside, disturbed>>
  BY DEF Inv, Typed, on_close
<1>2. cmdClients' \in [Id -> Client \cup {None}]
  BY DEF Inv, Typed, on_close
<1>3. closing'.at = "leave" /\ closing'.client = c /\ closing.at = "none"
  BY <1>1 DEF Nobody
<1>4. Typed' /\ ClosingTyped'
  BY <1>1, <1>2, <1>3 DEF Inv, Typed, ClosingTyped, outside
<1>5. /\ (\A j \in Commands : Progress(j))' /\ KnownAreMade' /\ LogoutsEnd'
      /\ \A s \in Session : /\ Counting(s)' = Counting(s)
                            /\ Arriving(s)' <=> Arriving(s)
                            /\ Claimed(s)' => Claimed(s)
  BY <1>1, CommandsRest DEF outside
<1>6. ASSUME NEW s \in Session, Claimed(s)' PROVE Followed(s)'
  <2>1. Claimed(s) /\ Followed(s)
    BY <1>5, <1>6 DEF Inv
  <2>2. Holders(s)' = Holders(s)
    <3>1. \A d \in Client : Counted(d)' <=> Counted(d)
      BY <1>1, <1>3 DEF Counted
    <3> QED
      BY <1>1, <3>1 DEF Holders
  <2>3. SessionStays(s) /\ OutsideStays(s)
    BY <1>1, <1>3, <1>5, <2>2 DEF SessionStays, OutsideStays, Departing, Erasing, outside
  <2> QED
    BY <2>1, <2>3, FollowedStays
<1> QED
  BY <1>4, <1>5, <1>6 DEF Inv
\* A client that leaves is counted out of its session; with it goes the last claim of another
\* login on the way.
LEMMA LeaveSessionKeeps ==
  ASSUME Inv, GatewayAssumption, LeaveSession
  PROVE  Inv'
<1>1. PICK c \in Client : /\ closing.at = "leave" /\ closing.client = c
                          /\ connection[c] = "left"
  BY DEF Inv, ClosingTyped, Nobody, LeaveSession
<1>2. UNCHANGED <<connection, sessionID, cmdClients, call, outside>>
  BY DEF LeaveSession
<1>3. PICK r \in Session \cup {None} : r = sessionID[c]
  BY DEF Inv, Typed
<1>4. /\ closing' = Forgetting \/ (r # None /\ closing' = Leaving(r))
      /\ \A s \in Session \ {r} : concurrentSessions'[s] = concurrentSessions[s]
      /\ concurrentSessions' \in [Session -> Nat]
      /\ r # None =>
           /\ \/ /\ concurrentSessions[r] > 0 /\ closing' = Leaving(r)
                 /\ concurrentSessions'[r] = concurrentSessions[r] - 1
              \/ concurrentSessions[r] = 0
           /\ disturbed' = disturbed \cup ((IF Arriving(r) THEN {r} ELSE {}) \ {None})
      /\ disturbed \subseteq disturbed'
  BY <1>1, <1>3 DEF LeaveSession, Disturb, Inv, Typed
<1>5. /\ closing'.client = c /\ closing'.at \in {"forget", "check"}
      /\ closing'.at = "check" => closing'.session = r
      /\ closing' = Leaving(r) => closing'.at = "check"
  BY <1>1, <1>4 DEF Forgetting, Leaving
<1>6. Typed' /\ ClosingTyped'
  <2>1. Typed'
    BY <1>2, <1>4 DEF Inv, Typed, outside
  <2>2. \/ closing' \in [at : {"leave", "forget"}, client : Client]
        \/ closing' \in [at : {"check", "erase"}, client : Client, session : Session]
    <3>1. CASE closing' = Forgetting
      BY <1>1, <3>1 DEF Forgetting
    <3>2. CASE r # None /\ closing' = Leaving(r)
      BY <1>1, <1>3, <3>2 DEF Leaving
    <3> QED
      BY <1>4, <3>1, <3>2
  <2>3. connection'[closing'.client] = "left"
    BY <1>1, <1>2, <1>5
  <2> QED
    BY <2>1, <2>2, <2>3 DEF ClosingTyped
<1>7. /\ (\A j \in Commands : Progress(j))' /\ KnownAreMade' /\ LogoutsEnd'
      /\ \A s \in Session : /\ Counting(s)' = Counting(s)
                            /\ Arriving(s)' <=> Arriving(s)
                            /\ Claimed(s)' => Claimed(s)
  BY <1>2, <1>4, CommandsRest DEF outside
<1>8. ASSUME NEW s \in Session, Claimed(s)' PROVE Followed(s)'
  <2>1. Claimed(s) /\ Followed(s)
    BY <1>7, <1>8 DEF Inv
  <2>2. \A d \in Client : Counted(d)' <=> Counted(d) /\ d # c
    BY <1>1, <1>2, <1>5 DEF Counted
  <2>3. CASE s = r
    <3>1. ~Arriving(s)
      BY <1>4, <1>8, <2>3, NoneIsNoSession DEF Claimed
    <3>2. Counting(s) = {}
      BY <3>1 DEF Arriving, Counting, Counts
    <3>3. Holders(s)' = Holders(s) \ {c} /\ c \in Holders(s)
      BY <1>1, <1>2, <1>3, <2>2, <2>3 DEF Holders, Counted
    <3>4. concurrentSessions[s] = Cardinality(Holders(s)) /\ Cardinality(Holders(s)) \in Nat
      BY <2>1, <3>2, CountingIsFinite, FS_EmptySet DEF Followed, CountIsRight, Inv, Typed
    <3>5. Cardinality(Holders(s)') = Cardinality(Holders(s)) - 1 /\ Cardinality(Holders(s)) # 0
      BY <3>3, CountingIsFinite, FS_RemoveElement, FS_EmptySet
    <3>6. closing' = Leaving(s) /\ concurrentSessions'[s] = concurrentSessions[s] - 1
      BY <1>4, <2>3, <3>4, <3>5, NoneIsNoSession
    <3>7. CountIsRight(s)'
      <4>1. Cardinality(Counting(s)') = 0
        BY <1>7, <3>2, FS_EmptySet
      <4> QED
        BY <3>4, <3>5, <3>6, <4>1 DEF CountIsRight
    <3>8. Departing(s)' /\ ~Arriving(s)' /\ ~Erasing(s)'
      BY <1>5, <1>7, <2>3, <3>1, <3>6 DEF Departing, Erasing
    <3>9. HeldLives(s)' /\ LivingIsHeld(s)'
      BY <1>2, <2>1, <3>3, <3>8 DEF Followed, HeldLives, LivingIsHeld, outside
    <3>10. s \notin logouts'
      BY <1>2, <2>1, <3>3 DEF Followed, DepartingIsLeft, outside
    <3>11. DepartingIsLeft(s)'
      BY <3>8, <3>10 DEF DepartingIsLeft
    <3> QED
      BY <3>7, <3>9, <3>11 DEF Followed
  <2>4. CASE s # r
    <3>1. Holders(s)' = Holders(s)
      BY <1>2, <1>3, <2>2, <2>4 DEF Holders
    <3>2. SessionStays(s)
      BY <1>4, <1>7, <2>4, <3>1 DEF SessionStays
    <3>3. OutsideStays(s)
      BY <1>1, <1>2, <1>5, <2>4 DEF OutsideStays, Departing, Erasing, outside
    <3> QED
      BY <2>1, <3>2, <3>3, FollowedStays
  <2> QED
    BY <2>3, <2>4
<1> QED
  BY <1>6, <1>7, <1>8 DEF Inv

\* What is known while a client that left is worked off.
LEMMA ClosingIs ==
  ASSUME Inv, closing.at \in {"check", "erase"}
  PROVE  /\ closing \in [at : {"check", "erase"}, client : Client, session : Session]
         /\ connection[closing.client] = "left"
<1>1. closing # Nobody
  BY DEF Nobody
<1>2. closing \notin [at : {"leave", "forget"}, client : Client]
  OBVIOUS
<1> QED
  BY <1>1, <1>2 DEF Inv, ClosingTyped

\* The session is logged out when nobody is left, and else there is somebody.
LEMMA CheckSessionKeeps ==
  ASSUME Inv, GatewayAssumption, CheckSession
  PROVE  Inv'
<1>1. PICK c \in Client, r \in Session :
        /\ closing.at = "check" /\ closing.client = c /\ closing.session = r
        /\ connection[c] = "left"
        /\ closing \in [at : {"check", "erase"}, client : Client, session : Session]
  BY ClosingIs DEF CheckSession
<1>2. UNCHANGED <<connection, sessionID, cmdClients, concurrentSessions, call, usermanager, disturbed>>
  BY DEF CheckSession, maps
<1>3. /\ closing'.client = c /\ closing'.at \in {"erase", "forget"}
      /\ closing'.at = "erase" <=> concurrentSessions[r] < 1
      /\ closing'.at = "erase" => closing'.session = r
      /\ logouts' = IF concurrentSessions[r] < 1 THEN logouts \cup {r} ELSE logouts
      /\ \/ closing' \in [at : {"leave", "forget"}, client : Client]
         \/ closing' \in [at : {"check", "erase"}, client : Client, session : Session]
  <2>1. CASE concurrentSessions[r] < 1
    <3>1. closing' = [closing EXCEPT !.at = "erase"] /\ logouts' = logouts \cup {r}
      BY <1>1, <2>1 DEF CheckSession
    <3> QED
      BY <1>1, <2>1, <3>1
  <2>2. CASE ~(concurrentSessions[r] < 1)
    <3>1. closing' = [at |-> "forget", client |-> c] /\ logouts' = logouts
      BY <1>1, <2>2 DEF CheckSession, Forgetting
    <3> QED
      BY <2>2, <3>1
  <2> QED
    BY <2>1, <2>2
<1>4. Typed' /\ ClosingTyped'
  BY <1>1, <1>2, <1>3 DEF Inv, Typed, ClosingTyped
<1>5. /\ (\A j \in Commands : Progress(j))' /\ KnownAreMade' /\ LogoutsEnd'
      /\ \A s \in Session : /\ Counting(s)' = Counting(s)
                            /\ Arriving(s)' <=> Arriving(s)
                            /\ Claimed(s)' => Claimed(s)
  BY <1>2, CommandsRest
<1>6. ASSUME NEW s \in Session, Claimed(s)' PROVE Followed(s)'
  <2>1. Claimed(s) /\ Followed(s)
    BY <1>5, <1>6 DEF Inv
  <2>2. Holders(s)' = Holders(s)
    BY <1>1, <1>2, <1>3 DEF Holders, Counted
  <2>3. SessionStays(s)
    BY <1>2, <1>5, <2>2 DEF SessionStays
  <2>4. CASE s = r
    <3>1. ~Arriving(s)
      BY <1>1, <2>1, <2>4 DEF Followed, DepartingIsLeft, Departing
    <3>2. Counting(s) = {}
      BY <3>1 DEF Arriving, Counting, Counts
    <3>3. concurrentSessions[s] = Cardinality(Holders(s)) /\ Cardinality(Holders(s)) \in Nat
      BY <2>1, <3>2, CountingIsFinite, FS_EmptySet DEF Followed, CountIsRight, Inv, Typed
    <3>4. IsFiniteSet(Holders(s))
      BY CountingIsFinite
    <3>5. CountIsRight(s)' /\ HeldLives(s)' /\ ~Arriving(s)'
      BY <1>2, <2>1, <2>3, <3>1 DEF Followed, CountIsRight, HeldLives, SessionStays
    <3>6. CASE concurrentSessions[s] < 1
      <4>1. Holders(s) = {}
        BY <3>3, <3>4, <3>6, FS_EmptySet
      <4>2. s \in logouts' /\ Departing(s)'
        BY <1>3, <2>4, <3>6 DEF Departing
      <4>3. LivingIsHeld(s)' /\ DepartingIsLeft(s)'
        BY <2>2, <3>5, <4>1, <4>2 DEF LivingIsHeld, DepartingIsLeft
      <4> QED
        BY <3>5, <4>3 DEF Followed
    <3>7. CASE ~(concurrentSessions[s] < 1)
      <4>1. Holders(s) # {}
        BY <3>3, <3>7, FS_EmptySet
      <4>2. ~Erasing(s)' /\ (s \in logouts' <=> s \in logouts)
        BY <1>3, <2>4, <3>7 DEF Erasing
      <4>3. LivingIsHeld(s)' /\ DepartingIsLeft(s)'
        BY <2>1, <2>2, <3>5, <4>1, <4>2 DEF Followed, LivingIsHeld, DepartingIsLeft
      <4> QED
        BY <3>5, <4>3 DEF Followed
    <3> QED
      BY <3>6, <3>7
  <2>5. CASE s # r
    <3>1. OutsideStays(s)
      BY <1>1, <1>2, <1>3, <2>5 DEF OutsideStays, Departing, Erasing
    <3> QED
      BY <2>1, <2>3, <3>1, FollowedStays
  <2> QED
    BY <2>4, <2>5
<1> QED
  BY <1>4, <1>5, <1>6 DEF Inv

LEMMA EraseSessionKeeps ==
  ASSUME Inv, GatewayAssumption, EraseSession
  PROVE  Inv'
<1>1. PICK c \in Client, r \in Session :
        /\ closing.at = "erase" /\ closing.client = c /\ closing.session = r
        /\ connection[c] = "left"
  BY ClosingIs DEF EraseSession
<1>2. UNCHANGED <<connection, sessionID, cmdClients, call, outside, disturbed>>
  BY DEF EraseSession
<1>3. /\ closing' = [at |-> "forget", client |-> c]
      /\ closing'.at = "forget" /\ closing'.client = c
      /\ concurrentSessions' \in [Session -> Nat]
      /\ concurrentSessions'[r] = 0
      /\ \A s \in Session \ {r} : concurrentSessions'[s] = concurrentSessions[s]
  BY <1>1 DEF EraseSession, Forgetting, Inv, Typed
<1>4. Typed' /\ ClosingTyped'
  BY <1>1, <1>2, <1>3 DEF Inv, Typed, ClosingTyped, outside
<1>5. /\ (\A j \in Commands : Progress(j))' /\ KnownAreMade' /\ LogoutsEnd'
      /\ \A s \in Session : /\ Counting(s)' = Counting(s)
                            /\ Arriving(s)' <=> Arriving(s)
                            /\ Claimed(s)' => Claimed(s)
  BY <1>2, CommandsRest DEF outside
<1>6. ASSUME NEW s \in Session, Claimed(s)' PROVE Followed(s)'
  <2>1. Claimed(s) /\ Followed(s)
    BY <1>5, <1>6 DEF Inv
  <2>2. Holders(s)' = Holders(s)
    BY <1>1, <1>2, <1>3 DEF Holders, Counted
  <2>3. CASE s = r
    <3>1. ~Arriving(s) /\ Holders(s) = {} /\ (s \in logouts \/ usermanager[s] # "alive")
      BY <1>1, <2>1, <2>3 DEF Followed, DepartingIsLeft, Departing, Erasing
    <3>2. Counting(s) = {}
      BY <3>1 DEF Arriving, Counting, Counts
    <3>3. CountIsRight(s)'
      BY <1>3, <1>5, <2>2, <2>3, <3>1, <3>2, FS_EmptySet DEF CountIsRight
    <3>4. ~Arriving(s)' /\ ~Erasing(s)' /\ (s \in logouts => Departing(s)')
      BY <1>2, <1>3, <1>5, <3>1 DEF Departing, Erasing, outside
    <3>5. HeldLives(s)' /\ LivingIsHeld(s)' /\ DepartingIsLeft(s)'
      BY <1>2, <2>2, <3>1, <3>4 DEF HeldLives, LivingIsHeld, DepartingIsLeft, outside
    <3> QED
      BY <3>3, <3>5 DEF Followed
  <2>4. CASE s # r
    <3>1. SessionStays(s)
      BY <1>3, <1>5, <2>2, <2>4 DEF SessionStays
    <3>2. OutsideStays(s)
      BY <1>1, <1>2, <1>3, <2>4 DEF OutsideStays, Departing, Erasing, outside
    <3> QED
      BY <2>1, <3>1, <3>2, FollowedStays
  <2> QED
    BY <2>3, <2>4
<1> QED
  BY <1>4, <1>5, <1>6 DEF Inv

LEMMA ForgetClientKeeps ==
  ASSUME Inv, ForgetClient
  PROVE  Inv'
<1>1. PICK c \in Client : /\ closing.at = "forget" /\ closing.client = c
                          /\ connection[c] = "left"
  BY DEF Inv, ClosingTyped, Nobody, ForgetClient
<1>2. /\ connection' \in [Client -> {"new", "open", "left", "gone"}]
      /\ connection'[c] = "gone" /\ \A d \in Client \ {c} : connection'[d] = connection[d]
      /\ closing' = Nobody /\ closing'.at = "none"
      /\ UNCHANGED <<sessionID, cmdClients, concurrentSessions, call, outside, disturbed>>
  BY <1>1 DEF Inv, Typed, ForgetClient, Nobody
<1>3. Typed' /\ ClosingTyped'
  BY <1>2 DEF Inv, Typed, ClosingTyped, outside
<1>4. /\ (\A j \in Commands : Progress(j))' /\ KnownAreMade' /\ LogoutsEnd'
      /\ \A s \in Session : /\ Counting(s)' = Counting(s)
                            /\ Arriving(s)' <=> Arriving(s)
                            /\ Claimed(s)' => Claimed(s)
  BY <1>1, <1>2, CommandsRest DEF outside
<1>5. ASSUME NEW s \in Session, Claimed(s)' PROVE Followed(s)'
  <2>1. Claimed(s) /\ Followed(s)
    BY <1>4, <1>5 DEF Inv
  <2>2. Holders(s)' = Holders(s)
    <3>1. \A d \in Client : Counted(d)' <=> Counted(d)
      BY <1>1, <1>2 DEF Counted
    <3> QED
      BY <1>2, <3>1 DEF Holders
  <2>3. SessionStays(s) /\ OutsideStays(s)
    BY <1>1, <1>2, <1>4, <2>2 DEF SessionStays, OutsideStays, Departing, Erasing, outside
  <2> QED
    BY <2>1, <2>3, FollowedStays
<1> QED
  BY <1>3, <1>4, <1>5 DEF Inv

\* A session that the gateway has logged out has nobody, so that nobody loses it.
LEMMA LogoutDoneKeeps ==
  ASSUME Inv, NEW r \in Session, LogoutDone(r)
  PROVE  Inv'
<1>1. /\ r \in logouts /\ logouts' = logouts \ {r} /\ usermanager' = Ended(r)
      /\ UNCHANGED <<connection, sessionID, cmdClients, concurrentSessions, closing, call, disturbed>>
  BY DEF LogoutDone, maps
<1>2. /\ usermanager' \in [Session -> {"unused", "alive", "gone"}]
      /\ usermanager'[r] # "alive"
      /\ \A s \in Session \ {r} : usermanager'[s] = usermanager[s]
      /\ \A s \in Session : /\ usermanager[s] = "gone" => usermanager'[s] = "gone"
                            /\ usermanager[s] # "unused" => usermanager'[s] # "unused"
  BY <1>1, EndedIs DEF Inv
<1>3. Typed' /\ ClosingTyped'
  BY <1>1, <1>2 DEF Inv, Typed, ClosingTyped
<1>4. /\ (\A j \in Commands : Progress(j))' /\ KnownAreMade' /\ LogoutsEnd'
      /\ \A s \in Session : /\ Counting(s)' = Counting(s)
                            /\ Arriving(s)' <=> Arriving(s)
                            /\ Claimed(s)' => Claimed(s)
  BY <1>1, <1>2, CommandsRest
<1>5. ASSUME NEW s \in Session, Claimed(s)' PROVE Followed(s)'
  <2>1. Claimed(s) /\ Followed(s)
    BY <1>4, <1>5 DEF Inv
  <2>2. Holders(s)' = Holders(s)
    BY <1>1 DEF Holders, Counted
  <2>3. SessionStays(s) /\ (Erasing(s)' <=> Erasing(s))
    BY <1>1, <1>4, <2>2 DEF SessionStays, Erasing
  <2>4. CASE s = r
    <3>1. Holders(s) = {} /\ ~Arriving(s)
      BY <1>1, <2>1, <2>4 DEF Followed, DepartingIsLeft, Departing
    <3>2. CountIsRight(s)'
      BY <2>1, <2>3 DEF Followed, CountIsRight, SessionStays
    <3>3. HeldLives(s)' /\ LivingIsHeld(s)' /\ DepartingIsLeft(s)'
      BY <1>2, <1>4, <2>2, <2>4, <3>1 DEF HeldLives, LivingIsHeld, DepartingIsLeft
    <3> QED
      BY <3>2, <3>3 DEF Followed
  <2>5. CASE s # r
    <3>1. OutsideStays(s)
      BY <1>1, <1>2, <2>3, <2>5 DEF OutsideStays, Departing
    <3> QED
      BY <2>1, <2>3, <3>1, FollowedStays
  <2> QED
    BY <2>4, <2>5
<1> QED
  BY <1>3, <1>4, <1>5 DEF Inv
-----------------------------------------------------------------------------
(* The theorem.                                                            *)

LEMMA InvInitially == Init => Inv
<1> SUFFICES ASSUME Init PROVE Inv
  OBVIOUS
<1>1. Typed /\ ClosingTyped
  BY GatewayAssumption DEF Init, Typed, ClosingTyped
<1>2. Commands = {} /\ \A k \in Call : call[k].answer = "none"
  BY DEF Init, Commands, NoCall
<1>3. KnownAreMade /\ LogoutsEnd
  BY <1>2 DEF Init, KnownAreMade, LogoutsEnd, Made
<1>4. closing.at = "none"
  BY DEF Init, Nobody
<1>5. ASSUME NEW s \in Session PROVE Followed(s)
  <2>1. Holders(s) = {}
    BY <1>4 DEF Init, Holders, Counted
  <2>2. Counting(s) = {} /\ ~Arriving(s)
    BY <1>2 DEF Counting, Counts, Arriving
  <2>3. CountIsRight(s)
    BY <2>1, <2>2, FS_EmptySet DEF CountIsRight, Init
  <2>4. HeldLives(s) /\ LivingIsHeld(s) /\ DepartingIsLeft(s)
    BY <1>4, <2>1, <2>2 DEF HeldLives, LivingIsHeld, DepartingIsLeft, Departing, Erasing, Init
  <2> QED
    BY <2>3, <2>4 DEF Followed
<1> QED
  BY <1>1, <1>2, <1>3, <1>5 DEF Inv

LEMMA InvStays ==
  ASSUME Inv, UNCHANGED vars
  PROVE  Inv'
<1>1. UNCHANGED <<connection, sessionID, cmdClients, concurrentSessions, closing, call, logouts,
                  usermanager, disturbed>>
  BY DEF vars, maps, outside
<1>2. Typed' /\ ClosingTyped'
  BY <1>1 DEF Inv, Typed, ClosingTyped
<1>3. /\ (\A j \in Commands : Progress(j))' /\ KnownAreMade' /\ LogoutsEnd'
      /\ \A s \in Session : /\ Counting(s)' = Counting(s)
                            /\ Arriving(s)' <=> Arriving(s)
                            /\ Claimed(s)' => Claimed(s)
  BY <1>1, CommandsRest
<1>4. ASSUME NEW s \in Session, Claimed(s)' PROVE Followed(s)'
  <2>1. SessionStays(s) /\ OutsideStays(s)
    BY <1>1, <1>3
    DEF SessionStays, OutsideStays, Holders, Counted, Departing, Erasing
  <2> QED
    BY <1>3, <1>4, <2>1, FollowedStays DEF Inv
<1> QED
  BY <1>2, <1>3, <1>4 DEF Inv

LEMMA InvStep == IInv /\ [Next]_vars => IInv'
<1> SUFFICES ASSUME IInv, [Next]_vars, running' PROVE Inv'
  BY DEF IInv
<1>1. CASE UNCHANGED vars
  <2>1. Inv
    BY <1>1 DEF IInv, vars
  <2> QED
    BY <1>1, <2>1, InvStays
<1>2. CASE Next
  <2>0. Inv /\ GatewayAssumption
    BY <1>2, GatewayAssumption DEF IInv, Next
  <2>1. CASE \E c \in Client : WSNewClient(c) \/ on_close(c)
    BY <2>0, <2>1, WSNewClientKeeps, OnCloseKeeps
  <2>2. CASE \E c \in Client, k \in Call, id \in Id, cmd \in Command : WSDataReceived(k, c, id, cmd)
    BY <2>0, <2>2, WSDataReceivedKeeps
  <2>3. CASE \E k \in Call : callFromClient(k) \/ ClearSession(k)
    BY <2>0, <2>3, CallFromClientKeeps, ClearSessionKeeps
  <2>4. CASE \E k \in Call : callBackReceived(k) \/ SendAnswer(k) \/ EraseCommand(k)
    BY <2>0, <2>4, CallBackReceivedKeeps, SendAnswerKeeps, EraseCommandKeeps
  <2>5. CASE \E k \in Call : SetSession(k) \/ CountSession(k)
    BY <2>0, <2>5, SetSessionKeeps, CountSessionKeeps
  <2>6. CASE \E k \in Call : UserManager(k)
    BY <2>0, <2>6, UserManagerKeeps
  <2>7. CASE LeaveSession \/ CheckSession \/ EraseSession \/ ForgetClient
    BY <2>0, <2>7, LeaveSessionKeeps, CheckSessionKeeps, EraseSessionKeeps, ForgetClientKeeps
  <2>8. CASE \E s \in Session : LogoutDone(s)
    BY <2>0, <2>8, LogoutDoneKeeps
  <2> QED
    BY <1>2, <2>1, <2>2, <2>3, <2>4, <2>5, <2>6, <2>7, <2>8 DEF Next, Handle
<1> QED
  BY <1>1, <1>2

LEMMA InvSuffices == IInv => SessionsFollowClients
<1> SUFFICES ASSUME Inv, NEW s \in Session \ disturbed
             PROVE  /\ \A c \in Client : Has(c, s) => usermanager[s] = "alive" \/ CommandedOut(s)
                    /\ Quiet /\ usermanager[s] = "alive" => \E c \in Client : Has(c, s)
  BY DEF IInv, SessionsFollowClients
<1>1. CASE Claimed(s)
  <2>1. Followed(s)
    BY <1>1 DEF Inv
  <2>2. ASSUME NEW c \in Client, Has(c, s) PROVE usermanager[s] = "alive"
    <3>1. c \in Holders(s)
      BY <2>2 DEF Has, Holders, Counted
    <3> QED
      BY <2>1, <3>1 DEF Followed, HeldLives
  <2>3. ASSUME Quiet, usermanager[s] = "alive" PROVE \E c \in Client : Has(c, s)
    <3>1. closing.at = "none" /\ logouts = {}
      BY <2>3 DEF Quiet, Nobody
    <3>2. ~Arriving(s) /\ ~Departing(s)
      BY <2>3, <3>1 DEF Quiet, Arriving, Departing
    <3>3. PICK c \in Client : sessionID[c] = s /\ Counted(c)
      BY <2>1, <2>3, <3>2 DEF Followed, LivingIsHeld, Holders
    <3> QED
      BY <3>1, <3>3 DEF Counted, Has
  <2> QED
    BY <2>2, <2>3
<1>2. CASE ~Claimed(s)
  <2>1. PICK k \in Commands : LogsOut(k, s)
    BY <1>2 DEF Claimed
  <2>2. CommandedOut(s)
    BY <2>1 DEF CommandedOut, LogsOut
  <2>3. Quiet => usermanager[s] = "gone"
    <3>1. Quiet => call[k].answer # "asked"
      BY <2>1 DEF Quiet, Commands
    <3> QED
      BY <2>1, <3>1 DEF Inv, LogoutsEnd
  <2> QED
    BY <2>2, <2>3
<1> QED
  BY <1>1, <1>2

\* However many clients log in, share sessions and leave, and however their commands, the
\* answers and the closing of connections interleave: clients keep their session, and the last
\* one to leave ends it.
THEOREM SessionsFollow == Spec => []SessionsFollowClients
<1>1. Init => IInv
  BY InvInitially DEF IInv
<1> QED
  BY <1>1, InvStep, InvSuffices, PTL DEF Spec
=============================================================================
