----------------------------- MODULE EventHooks -----------------------------
(***************************************************************************)
(* Events and hooks in the core's CommunicationManager: the maps eventList,*)
(* hookList and hookedEvents, each behind a mutex of its own, and the      *)
(* operations that receive threads run on them at the same time.           *)
(*                                                                         *)
(* An operation is cut where its thread takes or gives back a mutex while  *)
(* it goes on; what it does in between is one action.  registerEvent reads *)
(* hookList without its mutex, as in the code.  Outcomes of iterating over *)
(* a vector that others change meanwhile are chosen freely (Listed).       *)
(***************************************************************************)
EXTENDS Naturals, SequencesExt

CONSTANTS
  Service,   \* services that register events and hooks
  Nobody,    \* no service: the owner of a name nobody registered
  Event,     \* names of events
  Thread,    \* threads that run handlers
  MaxListed  \* bound: ids in the vector of one event when an operation begins

ASSUME NobodyAssumption == Nobody \notin Service
ASSUME MaxListedAssumption == MaxListed \in Nat \ {0}

VARIABLES
  eventList,     \* owner of each registered event
  hookList,      \* registered hooks, each an event and the service it is sent to
  hookedEvents,  \* per registered event the vector of the ids of its hooks
  thread,        \* where each thread is in which operation, and the mutexes it has
  firing         \* the loop of fireEvent in each thread

vars == <<eventList, hookList, hookedEvents, thread, firing>>

-----------------------------------------------------------------------------
Mutex == {"MTXEventList", "MTXHookList", "MTXHookEvent"}

Hook == Event \X Service   \* uniqString() of a hook is its event and its service
Listing == DOMAIN hookedEvents

At == {"idle", "registerEvent", "removeEvent", "registerHook", "removeHook", "eraseHook",
       "cleanupEvents", "cleanupHooks", "cleanupHooked",
       "nextHook", "sending", "fired", "failed"}

Busy == [at: At, e: Event, s: Service, locks: SUBSET Mutex]

Free(m) == \A t \in Thread : m \notin thread[t].locks

\* thread t goes on at "at", with event e and service s, and has these mutexes
Goes(t, at, e, s, locks) ==
  thread' = [thread EXCEPT ![t] = [at |-> at, e |-> e, s |-> s, locks |-> locks]]
Continues(t, at, locks) == Goes(t, at, thread[t].e, thread[t].s, locks)
Ends(t) == Continues(t, "idle", {})

Is(t, at) == thread[t].at = at

\* The loop of a firing: the place in the vector, the end of it as it was at the start,
\* whether the vector's memory was given back since, and (ghost) the services whose hooks
\* were listed at the start, for as long as nothing happens to the list.
Loop == [i: Nat \ {0}, end: Nat, moved: BOOLEAN, due: SUBSET Service]
NoLoop == [i |-> 1, end |-> 0, moved |-> FALSE, due |-> {}]

IsFiring(t, es) == thread[t].at \in {"nextHook", "sending"} /\ thread[t].e \in es

\* the loops over the vectors of the events es, after an element was erased ...
LoopsShifted(es) ==
  [t \in Thread |-> IF IsFiring(t, es) THEN [firing[t] EXCEPT !.due = {}] ELSE firing[t]]
\* ... and after the memory of the vector was given back
LoopsMoved(es) ==
  [t \in Thread |-> IF IsFiring(t, es) THEN [firing[t] EXCEPT !.moved = TRUE, !.due = {}]
                                       ELSE firing[t]]

TypeOK ==
  /\ eventList \in [Event -> Service \cup {Nobody}]
  /\ hookList \in SUBSET Hook
  /\ Listing \subseteq Event
  /\ \A e \in Listing : hookedEvents[e] \in Seq(Service)
  /\ thread \in [Thread -> Busy]
  /\ firing \in [Thread -> Loop]

Init ==
  /\ eventList = [e \in Event |-> Nobody]
  /\ hookList = {}
  /\ hookedEvents = << >>
  /\ \E e \in Event, s \in Service :
       thread = [t \in Thread |-> [at |-> "idle", e |-> e, s |-> s, locks |-> {}]]
  /\ firing = [t \in Thread |-> NoLoop]

-----------------------------------------------------------------------------
(* Events.  A name that is taken makes registerEvent throw: nothing changes. *)

\* the hooks of e that registerEvent finds in hookList, in the order of that map
HooksOf(e) == {s \in Service : <<e, s>> \in hookList}

RegisterEvent(t, e, s) ==
  /\ Is(t, "idle") /\ Free("MTXEventList") /\ eventList[e] = Nobody
  /\ eventList' = [eventList EXCEPT ![e] = s]
  /\ Goes(t, "registerEvent", e, s, {"MTXEventList"})
  /\ UNCHANGED <<hookList, hookedEvents, firing>>

\* mutant: hooks that came before the event are not looked for
EventListedEmpty(t) ==
  /\ Is(t, "registerEvent") /\ Free("MTXHookEvent")
  /\ hookedEvents' = (thread[t].e :> << >>) @@ hookedEvents
  /\ Ends(t)
  /\ UNCHANGED <<eventList, hookList, firing>>

EventListed(t) ==
  /\ Is(t, "registerEvent") /\ Free("MTXHookEvent")
  /\ IF thread[t].e \in Listing
     THEN UNCHANGED hookedEvents       \* throws "inserting into hookedEvents list failed"
     ELSE \E hooks \in SetToSeqs(HooksOf(thread[t].e)) :
            hookedEvents' = [e \in Listing \cup {thread[t].e} |->
                               IF e \in Listing THEN hookedEvents[e] ELSE hooks]
  /\ Ends(t)
  /\ UNCHANGED <<eventList, hookList, firing>>

\* any service may remove any event
RemoveEvent(t, e) ==
  /\ Is(t, "idle") /\ Free("MTXEventList")
  /\ Goes(t, "removeEvent", e, thread[t].s, {"MTXEventList"})
  /\ UNCHANGED <<eventList, hookList, hookedEvents, firing>>

Unlisted(es) == Restrict(hookedEvents, Listing \ es)

EventRemoved(t) ==
  /\ Is(t, "removeEvent") /\ Free("MTXHookEvent")
  /\ hookedEvents' = Unlisted({thread[t].e})
  /\ eventList' = [eventList EXCEPT ![thread[t].e] = Nobody]
  /\ firing' = LoopsMoved({thread[t].e})
  /\ Ends(t)
  /\ UNCHANGED hookList

-----------------------------------------------------------------------------
(* Hooks.  The id of a hook is its event and its service, so a service may  *)
(* hook an event once; hooks of events that do not exist are kept as well.  *)

RegisterHook(t, e, s) ==
  /\ Is(t, "idle") /\ Free("MTXHookList") /\ <<e, s>> \notin hookList
  /\ e \in Listing => Len(hookedEvents[e]) < MaxListed
  /\ hookList' = hookList \cup {<<e, s>>}
  /\ Goes(t, "registerHook", e, s, {"MTXHookList"})
  /\ UNCHANGED <<eventList, hookedEvents, firing>>

\* push_back may have to move the vector
HookListed(t) ==
  /\ Is(t, "registerHook") /\ Free("MTXHookEvent")
  /\ LET e == thread[t].e
     IN IF e \in Listing
        THEN /\ hookedEvents' = [hookedEvents EXCEPT ![e] = Append(@, thread[t].s)]
             /\ firing' \in {firing, LoopsMoved({e})}
        ELSE UNCHANGED <<hookedEvents, firing>>
  /\ Ends(t)
  /\ UNCHANGED <<eventList, hookList>>

RemoveHook(t, e, s) ==
  /\ Is(t, "idle") /\ Free("MTXHookList") /\ <<e, s>> \in hookList
  /\ Goes(t, "removeHook", e, s, {"MTXHookList"})
  /\ UNCHANGED <<eventList, hookList, hookedEvents, firing>>

HookUnlisted(t) ==
  /\ Is(t, "removeHook") /\ Free("MTXHookEvent")
  /\ LET e == thread[t].e
     IN IF e \in Listing /\ Contains(hookedEvents[e], thread[t].s)
        THEN /\ hookedEvents' = [hookedEvents EXCEPT ![e] = RemoveFirst(@, thread[t].s)]
             /\ firing' = LoopsShifted({e})
        ELSE UNCHANGED <<hookedEvents, firing>>
  /\ Continues(t, "eraseHook", {"MTXHookList"})
  /\ UNCHANGED <<eventList, hookList>>

HookErased(t) ==
  /\ Is(t, "eraseHook")
  /\ hookList' = hookList \ {<<thread[t].e, thread[t].s>>}
  /\ Ends(t)
  /\ UNCHANGED <<eventList, hookedEvents, firing>>

-----------------------------------------------------------------------------
(* cleanup(): a service lost its connection or was disabled.               *)

Owned(s) == {e \in Event : eventList[e] = s}

\* a map that is empty is not locked at all
Cleanup(t, s) ==
  /\ Is(t, "idle")
  /\ IF \A e \in Event : eventList[e] = Nobody
     THEN Goes(t, "cleanupHooks", thread[t].e, s, {})
     ELSE Free("MTXEventList") /\ Goes(t, "cleanupEvents", thread[t].e, s, {"MTXEventList"})
  /\ UNCHANGED <<eventList, hookList, hookedEvents, firing>>

\* mutant: hookedEvents keeps the entries
EventsCleanedUnlisted(t) ==
  /\ Is(t, "cleanupEvents") /\ Free("MTXHookEvent")
  /\ eventList' = [e \in Event |-> IF e \in Owned(thread[t].s) THEN Nobody ELSE eventList[e]]
  /\ Continues(t, "cleanupHooks", {})
  /\ UNCHANGED <<hookList, hookedEvents, firing>>

EventsCleaned(t) ==
  /\ Is(t, "cleanupEvents") /\ Free("MTXHookEvent")
  /\ LET es == Owned(thread[t].s)
     IN /\ eventList' = [e \in Event |-> IF e \in es THEN Nobody ELSE eventList[e]]
        /\ hookedEvents' = Unlisted(es)
        /\ firing' = LoopsMoved(es)
  /\ Continues(t, "cleanupHooks", {})
  /\ UNCHANGED hookList

CleanupHooks(t) ==
  /\ Is(t, "cleanupHooks")
  /\ IF hookList = {}
     THEN Ends(t)
     ELSE Free("MTXHookList") /\ Continues(t, "cleanupHooked", {"MTXHookList"})
  /\ UNCHANGED <<eventList, hookList, hookedEvents, firing>>

\* The loop erases the element it stands on and then steps over the one behind it: of ids
\* that stand side by side, from the place "first" on, every other one stays.
Hit(l, s) ==
  {i \in 1..Len(l) : \E first \in 1..i :
     /\ \A j \in first..i : l[j] = s
     /\ first > 1 => l[first - 1] # s
     /\ (i - first) % 2 = 0}

\* the elements of l at the places of K
Place(K, i) == Cardinality({j \in K : j <= i})
OnlyAt(l, K) == [n \in 1..Cardinality(K) |-> l[CHOOSE i \in K : Place(K, i) = n]]

Without(l, s) == OnlyAt(l, (1..Len(l)) \ Hit(l, s))

HooksCleaned(t) ==
  /\ Is(t, "cleanupHooked") /\ Free("MTXHookEvent")
  /\ LET s == thread[t].s
         hooks == {h \in hookList : h[2] = s}
         hit == {e \in Listing : <<e, s>> \in hooks /\ Contains(hookedEvents[e], s)}
     IN /\ hookList' = hookList \ hooks
        /\ hookedEvents' = [e \in Listing |-> IF e \in hit THEN Without(hookedEvents[e], s)
                                                            ELSE hookedEvents[e]]
        /\ firing' = LoopsShifted(hit)
  /\ Ends(t)
  /\ UNCHANGED eventList

-----------------------------------------------------------------------------
(* fireEvent(): the mutex is given back for each send and taken again.     *)

FireEvent(t, e) ==
  /\ Is(t, "idle") /\ Free("MTXHookEvent") /\ e \in Listing
  /\ firing' = [firing EXCEPT ![t] = [i |-> 1, end |-> Len(hookedEvents[e]), moved |-> FALSE,
                                      due |-> ToSet(hookedEvents[e])]]
  /\ Goes(t, "nextHook", e, thread[t].s, {"MTXHookEvent"})
  /\ UNCHANGED <<eventList, hookList, hookedEvents>>

\* What the loop finds at its place: nothing sensible behind the end of the vector, and
\* anything once its memory was given back.
Listed(t) ==
  LET e == thread[t].e
      i == firing[t].i
  IN IF firing[t].moved THEN Service \cup {Nobody}
     ELSE IF i <= Len(hookedEvents[e]) THEN {hookedEvents[e][i]}
     ELSE {Nobody}

NextPlace(t, heard) == [firing EXCEPT ![t].i = @ + 1, ![t].due = @ \ heard]

\* mutant: an id that is not in hookList ends the loop
HookMissingEnds(t) ==
  /\ Is(t, "nextHook") /\ firing[t].i <= firing[t].end
  /\ \E s \in Listed(t) : <<thread[t].e, s>> \notin hookList
  /\ firing' = [firing EXCEPT ![t].i = firing[t].end + 1]
  /\ UNCHANGED <<eventList, hookList, hookedEvents, thread>>

\* the id is not in hookList: at() throws, with the mutex held, and the loop goes on
HookMissing(t) ==
  /\ Is(t, "nextHook") /\ firing[t].i <= firing[t].end
  /\ \E s \in Listed(t) :
       /\ <<thread[t].e, s>> \notin hookList
       /\ firing' = NextPlace(t, {s})
  /\ UNCHANGED <<eventList, hookList, hookedEvents, thread>>

\* mutant: the id is not looked up in hookList
HookFoundUnchecked(t) ==
  /\ Is(t, "nextHook") /\ firing[t].i <= firing[t].end
  /\ \E s \in Listed(t) : Goes(t, "sending", thread[t].e, s, {})
  /\ UNCHANGED <<eventList, hookList, hookedEvents, firing>>

HookFound(t) ==
  /\ Is(t, "nextHook") /\ firing[t].i <= firing[t].end
  /\ \E s \in Listed(t) :
       /\ <<thread[t].e, s>> \in hookList
       /\ Goes(t, "sending", thread[t].e, s, {})
  /\ UNCHANGED <<eventList, hookList, hookedEvents, firing>>

Sent(t) ==
  /\ Is(t, "sending") /\ Free("MTXHookEvent")
  /\ firing' = NextPlace(t, {thread[t].s})
  /\ Continues(t, "nextHook", {"MTXHookEvent"})
  /\ UNCHANGED <<eventList, hookList, hookedEvents>>

\* The send throws with the mutex given back: from now on every unlock() throws, for each
\* hook that is left and at the end, where the exception leaves fireEvent.
SendFails(t) ==
  /\ Is(t, "sending")
  /\ Continues(t, "failed", {})
  /\ UNCHANGED <<eventList, hookList, hookedEvents, firing>>

Fired(t) ==
  /\ Is(t, "nextHook") /\ firing[t].i > firing[t].end
  /\ Continues(t, "fired", {})
  /\ UNCHANGED <<eventList, hookList, hookedEvents, firing>>

FireReturns(t) ==
  /\ Is(t, "fired") \/ Is(t, "failed")
  /\ firing' = [firing EXCEPT ![t] = NoLoop]
  /\ Ends(t)
  /\ UNCHANGED <<eventList, hookList, hookedEvents>>

-----------------------------------------------------------------------------
Begins(t) ==
  \/ \E e \in Event :
       \/ \E s \in Service : RegisterEvent(t, e, s) \/ RegisterHook(t, e, s) \/ RemoveHook(t, e, s)
       \/ RemoveEvent(t, e)
       \/ FireEvent(t, e)
  \/ \E s \in Service : Cleanup(t, s)

GoesOn(t) ==
  \/ EventListed(t) \/ EventRemoved(t)
  \/ HookListed(t) \/ HookUnlisted(t) \/ HookErased(t)
  \/ EventsCleaned(t) \/ CleanupHooks(t) \/ HooksCleaned(t)
  \/ HookMissing(t) \/ HookFound(t) \/ Sent(t) \/ SendFails(t) \/ Fired(t) \/ FireReturns(t)

Next == \E t \in Thread : Begins(t) \/ GoesOn(t)

Spec == Init /\ [][Next]_vars

-----------------------------------------------------------------------------
Within(at, e, s) == \E t \in Thread : thread[t].at = at /\ thread[t].e = e /\ thread[t].s = s

\* A hook that is registered on an event that exists is in the event's vector, whichever
\* of the two came first and however their registrations overlapped: neither the scan of
\* hookList in registerEvent nor the find in registerHook (CommunicationManager.cpp:57, 86)
\* may miss the other.
HooksAreListed ==
  \A e \in Listing, s \in Service :
    <<e, s>> \in hookList /\ ~Within("registerHook", e, s) /\ ~Within("eraseHook", e, s)
      => Contains(hookedEvents[e], s)

\* eventList and hookedEvents name the same events unless a thread is between the two, so
\* "inserting into hookedEvents list failed" (CommunicationManager.cpp:55) is never thrown.
EventsAreListed ==
  \A e \in Event :
    e \in Listing <=> eventList[e] # Nobody /\ \A s \in Service : ~Within("registerEvent", e, s)

\* A firing that runs to its end has reached every hook that was listed when it began,
\* ids without a hook and hooks added meanwhile notwithstanding, unless the list lost an
\* element or was moved in memory (CommunicationManager.cpp:117-127).
FiringReachesAll == \A t \in Thread : Is(t, "fired") => firing[t].due = {}

\* "a Hook with name ... attached to ... exist" (CommunicationManager.cpp:80): a service
\* hooks an event once, and is sent each firing of it once.
HookedOnce ==
  \A e \in Listing : \A i, j \in 1..Len(hookedEvents[e]) :
    hookedEvents[e][i] = hookedEvents[e][j] => i = j
=============================================================================
