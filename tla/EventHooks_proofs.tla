-------------------------- MODULE EventHooks_proofs --------------------------
(***************************************************************************)
(* Proofs about EventHooks, for any number of threads, services and events.*)
(*                                                                         *)
(* That eventList and hookedEvents agree needs to know who has which mutex:*)
(* a thread between the two maps has MTXEventList, and two threads never   *)
(* have it at once.                                                        *)
(***************************************************************************)
EXTENDS EventHooks, FiniteSetTheorems, FunctionTheorems, SequenceTheorems,
        WellFoundedInduction, TLAPS

-----------------------------------------------------------------------------
(* What the operations on vectors leave in them.                           *)

\* A nonempty set of natural numbers has a least element, from which an argument by induction
\* is made as one about the least counterexample.
LEMMA LeastNatural ==
  ASSUME NEW S \in SUBSET Nat, S # {}
  PROVE  \E m \in S : \A n \in S : m <= n
<1> DEFINE Less == {ss \in Nat \X Nat : ss[1] < ss[2]}
<1>1. IsWellFoundedOn(Less, Nat)
  BY NatLessThanWellFounded DEF OpToRel
<1>2. PICK m \in S : \A n \in S : ~(<<n, m>> \in Less)
  <2> HIDE DEF Less
  <2> QED
    BY <1>1, WFMin
<1>3. \A n \in S : ~(n < m)
  BY <1>2
<1>4. \A n \in S : m <= n
  BY <1>3
<1> QED
  BY <1>4

\* Min is the least of a nonempty set of natural numbers.
LEMMA LeastIsMin ==
  ASSUME NEW S \in SUBSET Nat, S # {}
  PROVE  Min(S) \in S /\ \A n \in S : Min(S) <= n
BY LeastNatural DEF Min

\* Taking the first s away leaves the others in the list.
LEMMA RemoveFirstKeeps ==
  ASSUME NEW S, NEW l \in Seq(S), NEW s, Contains(l, s)
  PROVE  /\ RemoveFirst(l, s) \in Seq(S)
         /\ \A r \in S \ {s} : Contains(l, r) => Contains(RemoveFirst(l, s), r)
<1> DEFINE I == {i \in 1..Len(l) : l[i] = s}
<1> DEFINE k == Min(I)
<1>0. Len(l) \in Nat /\ \A i \in 1..Len(l) : l[i] \in S
  BY LenProperties, ElementOfSeq
<1>1. I # {} /\ I \in SUBSET Nat
  BY DEF Contains
<1>2. k \in 1..Len(l) /\ l[k] = s
  BY <1>1, LeastIsMin
<1>3. RemoveFirst(l, s) = SubSeq(l, 1, k - 1) \o SubSeq(l, k + 1, Len(l))
  BY <1>1 DEF RemoveFirst, RemoveAt, SelectInSeq, Contains
<1> HIDE DEF k
<1> DEFINE front == SubSeq(l, 1, k - 1)
<1> DEFINE back == SubSeq(l, k + 1, Len(l))
<1>4. /\ front \in Seq(S) /\ Len(front) = k - 1
      /\ \A i \in 1..k - 1 : front[i] = l[i]
  BY <1>0, <1>2, SubSeqProperties
<1>5. /\ back \in Seq(S) /\ Len(back) = Len(l) - k
      /\ \A i \in 1..Len(l) - k : back[i] = l[k + i]
  BY <1>0, <1>2, SubSeqProperties
<1> HIDE DEF front, back
<1>6. /\ front \o back \in Seq(S) /\ Len(front \o back) = Len(l) - 1
      /\ \A i \in 1..Len(l) - 1 : (front \o back)[i] = IF i <= k - 1 THEN l[i] ELSE l[i + 1]
  <2>1. /\ front \o back \in Seq(S) /\ Len(front \o back) = Len(front) + Len(back)
        /\ \A i \in 1..Len(front) + Len(back) :
             (front \o back)[i] = IF i <= Len(front) THEN front[i] ELSE back[i - Len(front)]
    BY <1>4, <1>5, ConcatProperties
  <2>2. Len(front) + Len(back) = Len(l) - 1
    BY <1>0, <1>2, <1>4, <1>5
  <2>3. ASSUME NEW i \in 1..Len(l) - 1
        PROVE  (front \o back)[i] = IF i <= k - 1 THEN l[i] ELSE l[i + 1]
    <3>1. CASE i <= k - 1
      BY <1>0, <1>2, <1>4, <2>1, <2>2, <3>1
    <3>2. CASE i > k - 1
      <4>1. i - (k - 1) \in 1..Len(l) - k /\ k + (i - (k - 1)) = i + 1
        BY <1>0, <1>2, <3>2
      <4>2. (front \o back)[i] = back[i - (k - 1)]
        BY <1>0, <1>2, <1>4, <2>1, <2>2, <3>2
      <4>3. back[i - (k - 1)] = l[i + 1]
        BY <1>5, <4>1
      <4> QED
        BY <1>0, <1>2, <3>2, <4>2, <4>3
    <3>3. i <= k - 1 \/ i > k - 1
      BY <1>2
    <3> QED
      BY <3>1, <3>2, <3>3
  <2> QED
    BY <2>1, <2>2, <2>3
<1>7. ASSUME NEW r \in S \ {s}, NEW i \in 1..Len(l), l[i] = r
      PROVE  \E j \in 1..Len(l) - 1 : (front \o back)[j] = r
  <2>1. CASE i < k
    <3>1. i \in 1..Len(l) - 1 /\ i <= k - 1
      BY <1>0, <1>2, <2>1
    <3> QED
      BY <1>6, <1>7, <3>1
  <2>2. CASE i > k
    <3>1. i - 1 \in 1..Len(l) - 1 /\ ~(i - 1 <= k - 1) /\ i - 1 + 1 = i
      BY <1>2, <2>2, <1>0
    <3> QED
      BY <1>6, <1>7, <3>1
  <2>3. i # k
    BY <1>2, <1>7
  <2>4. i < k \/ i > k
    BY <1>0, <1>2, <2>3
  <2> QED
    BY <2>1, <2>2, <2>4
<1> QED
  BY <1>3, <1>6, <1>7 DEF Contains, front, back

\* What is kept at the places of K is a list of what stands at them.
LEMMA OnlyAtKeeps ==
  ASSUME NEW S, NEW l \in Seq(S), NEW K \in SUBSET (1..Len(l))
  PROVE  /\ OnlyAt(l, K) \in Seq(S)
         /\ \A i \in K : Contains(OnlyAt(l, K), l[i])
<1> DEFINE P(i) == {j \in K : j <= i}
<1> DEFINE N == Cardinality(K)
<1> DEFINE place == [i \in K |-> Place(K, i)]
<1>0. Len(l) \in Nat /\ \A i \in 1..Len(l) : l[i] \in S
  BY LenProperties, ElementOfSeq
<1>1. IsFiniteSet(K)
  <2>1. IsFiniteSet(1..Len(l))
    BY <1>0, FS_Interval
  <2> QED
    BY <2>1, FS_Subset
<1>2. N \in Nat
  BY <1>1, FS_CardinalityType
<1>3. ASSUME NEW i \in K
      PROVE  IsFiniteSet(P(i)) /\ Place(K, i) \in 1..N
  <2>1. IsFiniteSet(P(i)) /\ Cardinality(P(i)) <= N
    BY <1>1, FS_Subset
  <2>2. Cardinality(P(i)) \in Nat
    BY <2>1, FS_CardinalityType
  <2>3. i \in P(i)
    BY <1>0
  <2>4. Cardinality(P(i)) # 0
    BY <2>1, <2>3, FS_EmptySet
  <2> QED
    BY <1>2, <2>1, <2>2, <2>4 DEF Place
<1>4. ASSUME NEW i \in K, NEW j \in K, Place(K, i) = Place(K, j), i < j
      PROVE  FALSE
  <2>0. K \subseteq Nat
    BY <1>0
  <2>1. P(i) \subseteq P(j)
    <3>1. \A x \in Nat : x <= i => x <= j
      BY <1>4, <2>0
    <3> QED
      BY <2>0, <3>1
  <2>2. j \in P(j) /\ j \notin P(i)
    BY <1>4, <2>0
  <2>3. Cardinality(P(i)) = Cardinality(P(j))
    BY <1>4 DEF Place
  <2> QED
    BY <1>3, <2>1, <2>2, <2>3, FS_Subset
<1>5. \A i, j \in K : Place(K, i) = Place(K, j) => i = j
  BY <1>0, <1>4
<1>6. place \in Injection(K, 1..N)
  BY <1>3, <1>5, Fun_IsInj
<1>7. IsFiniteSet(1..N) /\ Cardinality(1..N) = N
  BY <1>2, FS_Interval
<1>8. place \in Surjection(K, 1..N)
  BY <1>6, <1>7, FS_Injection
<1>9. \A n \in 1..N : \E i \in K : Place(K, i) = n
  <2>1. \A n \in 1..N : \E i \in K : place[i] = n
    <3> HIDE DEF place, N
    <3> QED
      BY <1>8, Fun_SurjectionProperties
  <2> QED
    BY <2>1
<1> DEFINE at(n) == CHOOSE i \in K : Place(K, i) = n
<1>10. ASSUME NEW n \in 1..N PROVE at(n) \in K /\ Place(K, at(n)) = n
  BY <1>9
<1>11. ASSUME NEW n \in 1..N PROVE l[at(n)] \in S
  BY <1>0, <1>10
<1>12. OnlyAt(l, K) \in Seq(S) /\ Len(OnlyAt(l, K)) = N
  <2>1. OnlyAt(l, K) = [n \in 1..N |-> l[at(n)]]
    BY DEF OnlyAt
  <2>2. OnlyAt(l, K) \in [1..N -> S]
    <3> HIDE DEF at, N
    <3> QED
      BY <1>11, <2>1
  <2> HIDE DEF N
  <2> QED
    BY <1>2, <2>2
<1>13. ASSUME NEW i \in K PROVE Contains(OnlyAt(l, K), l[i])
  <2>1. Place(K, i) \in 1..N
    BY <1>3
  <2>2. at(Place(K, i)) = i
    BY <1>5, <1>10, <2>1
  <2>3. OnlyAt(l, K)[Place(K, i)] = l[at(Place(K, i))]
    BY <2>1 DEF OnlyAt
  <2> QED
    BY <1>12, <2>1, <2>2, <2>3 DEF Contains
<1> QED
  BY <1>12, <1>13

\* Cleaning up after s leaves the hooks of the other services in the list.
LEMMA WithoutKeeps ==
  ASSUME NEW S, NEW l \in Seq(S), NEW s
  PROVE  /\ Without(l, s) \in Seq(S)
         /\ \A r \in S \ {s} : Contains(l, r) => Contains(Without(l, s), r)
<1> DEFINE K == (1..Len(l)) \ Hit(l, s)
<1>1. /\ OnlyAt(l, K) \in Seq(S)
      /\ \A i \in K : Contains(OnlyAt(l, K), l[i])
  BY OnlyAtKeeps
<1>2. ASSUME NEW i \in Hit(l, s) PROVE l[i] = s
  <2>1. PICK first \in 1..i : \A j \in first..i : l[j] = s
    BY DEF Hit
  <2>2. i \in Nat
    BY LenProperties DEF Hit
  <2> QED
    BY <2>1, <2>2
<1> QED
  BY <1>1, <1>2 DEF Without, Contains

\* A list of a finite set names all of it.
LEMMA SetToSeqsListsAll ==
  ASSUME NEW S, NEW T \in SUBSET S, IsFiniteSet(T), NEW l \in SetToSeqs(T)
  PROVE  l \in Seq(S) /\ \A s \in T : Contains(l, s)
<1> DEFINE N == Cardinality(T)
<1>1. N \in Nat
  BY FS_CardinalityType
<1>2. l \in [1..N -> T] /\ \A i, j \in 1..N : l[i] = l[j] => i = j
  BY DEF SetToSeqs
<1>3. l \in Injection(1..N, T)
  BY <1>2, Fun_IsInj
<1>4. IsFiniteSet(1..N) /\ Cardinality(1..N) = N
  BY <1>1, FS_Interval
<1>5. l \in Surjection(1..N, T)
  BY <1>3, <1>4, FS_Injection
<1>6. l \in Seq(S) /\ Len(l) = N
  BY <1>1, <1>2
<1> QED
  BY <1>5, <1>6, Fun_SurjectionProperties DEF Contains

-----------------------------------------------------------------------------
(* eventList and hookedEvents name the same events.                        *)

LocksAt(at) ==
  IF at \in {"registerEvent", "removeEvent", "cleanupEvents"} THEN {"MTXEventList"}
  ELSE IF at \in {"registerHook", "removeHook", "eraseHook", "cleanupHooked"} THEN {"MTXHookList"}
  ELSE IF at = "nextHook" THEN {"MTXHookEvent"}
  ELSE {}

Typed ==
  /\ thread \in [Thread -> Busy]
  /\ eventList \in [Event -> Service \cup {Nobody}]
  /\ Listing \subseteq Event

LocksByPlace == \A t \in Thread : thread[t].locks = LocksAt(thread[t].at)
Exclusive == \A t, u \in Thread : t # u => thread[t].locks \cap thread[u].locks = {}
RegisteringIsListed ==
  \A t \in Thread : Is(t, "registerEvent") => eventList[thread[t].e] # Nobody

Inv == Typed /\ LocksByPlace /\ Exclusive /\ RegisteringIsListed /\ EventsAreListed

\* the conjuncts about threads, together
Placed == thread \in [Thread -> Busy] /\ LocksByPlace /\ Exclusive

\* a thread in an operation on eventList
HasEventList(t) == thread[t].at \in {"registerEvent", "removeEvent", "cleanupEvents"}

-----------------------------------------------------------------------------
\* Two threads are never both in an operation on eventList.
LEMMA OneHasEventList ==
  ASSUME LocksByPlace, Exclusive, NEW t \in Thread, NEW u \in Thread,
         HasEventList(t), HasEventList(u)
  PROVE  t = u
BY DEF LocksByPlace, Exclusive, HasEventList, LocksAt

\* Who finds the mutex of eventList free is alone there.
LEMMA NobodyHasEventList ==
  ASSUME LocksByPlace, Free("MTXEventList"), NEW u \in Thread
  PROVE  ~HasEventList(u)
BY DEF LocksByPlace, Free, HasEventList, LocksAt

\* A step that puts one thread at a place whose mutexes were free, or its own, keeps the
\* mutexes exclusive.
LEMMA GoesKeepsLocks ==
  ASSUME Placed, NEW t \in Thread, NEW at \in At,
         NEW e \in Event, NEW s \in Service,
         Goes(t, at, e, s, LocksAt(at)),
         \A m \in LocksAt(at) : m \in thread[t].locks \/ Free(m)
  PROVE  /\ Placed'
         /\ thread'[t] = [at |-> at, e |-> e, s |-> s, locks |-> LocksAt(at)]
         /\ \A u \in Thread \ {t} : thread'[u] = thread[u]
<1>1. LocksAt(at) \subseteq Mutex
  BY DEF LocksAt, Mutex
<1>2. /\ thread' \in [Thread -> Busy]
      /\ thread'[t] = [at |-> at, e |-> e, s |-> s, locks |-> LocksAt(at)]
      /\ \A u \in Thread \ {t} : thread'[u] = thread[u]
  BY <1>1 DEF Placed, Goes, Busy
<1>3. LocksByPlace'
  BY <1>2 DEF Placed, LocksByPlace
<1>4. Exclusive'
  <2>1. \A u \in Thread \ {t} : LocksAt(at) \cap thread[u].locks = {}
    BY DEF Placed, Exclusive, Free
  <2> QED
    BY <1>2, <2>1 DEF Placed, Exclusive
<1> QED
  BY <1>2, <1>3, <1>4 DEF Placed

\* The same for a thread that goes on with its event and service ...
LEMMA ContinuesKeepsLocks ==
  ASSUME Placed, NEW t \in Thread, NEW at \in At, Continues(t, at, LocksAt(at)),
         \A m \in LocksAt(at) : m \in thread[t].locks \/ Free(m)
  PROVE  /\ Placed'
         /\ thread'[t].at = at
         /\ \A u \in Thread \ {t} : thread'[u] = thread[u]
<1>1. thread[t].e \in Event /\ thread[t].s \in Service
  BY DEF Placed, Busy
<1>2. Goes(t, at, thread[t].e, thread[t].s, LocksAt(at))
  BY DEF Continues
<1>3. /\ Placed'
      /\ thread'[t] = [at |-> at, e |-> thread[t].e, s |-> thread[t].s, locks |-> LocksAt(at)]
      /\ \A u \in Thread \ {t} : thread'[u] = thread[u]
  BY <1>1, <1>2, GoesKeepsLocks
<1> QED
  BY <1>3

\* ... and for one whose operation ends.
LEMMA EndsKeepsLocks ==
  ASSUME Placed, NEW t \in Thread, Ends(t)
  PROVE  /\ Placed'
         /\ thread'[t].at = "idle"
         /\ \A u \in Thread \ {t} : thread'[u] = thread[u]
<1>1. LocksAt("idle") = {} /\ "idle" \in At
  BY DEF LocksAt, At
<1> QED
  BY <1>1, ContinuesKeepsLocks DEF Ends

\* A step of a thread that is not about to list an event, and that changes neither
\* eventList nor which events have a vector.
LEMMA OtherStepKeepsLists ==
  ASSUME Inv, NEW t \in Thread, UNCHANGED eventList, Listing' = Listing,
         \A u \in Thread \ {t} : thread'[u] = thread[u],
         ~Is(t, "registerEvent"), thread'[t].at # "registerEvent"
  PROVE  RegisteringIsListed' /\ EventsAreListed'
<1>1. RegisteringIsListed'
  BY DEF Inv, RegisteringIsListed, Is
<1>2. ASSUME NEW e \in Event, NEW s \in Service
      PROVE  Within("registerEvent", e, s)' <=> Within("registerEvent", e, s)
  BY DEF Within, Is
<1>3. EventsAreListed'
  BY <1>2 DEF Inv, EventsAreListed
<1> QED
  BY <1>1, <1>3

LEMMA InitInv == Init => Inv
<1> SUFFICES ASSUME Init PROVE Inv
  OBVIOUS
<1>1. PICK e \in Event, s \in Service :
        thread = [t \in Thread |-> [at |-> "idle", e |-> e, s |-> s, locks |-> {}]]
  BY DEF Init
<1>2. Placed
  BY <1>1 DEF Placed, Busy, At, LocksByPlace, LocksAt, Exclusive
<1>3. Listing = {}
  BY DEF Init, Listing
<1>4. Typed /\ RegisteringIsListed
  BY <1>1, <1>2, <1>3 DEF Init, Typed, Placed, RegisteringIsListed, Is
<1>5. EventsAreListed
  BY <1>3 DEF Init, EventsAreListed
<1> QED
  BY <1>2, <1>4, <1>5 DEF Inv, Placed

-----------------------------------------------------------------------------
(* The steps that change which events exist.                               *)

LEMMA RegisterEventInv ==
  ASSUME Inv, NEW t \in Thread, NEW e \in Event, NEW s \in Service, RegisterEvent(t, e, s)
  PROVE  Inv'
<1> USE DEF Inv
<1>1. /\ Placed'
      /\ thread'[t] = [at |-> "registerEvent", e |-> e, s |-> s, locks |-> {"MTXEventList"}]
      /\ \A u \in Thread \ {t} : thread'[u] = thread[u]
  <2>1. LocksAt("registerEvent") = {"MTXEventList"} /\ "registerEvent" \in At
    BY DEF LocksAt, At
  <2> QED
    BY <2>1, GoesKeepsLocks DEF RegisterEvent, Placed, Typed
<1>2. Typed' /\ eventList' = [eventList EXCEPT ![e] = s] /\ Listing' = Listing
  BY <1>1 DEF RegisterEvent, Typed, Placed, Listing
<1>3. RegisteringIsListed'
  BY <1>1, <1>2, NobodyAssumption DEF RegisteringIsListed, Is, Typed
<1>4. ASSUME NEW f \in Event
      PROVE  (f \in Listing <=> eventList[f] # Nobody
                /\ \A r \in Service : ~Within("registerEvent", f, r))'
  <2>1. CASE f = e
    <3>1. e \notin Listing
      BY DEF RegisterEvent, EventsAreListed
    <3>2. Within("registerEvent", e, s)'
      BY <1>1 DEF Within
    <3> QED
      BY <2>1, <3>1, <3>2, <1>2
  <2>2. CASE f # e
    <3>1. ASSUME NEW r \in Service
          PROVE  Within("registerEvent", f, r)' <=> Within("registerEvent", f, r)
      BY <1>1, <2>2 DEF Within, RegisterEvent, Is
    <3> QED
      BY <1>2, <2>2, <3>1 DEF EventsAreListed, Typed
  <2> QED
    BY <2>1, <2>2
<1> QED
  BY <1>1, <1>2, <1>3, <1>4 DEF Placed, EventsAreListed

LEMMA EventListedInv ==
  ASSUME Inv, NEW t \in Thread, EventListed(t)
  PROVE  Inv'
<1> USE DEF Inv
<1>p. Placed
  BY DEF Typed, Placed
<1>0. PICK e \in Event : e = thread[t].e /\ thread[t].s \in Service
  BY DEF Typed, Busy
<1>1. /\ Placed'
      /\ thread'[t].at = "idle"
      /\ \A u \in Thread \ {t} : thread'[u] = thread[u]
  BY <1>p, EndsKeepsLocks DEF EventListed
<1>2. e \notin Listing
  <2>1. Within("registerEvent", e, thread[t].s)
    BY <1>0 DEF EventListed, Is, Within
  <2> QED
    BY <1>0, <2>1 DEF EventsAreListed
<1>3. Listing' = Listing \cup {e} /\ UNCHANGED eventList
  <2>1. PICK hooks \in SetToSeqs(HooksOf(e)) :
          hookedEvents' = [f \in Listing \cup {e} |-> IF f \in Listing THEN hookedEvents[f] ELSE hooks]
    BY <1>0, <1>2 DEF EventListed
  <2> QED
    BY <2>1 DEF EventListed, Listing
<1>4. Typed'
  BY <1>0, <1>1, <1>3 DEF Typed, Placed
<1>5. RegisteringIsListed'
  BY <1>1, <1>3 DEF RegisteringIsListed, Is
<1>6. ASSUME NEW f \in Event
      PROVE  (f \in Listing <=> eventList[f] # Nobody
                /\ \A r \in Service : ~Within("registerEvent", f, r))'
  <2>1. CASE f = e
    <3>1. \A u \in Thread \ {t} : thread[u].at # "registerEvent"
      BY OneHasEventList DEF EventListed, Is, HasEventList
    <3>2. \A r \in Service : ~Within("registerEvent", e, r)'
      BY <1>1, <3>1 DEF Within
    <3> QED
      BY <1>0, <1>3, <2>1, <3>2 DEF EventListed, RegisteringIsListed
  <2>2. CASE f # e
    <3>1. ASSUME NEW r \in Service
          PROVE  Within("registerEvent", f, r)' <=> Within("registerEvent", f, r)
      BY <1>0, <1>1, <2>2 DEF Within
    <3> QED
      BY <1>3, <2>2, <3>1 DEF EventsAreListed
  <2> QED
    BY <2>1, <2>2
<1> QED
  BY <1>1, <1>4, <1>5, <1>6 DEF Placed, EventsAreListed

\* Events disappear while the thread has their mutex, so nobody is registering one.
LEMMA EventsGoneInv ==
  ASSUME Inv, Placed', NEW t \in Thread, HasEventList(t), ~Is(t, "registerEvent"),
         thread'[t].at # "registerEvent",
         \A u \in Thread \ {t} : thread'[u] = thread[u],
         NEW es \in SUBSET Event, Listing' = Listing \ es,
         eventList' = [e \in Event |-> IF e \in es THEN Nobody ELSE eventList[e]]
  PROVE  Inv'
<1> USE DEF Inv
<1>1. \A u \in Thread : thread[u].at # "registerEvent"
  BY OneHasEventList DEF HasEventList, Is
<1>2. \A u \in Thread : thread'[u].at # "registerEvent"
  BY <1>1
<1>3. RegisteringIsListed'
  BY <1>2 DEF RegisteringIsListed, Is
<1>4. ASSUME NEW e \in Event
      PROVE  e \in Listing <=> eventList[e] # Nobody
  BY <1>1 DEF EventsAreListed, Within
<1>5. ASSUME NEW e \in Event
      PROVE  (e \in Listing)' <=> eventList'[e] # Nobody
  BY <1>4
<1>6. EventsAreListed'
  BY <1>2, <1>5 DEF EventsAreListed, Within
<1>7. Typed'
  BY DEF Typed, Placed
<1> QED
  BY <1>3, <1>6, <1>7 DEF Placed

LEMMA EventRemovedInv ==
  ASSUME Inv, NEW t \in Thread, EventRemoved(t)
  PROVE  Inv'
<1>1. Placed' /\ thread'[t].at = "idle" /\ \A u \in Thread \ {t} : thread'[u] = thread[u]
  BY EndsKeepsLocks DEF EventRemoved, Inv, Typed, Placed
<1>2. PICK e \in Event : e = thread[t].e
  BY DEF Inv, Typed, Busy
<1>3. /\ Listing' = Listing \ {e}
      /\ eventList' = [f \in Event |-> IF f \in {e} THEN Nobody ELSE eventList[f]]
  BY <1>2 DEF EventRemoved, Unlisted, Restrict, Listing, Inv, Typed
<1>4. HasEventList(t) /\ ~Is(t, "registerEvent")
  BY DEF EventRemoved, Is, HasEventList
<1> QED
  BY <1>1, <1>3, <1>4, EventsGoneInv

LEMMA EventsCleanedInv ==
  ASSUME Inv, NEW t \in Thread, EventsCleaned(t)
  PROVE  Inv'
<1>1. LocksAt("cleanupHooks") = {} /\ "cleanupHooks" \in At
  BY DEF LocksAt, At
<1>2. Placed' /\ thread'[t].at = "cleanupHooks" /\ \A u \in Thread \ {t} : thread'[u] = thread[u]
  BY <1>1, ContinuesKeepsLocks DEF EventsCleaned, Inv, Typed, Placed
<1>3. PICK es \in SUBSET Event : es = Owned(thread[t].s)
  BY DEF Owned
<1>4. /\ Listing' = Listing \ es
      /\ eventList' = [f \in Event |-> IF f \in es THEN Nobody ELSE eventList[f]]
  BY <1>3 DEF EventsCleaned, Unlisted, Restrict, Listing
<1>5. HasEventList(t) /\ ~Is(t, "registerEvent")
  BY DEF EventsCleaned, Is, HasEventList
<1> QED
  BY <1>2, <1>4, <1>5, EventsGoneInv

-----------------------------------------------------------------------------
(* All the other steps.                                                    *)

\* what the remaining actions have in common
Elsewhere(t) ==
  /\ UNCHANGED eventList /\ Listing' = Listing
  /\ ~Is(t, "registerEvent") /\ thread'[t].at # "registerEvent"
  /\ \A u \in Thread \ {t} : thread'[u] = thread[u]

LEMMA ElsewhereInv ==
  ASSUME Inv, Placed', NEW t \in Thread, Elsewhere(t)
  PROVE  Inv'
<1>1. RegisteringIsListed' /\ EventsAreListed'
  BY OtherStepKeepsLists DEF Elsewhere
<1>2. Typed'
  BY DEF Elsewhere, Typed, Placed, Inv
<1> QED
  BY <1>1, <1>2 DEF Inv, Placed

LEMMA BeginsElsewhere ==
  ASSUME Inv, NEW t \in Thread, Is(t, "idle"),
         NEW at \in At \ {"registerEvent"}, NEW e \in Event, NEW s \in Service,
         Goes(t, at, e, s, LocksAt(at)), \A m \in LocksAt(at) : Free(m),
         UNCHANGED eventList, Listing' = Listing
  PROVE  Inv'
<1>1. Placed
  BY DEF Inv, Typed, Placed
<1>2. /\ Placed'
      /\ thread'[t] = [at |-> at, e |-> e, s |-> s, locks |-> LocksAt(at)]
      /\ \A u \in Thread \ {t} : thread'[u] = thread[u]
  BY <1>1, GoesKeepsLocks
<1>3. Elsewhere(t)
  BY <1>2 DEF Elsewhere, Is
<1> QED
  BY <1>2, <1>3, ElsewhereInv

LEMMA ContinuesElsewhere ==
  ASSUME Inv, NEW t \in Thread, ~Is(t, "registerEvent"),
         NEW at \in At \ {"registerEvent"}, Continues(t, at, LocksAt(at)),
         \A m \in LocksAt(at) : m \in thread[t].locks \/ Free(m),
         UNCHANGED eventList, Listing' = Listing
  PROVE  Inv'
<1>1. Placed
  BY DEF Inv, Typed, Placed
<1>2. Placed' /\ thread'[t].at = at /\ \A u \in Thread \ {t} : thread'[u] = thread[u]
  BY <1>1, ContinuesKeepsLocks
<1>3. Elsewhere(t)
  BY <1>2 DEF Elsewhere, Is
<1> QED
  BY <1>2, <1>3, ElsewhereInv

LEMMA EndsElsewhere ==
  ASSUME Inv, NEW t \in Thread, ~Is(t, "registerEvent"), Ends(t),
         UNCHANGED eventList, Listing' = Listing
  PROVE  Inv'
<1>1. LocksAt("idle") = {} /\ "idle" \in At
  BY DEF LocksAt, At
<1> QED
  BY <1>1, ContinuesElsewhere DEF Ends

LEMMA BeginsInv ==
  ASSUME Inv, NEW t \in Thread, Begins(t)
  PROVE  Inv'
<1>1. ASSUME NEW e \in Event, NEW s \in Service, RegisterHook(t, e, s)
      PROVE  Inv'
  <2>1. LocksAt("registerHook") = {"MTXHookList"} /\ "registerHook" \in At
    BY DEF LocksAt, At
  <2>2. /\ Is(t, "idle") /\ Free("MTXHookList")
        /\ Goes(t, "registerHook", e, s, {"MTXHookList"})
        /\ UNCHANGED eventList /\ Listing' = Listing
    BY <1>1 DEF RegisterHook, Listing
  <2> QED
    BY <2>1, <2>2, BeginsElsewhere
<1>2. ASSUME NEW e \in Event, NEW s \in Service, RemoveHook(t, e, s)
      PROVE  Inv'
  <2>1. LocksAt("removeHook") = {"MTXHookList"} /\ "removeHook" \in At
    BY DEF LocksAt, At
  <2>2. /\ Is(t, "idle") /\ Free("MTXHookList")
        /\ Goes(t, "removeHook", e, s, {"MTXHookList"})
        /\ UNCHANGED eventList /\ Listing' = Listing
    BY <1>2 DEF RemoveHook, Listing
  <2> QED
    BY <2>1, <2>2, BeginsElsewhere
<1>3. ASSUME NEW e \in Event, RemoveEvent(t, e)
      PROVE  Inv'
  <2>1. LocksAt("removeEvent") = {"MTXEventList"} /\ "removeEvent" \in At
    BY DEF LocksAt, At
  <2>2. /\ Is(t, "idle") /\ Free("MTXEventList")
        /\ Goes(t, "removeEvent", e, thread[t].s, {"MTXEventList"})
        /\ UNCHANGED eventList /\ Listing' = Listing
    BY <1>3 DEF RemoveEvent, Listing
  <2>3. thread[t].s \in Service
    BY DEF Inv, Typed, Busy
  <2> QED
    BY <2>1, <2>2, <2>3, BeginsElsewhere
<1>4. ASSUME NEW e \in Event, FireEvent(t, e)
      PROVE  Inv'
  <2>1. LocksAt("nextHook") = {"MTXHookEvent"} /\ "nextHook" \in At
    BY DEF LocksAt, At
  <2>2. /\ Is(t, "idle") /\ Free("MTXHookEvent")
        /\ Goes(t, "nextHook", e, thread[t].s, {"MTXHookEvent"})
        /\ UNCHANGED eventList /\ Listing' = Listing
    BY <1>4 DEF FireEvent, Listing
  <2>3. thread[t].s \in Service
    BY DEF Inv, Typed, Busy
  <2> QED
    BY <2>1, <2>2, <2>3, BeginsElsewhere
<1>5. ASSUME NEW s \in Service, Cleanup(t, s)
      PROVE  Inv'
  <2>1. /\ LocksAt("cleanupHooks") = {} /\ "cleanupHooks" \in At
        /\ LocksAt("cleanupEvents") = {"MTXEventList"} /\ "cleanupEvents" \in At
    BY DEF LocksAt, At
  <2>2. Is(t, "idle") /\ UNCHANGED eventList /\ Listing' = Listing
    BY <1>5 DEF Cleanup, Listing
  <2>3. thread[t].e \in Event
    BY DEF Inv, Typed, Busy
  <2>4. CASE Goes(t, "cleanupHooks", thread[t].e, s, {})
    BY <2>1, <2>2, <2>3, <2>4, BeginsElsewhere
  <2>5. CASE Free("MTXEventList") /\ Goes(t, "cleanupEvents", thread[t].e, s, {"MTXEventList"})
    BY <2>1, <2>2, <2>3, <2>5, BeginsElsewhere
  <2> QED
    BY <1>5, <2>4, <2>5 DEF Cleanup
<1> QED
  BY <1>1, <1>2, <1>3, <1>4, <1>5, RegisterEventInv DEF Begins

\* hooks are pairs of an event and a service
HooksTyped == hookList \subseteq Hook

LEMMA HooksType ==
  ASSUME HooksTyped, Next
  PROVE  HooksTyped'
<1>1. PICK t \in Thread : Begins(t) \/ GoesOn(t)
  BY DEF Next
<1>2. CASE \E e \in Event, s \in Service : RegisterHook(t, e, s)
  BY <1>2 DEF RegisterHook, HooksTyped, Hook
<1>3. CASE Begins(t) /\ ~\E e \in Event, s \in Service : RegisterHook(t, e, s)
  <2>1. hookList' = hookList
    BY <1>3 DEF Begins, RegisterEvent, RemoveHook, RemoveEvent, FireEvent, Cleanup
  <2> QED
    BY <2>1 DEF HooksTyped
<1>4. CASE GoesOn(t)
  <2>1. hookList' \subseteq hookList
    BY <1>4 DEF GoesOn, EventListed, EventRemoved, HookListed, HookUnlisted, HookErased,
       EventsCleaned, CleanupHooks, HooksCleaned, HookMissing, HookFound, Sent, SendFails,
       Fired, FireReturns
  <2> QED
    BY <2>1 DEF HooksTyped
<1> QED
  BY <1>1, <1>2, <1>3, <1>4

LEMMA GoesOnInv ==
  ASSUME Inv, HooksTyped, NEW t \in Thread, GoesOn(t)
  PROVE  Inv'
<1>1. ASSUME HookListed(t) PROVE Inv'
  <2>1. ~Is(t, "registerEvent") /\ Ends(t) /\ UNCHANGED eventList /\ Listing' = Listing
    BY <1>1 DEF HookListed, Is, Listing
  <2> QED
    BY <2>1, EndsElsewhere
<1>2. ASSUME HookUnlisted(t) PROVE Inv'
  <2>1. LocksAt("eraseHook") = {"MTXHookList"} /\ "eraseHook" \in At
    BY DEF LocksAt, At
  <2>2. /\ ~Is(t, "registerEvent") /\ Continues(t, "eraseHook", {"MTXHookList"})
        /\ UNCHANGED eventList /\ Listing' = Listing
    BY <1>2 DEF HookUnlisted, Is, Listing
  <2>3. thread[t].locks = {"MTXHookList"}
    BY <1>2 DEF HookUnlisted, Is, Inv, LocksByPlace, LocksAt
  <2> QED
    BY <2>1, <2>2, <2>3, ContinuesElsewhere
<1>3. ASSUME HookErased(t) PROVE Inv'
  <2>1. ~Is(t, "registerEvent") /\ Ends(t) /\ UNCHANGED eventList /\ Listing' = Listing
    BY <1>3 DEF HookErased, Is, Listing
  <2> QED
    BY <2>1, EndsElsewhere
<1>4. ASSUME CleanupHooks(t) PROVE Inv'
  <2>1. LocksAt("cleanupHooked") = {"MTXHookList"} /\ "cleanupHooked" \in At
    BY DEF LocksAt, At
  <2>2. ~Is(t, "registerEvent") /\ UNCHANGED eventList /\ Listing' = Listing
    BY <1>4 DEF CleanupHooks, Is, Listing
  <2>3. CASE Ends(t)
    BY <2>2, <2>3, EndsElsewhere
  <2>4. CASE Free("MTXHookList") /\ Continues(t, "cleanupHooked", {"MTXHookList"})
    BY <2>1, <2>2, <2>4, ContinuesElsewhere
  <2> QED
    BY <1>4, <2>3, <2>4 DEF CleanupHooks
<1>5. ASSUME HooksCleaned(t) PROVE Inv'
  <2>1. ~Is(t, "registerEvent") /\ Ends(t) /\ UNCHANGED eventList /\ Listing' = Listing
    BY <1>5 DEF HooksCleaned, Is, Listing
  <2> QED
    BY <2>1, EndsElsewhere
<1>6. ASSUME HookMissing(t) PROVE Inv'
  <2>1. UNCHANGED <<eventList, hookedEvents, thread>>
    BY <1>6 DEF HookMissing
  <2> QED
    BY <2>1 DEF Inv, Typed, LocksByPlace, Exclusive, RegisteringIsListed, EventsAreListed,
                Listing, Within, Is
<1>7. ASSUME HookFound(t) PROVE Inv'
  <2>1. LocksAt("sending") = {} /\ "sending" \in At
    BY DEF LocksAt, At
  <2>2. PICK s \in Listed(t) :
          <<thread[t].e, s>> \in hookList /\ Goes(t, "sending", thread[t].e, s, {})
    BY <1>7 DEF HookFound
  <2>3. s \in Service /\ thread[t].e \in Event
    BY <2>2 DEF HooksTyped, Hook
  <2>4. ~Is(t, "registerEvent") /\ UNCHANGED eventList /\ Listing' = Listing
    BY <1>7 DEF HookFound, Is, Listing
  <2>5. Placed
    BY DEF Inv, Typed, Placed
  <2>6. /\ Goes(t, "sending", thread[t].e, s, LocksAt("sending"))
        /\ \A m \in LocksAt("sending") : m \in thread[t].locks \/ Free(m)
    BY <2>1, <2>2
  <2>7. /\ Placed'
        /\ thread'[t] = [at |-> "sending", e |-> thread[t].e, s |-> s, locks |-> LocksAt("sending")]
        /\ \A u \in Thread \ {t} : thread'[u] = thread[u]
    BY <2>1, <2>3, <2>5, <2>6, GoesKeepsLocks
  <2>8. thread'[t].at = "sending"
    BY <2>7
  <2> QED
    BY <2>4, <2>7, <2>8, ElsewhereInv DEF Elsewhere
<1>8. ASSUME Sent(t) PROVE Inv'
  <2>1. LocksAt("nextHook") = {"MTXHookEvent"} /\ "nextHook" \in At
    BY DEF LocksAt, At
  <2>2. /\ ~Is(t, "registerEvent") /\ Continues(t, "nextHook", {"MTXHookEvent"})
        /\ UNCHANGED eventList /\ Listing' = Listing
    BY <1>8 DEF Sent, Is, Listing
  <2>3. Free("MTXHookEvent")
    BY <1>8 DEF Sent
  <2> QED
    BY <2>1, <2>2, <2>3, ContinuesElsewhere
<1>9. ASSUME SendFails(t) PROVE Inv'
  <2>1. LocksAt("failed") = {} /\ "failed" \in At
    BY DEF LocksAt, At
  <2>2. /\ ~Is(t, "registerEvent") /\ Continues(t, "failed", {})
        /\ UNCHANGED eventList /\ Listing' = Listing
    BY <1>9 DEF SendFails, Is, Listing
  <2> QED
    BY <2>1, <2>2, ContinuesElsewhere
<1>10. ASSUME Fired(t) PROVE Inv'
  <2>1. LocksAt("fired") = {} /\ "fired" \in At
    BY DEF LocksAt, At
  <2>2. /\ ~Is(t, "registerEvent") /\ Continues(t, "fired", {})
        /\ UNCHANGED eventList /\ Listing' = Listing
    BY <1>10 DEF Fired, Is, Listing
  <2> QED
    BY <2>1, <2>2, ContinuesElsewhere
<1>11. ASSUME FireReturns(t) PROVE Inv'
  <2>1. ~Is(t, "registerEvent") /\ Ends(t) /\ UNCHANGED eventList /\ Listing' = Listing
    BY <1>11 DEF FireReturns, Is, Listing
  <2> QED
    BY <2>1, EndsElsewhere
<1> QED
  BY <1>1, <1>2, <1>3, <1>4, <1>5, <1>6, <1>7, <1>8, <1>9, <1>10, <1>11,
     EventListedInv, EventRemovedInv, EventsCleanedInv DEF GoesOn

-----------------------------------------------------------------------------
(* Every hook of an event that exists is in the event's vector.            *)

VectorsTyped == \A e \in Listing : hookedEvents[e] \in Seq(Service)

\* only finitely many services have hooked an event, so a list of them exists
HooksFinite == \A e \in Event : IsFiniteSet(HooksOf(e))

HookInv == HooksTyped /\ HooksFinite /\ VectorsTyped /\ HooksAreListed

OthersStay(t) == \A u \in Thread \ {t} : thread'[u] = thread[u]

\* thread t is registering the hook of s on e, or taking it out
Busies(t, e, s) ==
  thread[t].at \in {"registerHook", "eraseHook"} /\ thread[t].e = e /\ thread[t].s = s

LEMMA GoesTo ==
  ASSUME Inv, NEW t \in Thread, NEW at, NEW e, NEW s, NEW locks, Goes(t, at, e, s, locks)
  PROVE  thread'[t] = [at |-> at, e |-> e, s |-> s, locks |-> locks] /\ OthersStay(t)
BY DEF Goes, OthersStay, Inv, Typed

LEMMA ContinuesTo ==
  ASSUME Inv, NEW t \in Thread, NEW at, \E locks : Continues(t, at, locks)
  PROVE  thread'[t].at = at /\ thread'[t].e = thread[t].e
<1>1. PICK locks : Goes(t, at, thread[t].e, thread[t].s, locks)
  BY DEF Continues
<1>2. thread'[t] = [at |-> at, e |-> thread[t].e, s |-> thread[t].s, locks |-> locks]
  BY <1>1, GoesTo
<1> QED
  BY <1>2

\* A step moves one thread.
LEMMA NextMovesOne ==
  ASSUME Inv, NEW t \in Thread, Begins(t) \/ GoesOn(t)
  PROVE  OthersStay(t)
<1>1. CASE UNCHANGED thread
  BY <1>1 DEF OthersStay
<1>2. CASE \E at, e, s, locks : Goes(t, at, e, s, locks)
  BY <1>2, GoesTo
<1>3. CASE Begins(t)
  BY <1>3, <1>2 DEF Begins, RegisterEvent, RegisterHook, RemoveHook, RemoveEvent, FireEvent,
                    Cleanup
<1>4. CASE GoesOn(t)
  BY <1>4, <1>1, <1>2 DEF GoesOn, EventListed, EventRemoved, HookListed, HookUnlisted,
     HookErased, EventsCleaned, CleanupHooks, HooksCleaned, HookMissing, HookFound, Sent,
     SendFails, Fired, FireReturns, Ends, Continues
<1> QED
  BY <1>3, <1>4

\* A hook that must be listed after a step of another thread, or of t with another hook, had
\* to be listed before.
LEMMA WasListed ==
  ASSUME HookInv, NEW t \in Thread, OthersStay(t), NEW e \in Listing, NEW s \in Service,
         ~Busies(t, e, s), <<e, s>> \in hookList,
         ~Within("registerHook", e, s)', ~Within("eraseHook", e, s)'
  PROVE  Contains(hookedEvents[e], s)
<1>1. ASSUME NEW at \in {"registerHook", "eraseHook"}, Within(at, e, s)
      PROVE  Within(at, e, s)'
  <2>1. PICK u \in Thread : thread[u].at = at /\ thread[u].e = e /\ thread[u].s = s
    BY <1>1 DEF Within
  <2>2. u # t
    BY <2>1 DEF Busies
  <2> QED
    BY <2>1, <2>2 DEF OthersStay, Within
<1> QED
  BY <1>1 DEF HookInv, HooksAreListed

\* The hooks of an event stay finitely many when one is added or some go.
LEMMA HooksStayFinite ==
  ASSUME HookInv, NEW h, hookList' \subseteq hookList \cup {h}
  PROVE  HooksFinite'
<1> SUFFICES ASSUME NEW e \in Event PROVE IsFiniteSet(HooksOf(e)')
  BY DEF HooksFinite
<1>1. IsFiniteSet(HooksOf(e) \cup {h[2]})
  BY FS_AddElement DEF HookInv, HooksFinite
<1>2. HooksOf(e)' \subseteq HooksOf(e) \cup {h[2]}
  BY DEF HooksOf
<1> QED
  BY <1>1, <1>2, FS_Subset

\* A step that leaves the lists alone, of a thread that has no hook in hand.
LEMMA QuietKeepsHooks ==
  ASSUME HookInv, NEW t \in Thread, OthersStay(t), UNCHANGED <<hookList, hookedEvents>>,
         thread[t].at \notin {"registerHook", "eraseHook"}
  PROVE  HookInv'
<1>1. HooksTyped' /\ VectorsTyped' /\ HooksFinite'
  BY DEF HookInv, HooksTyped, VectorsTyped, HooksFinite, HooksOf, Listing
<1>2. HooksAreListed'
  BY WasListed DEF HooksAreListed, Busies, Listing
<1> QED
  BY <1>1, <1>2 DEF HookInv

LEMMA RegisterHookHooks ==
  ASSUME Inv, HookInv, NEW t \in Thread, NEW e \in Event, NEW s \in Service,
         RegisterHook(t, e, s)
  PROVE  HookInv'
<1>1. OthersStay(t) /\ Within("registerHook", e, s)'
  <2>1. Goes(t, "registerHook", e, s, {"MTXHookList"})
    BY DEF RegisterHook
  <2>2. thread'[t] = [at |-> "registerHook", e |-> e, s |-> s, locks |-> {"MTXHookList"}]
    BY <2>1, GoesTo
  <2>3. OthersStay(t)
    BY <2>1, GoesTo
  <2> QED
    BY <2>2, <2>3 DEF Within
<1>2. HooksTyped' /\ VectorsTyped'
  BY DEF RegisterHook, HookInv, HooksTyped, VectorsTyped, Listing, Hook
<1>3. HooksFinite'
  BY HooksStayFinite DEF RegisterHook
<1>4. ASSUME NEW f \in Listing, NEW r \in Service, <<f, r>> \in hookList',
             ~Within("registerHook", f, r)', ~Within("eraseHook", f, r)'
      PROVE  Contains(hookedEvents[f], r)
  <2>1. <<f, r>> \in hookList
    BY <1>1, <1>4 DEF RegisterHook
  <2>2. ~Busies(t, f, r)
    BY DEF RegisterHook, Is, Busies
  <2> QED
    BY <1>1, <1>4, <2>1, <2>2, WasListed
<1>5. HooksAreListed'
  BY <1>4 DEF RegisterHook, HooksAreListed, Listing
<1> QED
  BY <1>2, <1>3, <1>5 DEF HookInv

\* push_back puts one more at the end
LEMMA AppendKeeps ==
  ASSUME NEW S, NEW l \in Seq(S), NEW s \in S
  PROVE  /\ Append(l, s) \in Seq(S) /\ Contains(Append(l, s), s)
         /\ \A r : Contains(l, r) => Contains(Append(l, s), r)
<1>1. /\ Append(l, s) \in Seq(S) /\ Len(Append(l, s)) = Len(l) + 1 /\ Len(l) \in Nat
      /\ Append(l, s)[Len(l) + 1] = s
      /\ \A i \in 1..Len(l) : Append(l, s)[i] = l[i]
  BY AppendProperties, LenProperties
<1> QED
  BY <1>1 DEF Contains

LEMMA HookListedHooks ==
  ASSUME Inv, HookInv, NEW t \in Thread, OthersStay(t), HookListed(t)
  PROVE  HookInv'
<1>0. PICK e \in Event, s \in Service : e = thread[t].e /\ s = thread[t].s
  BY DEF Inv, Typed, Busy
<1>1. HooksTyped' /\ HooksFinite'
  BY HooksStayFinite DEF HookListed, HookInv, HooksTyped
<1>2. CASE e \in Listing
  <2>1. hookedEvents' = [hookedEvents EXCEPT ![e] = Append(@, s)] /\ Listing' = Listing
    BY <1>0, <1>2 DEF HookListed, Listing
  <2>2. /\ hookedEvents'[e] \in Seq(Service) /\ Contains(hookedEvents'[e], s)
        /\ \A r \in Service : Contains(hookedEvents[e], r) => Contains(hookedEvents'[e], r)
    BY <1>2, <2>1, AppendKeeps DEF HookInv, VectorsTyped, Listing
  <2>3. \A f \in Listing \ {e} : hookedEvents'[f] = hookedEvents[f]
    BY <2>1 DEF Listing
  <2>4. VectorsTyped'
    BY <2>1, <2>2, <2>3 DEF HookInv, VectorsTyped
  <2>5. ASSUME NEW f \in Listing, NEW r \in Service, <<f, r>> \in hookList,
               ~Within("registerHook", f, r)', ~Within("eraseHook", f, r)'
        PROVE  Contains(hookedEvents'[f], r)
    <3>1. CASE f = e /\ r = s
      BY <2>2, <3>1
    <3>2. CASE ~(f = e /\ r = s)
      <4>1. ~Busies(t, f, r)
        BY <1>0, <3>2 DEF Busies
      <4>2. Contains(hookedEvents[f], r)
        BY <2>5, <4>1, WasListed
      <4> QED
        BY <2>2, <2>3, <4>2
    <3> QED
      BY <3>1, <3>2
  <2>6. HooksAreListed'
    BY <2>1, <2>5 DEF HookListed, HooksAreListed
  <2> QED
    BY <1>1, <2>4, <2>6 DEF HookInv
<1>3. CASE e \notin Listing
  <2>1. UNCHANGED <<hookList, hookedEvents>>
    BY <1>0, <1>3 DEF HookListed
  <2>2. VectorsTyped'
    BY <2>1 DEF HookInv, VectorsTyped, Listing
  <2>3. ASSUME NEW f \in Listing, NEW r \in Service, <<f, r>> \in hookList,
               ~Within("registerHook", f, r)', ~Within("eraseHook", f, r)'
        PROVE  Contains(hookedEvents[f], r)
    <3>1. ~Busies(t, f, r)
      BY <1>0, <1>3 DEF Busies
    <3> QED
      BY <2>3, <3>1, WasListed
  <2>4. HooksAreListed'
    BY <2>1, <2>3 DEF HooksAreListed, Listing
  <2> QED
    BY <1>1, <2>2, <2>4 DEF HookInv
<1> QED
  BY <1>2, <1>3

LEMMA HookUnlistedHooks ==
  ASSUME Inv, HookInv, NEW t \in Thread, OthersStay(t), HookUnlisted(t)
  PROVE  HookInv'
<1>0. PICK e \in Event, s \in Service : e = thread[t].e /\ s = thread[t].s
  BY DEF Inv, Typed, Busy
<1>1. HooksTyped' /\ HooksFinite'
  BY HooksStayFinite DEF HookUnlisted, HookInv, HooksTyped
<1>2. CASE e \in Listing /\ Contains(hookedEvents[e], s)
  <2>1. hookedEvents' = [hookedEvents EXCEPT ![e] = RemoveFirst(@, s)] /\ Listing' = Listing
    BY <1>0, <1>2 DEF HookUnlisted, Listing
  <2>2. /\ hookedEvents'[e] \in Seq(Service)
        /\ \A r \in Service \ {s} : Contains(hookedEvents[e], r) => Contains(hookedEvents'[e], r)
    <3>1. hookedEvents[e] \in Seq(Service)
      BY <1>2 DEF HookInv, VectorsTyped
    <3>2. hookedEvents'[e] = RemoveFirst(hookedEvents[e], s)
      BY <1>2, <2>1 DEF Listing
    <3> QED
      BY <1>2, <3>1, <3>2, RemoveFirstKeeps
  <2>3. \A f \in Listing \ {e} : hookedEvents'[f] = hookedEvents[f]
    BY <2>1 DEF Listing
  <2>4. VectorsTyped'
    BY <2>1, <2>2, <2>3 DEF HookInv, VectorsTyped
  <2>5. Within("eraseHook", e, s)'
    <3>1. Goes(t, "eraseHook", e, s, {"MTXHookList"})
      BY <1>0 DEF HookUnlisted, Continues
    <3>2. thread'[t] = [at |-> "eraseHook", e |-> e, s |-> s, locks |-> {"MTXHookList"}]
      BY <3>1, GoesTo
    <3> QED
      BY <3>2 DEF Within
  <2>6. ASSUME NEW f \in Listing, NEW r \in Service, <<f, r>> \in hookList,
               ~Within("registerHook", f, r)', ~Within("eraseHook", f, r)'
        PROVE  Contains(hookedEvents'[f], r)
    <3>1. ~Busies(t, f, r)
      BY DEF HookUnlisted, Is, Busies
    <3>2. Contains(hookedEvents[f], r)
      BY <2>6, <3>1, WasListed
    <3> QED
      BY <2>2, <2>3, <2>5, <2>6, <3>2
  <2>7. HooksAreListed'
    BY <2>1, <2>6 DEF HookUnlisted, HooksAreListed
  <2> QED
    BY <1>1, <2>4, <2>7 DEF HookInv
<1>3. CASE ~(e \in Listing /\ Contains(hookedEvents[e], s))
  <2>1. /\ UNCHANGED <<hookList, hookedEvents>>
        /\ thread[t].at \notin {"registerHook", "eraseHook"}
    BY <1>0, <1>3 DEF HookUnlisted, Is
  <2> QED
    BY <2>1, QuietKeepsHooks
<1> QED
  BY <1>2, <1>3

LEMMA HookErasedHooks ==
  ASSUME Inv, HookInv, NEW t \in Thread, OthersStay(t), HookErased(t)
  PROVE  HookInv'
<1>1. HooksTyped' /\ HooksFinite' /\ VectorsTyped'
  BY HooksStayFinite DEF HookErased, HookInv, HooksTyped, VectorsTyped, Listing
<1>2. ASSUME NEW f \in Listing, NEW r \in Service, <<f, r>> \in hookList',
             ~Within("registerHook", f, r)', ~Within("eraseHook", f, r)'
      PROVE  Contains(hookedEvents[f], r)
  <2>1. ~Busies(t, f, r) /\ <<f, r>> \in hookList
    BY <1>2 DEF HookErased, Busies
  <2> QED
    BY <1>2, <2>1, WasListed
<1>3. HooksAreListed'
  BY <1>2 DEF HookErased, HooksAreListed, Listing
<1> QED
  BY <1>1, <1>3 DEF HookInv

LEMMA EventListedHooks ==
  ASSUME Inv, HookInv, NEW t \in Thread, OthersStay(t), EventListed(t)
  PROVE  HookInv'
<1>0. PICK e \in Event : e = thread[t].e
  BY DEF Inv, Typed, Busy
<1>1. HooksTyped' /\ HooksFinite'
  BY HooksStayFinite DEF EventListed, HookInv, HooksTyped
<1>q. thread[t].at \notin {"registerHook", "eraseHook"}
  BY DEF EventListed, Is
<1>2. CASE e \in Listing
  <2>1. UNCHANGED <<hookList, hookedEvents>>
    BY <1>0, <1>2 DEF EventListed
  <2> QED
    BY <1>q, <2>1, QuietKeepsHooks
<1>3. CASE e \notin Listing
  <2>1. PICK hooks \in SetToSeqs(HooksOf(e)) :
          hookedEvents' = [f \in Listing \cup {e} |-> IF f \in Listing THEN hookedEvents[f] ELSE hooks]
    BY <1>0, <1>3 DEF EventListed
  <2>2. hooks \in Seq(Service) /\ \A r \in HooksOf(e) : Contains(hooks, r)
    <3>1. HooksOf(e) \subseteq Service /\ IsFiniteSet(HooksOf(e))
      BY DEF HookInv, HooksFinite, HooksOf
    <3> QED
      BY <3>1, SetToSeqsListsAll
  <2>3. /\ Listing' = Listing \cup {e} /\ hookedEvents'[e] = hooks
        /\ \A f \in Listing : hookedEvents'[f] = hookedEvents[f]
    BY <1>3, <2>1 DEF Listing
  <2>4. VectorsTyped'
    BY <2>2, <2>3 DEF HookInv, VectorsTyped
  <2>5. ASSUME NEW f \in Listing', NEW r \in Service, <<f, r>> \in hookList,
               ~Within("registerHook", f, r)', ~Within("eraseHook", f, r)'
        PROVE  Contains(hookedEvents'[f], r)
    <3>1. CASE f = e
      BY <2>2, <2>3, <2>5, <3>1 DEF HooksOf
    <3>2. CASE f \in Listing
      <4>1. ~Busies(t, f, r)
        BY <1>q DEF Busies
      <4>2. Contains(hookedEvents[f], r)
        BY <2>5, <3>2, <4>1, WasListed
      <4> QED
        BY <2>3, <3>2, <4>2
    <3> QED
      BY <2>3, <3>1, <3>2
  <2>6. HooksAreListed'
    BY <2>5 DEF EventListed, HooksAreListed
  <2> QED
    BY <1>1, <2>4, <2>6 DEF HookInv
<1> QED
  BY <1>2, <1>3

\* Events that go take their vectors with them.
LEMMA EventsGoneHooks ==
  ASSUME HookInv, NEW t \in Thread, OthersStay(t), NEW es, hookedEvents' = Unlisted(es),
         UNCHANGED hookList, thread[t].at \notin {"registerHook", "eraseHook"}
  PROVE  HookInv'
<1>1. HooksTyped' /\ HooksFinite'
  BY HooksStayFinite DEF HookInv, HooksTyped
<1>2. Listing' \subseteq Listing /\ \A e \in Listing' : hookedEvents'[e] = hookedEvents[e]
  BY DEF Unlisted, Restrict, Listing
<1>3. VectorsTyped'
  BY <1>2 DEF HookInv, VectorsTyped
<1>4. HooksAreListed'
  BY <1>2, WasListed DEF HooksAreListed, Busies
<1> QED
  BY <1>1, <1>3, <1>4 DEF HookInv

LEMMA HooksCleanedHooks ==
  ASSUME Inv, HookInv, NEW t \in Thread, OthersStay(t), HooksCleaned(t)
  PROVE  HookInv'
<1>0. PICK s \in Service : s = thread[t].s
  BY DEF Inv, Typed, Busy
<1> DEFINE hit == {e \in Listing : <<e, s>> \in hookList /\ Contains(hookedEvents[e], s)}
<1>1. /\ hookList' = hookList \ {h \in hookList : h[2] = s}
      /\ hookedEvents' = [e \in Listing |-> IF e \in hit THEN Without(hookedEvents[e], s)
                                                          ELSE hookedEvents[e]]
  BY <1>0 DEF HooksCleaned
<1>2. HooksTyped' /\ HooksFinite'
  BY <1>1, HooksStayFinite DEF HookInv, HooksTyped
<1>3. Listing' = Listing
  BY <1>1 DEF Listing
<1>4. ASSUME NEW e \in Listing
      PROVE  /\ hookedEvents'[e] \in Seq(Service)
             /\ \A r \in Service \ {s} : Contains(hookedEvents[e], r) => Contains(hookedEvents'[e], r)
  <2>1. hookedEvents[e] \in Seq(Service)
    BY DEF HookInv, VectorsTyped
  <2>2. hookedEvents'[e] \in {hookedEvents[e], Without(hookedEvents[e], s)}
    BY <1>1
  <2> QED
    BY <2>1, <2>2, WithoutKeeps
<1>5. VectorsTyped'
  BY <1>3, <1>4 DEF VectorsTyped
<1>6. ASSUME NEW f \in Listing, NEW r \in Service, <<f, r>> \in hookList',
             ~Within("registerHook", f, r)', ~Within("eraseHook", f, r)'
      PROVE  Contains(hookedEvents'[f], r)
  <2>1. r # s /\ <<f, r>> \in hookList
    BY <1>1, <1>6
  <2>2. ~Busies(t, f, r)
    BY DEF HooksCleaned, Is, Busies
  <2>3. Contains(hookedEvents[f], r)
    BY <1>6, <2>1, <2>2, WasListed
  <2> QED
    BY <1>4, <2>1, <2>3
<1>7. HooksAreListed'
  BY <1>3, <1>6 DEF HooksAreListed
<1> QED
  BY <1>2, <1>5, <1>7 DEF HookInv

LEMMA BeginsHooks ==
  ASSUME Inv, HookInv, NEW t \in Thread, Begins(t)
  PROVE  HookInv'
<1>1. OthersStay(t)
  BY NextMovesOne
<1>2. CASE \E e \in Event, s \in Service : RegisterHook(t, e, s)
  BY <1>2, RegisterHookHooks
<1>3. CASE ~\E e \in Event, s \in Service : RegisterHook(t, e, s)
  <2>1. UNCHANGED <<hookList, hookedEvents>> /\ Is(t, "idle")
    BY <1>3 DEF Begins, RegisterEvent, RemoveHook, RemoveEvent, FireEvent, Cleanup
  <2> QED
    BY <1>1, <2>1, QuietKeepsHooks DEF Is
<1> QED
  BY <1>2, <1>3

LEMMA GoesOnHooks ==
  ASSUME Inv, HookInv, NEW t \in Thread, GoesOn(t)
  PROVE  HookInv'
<1>1. OthersStay(t)
  BY NextMovesOne
<1>2. ASSUME EventRemoved(t) \/ EventsCleaned(t) PROVE HookInv'
  <2>1. PICK es : hookedEvents' = Unlisted(es)
    BY <1>2 DEF EventRemoved, EventsCleaned
  <2>2. UNCHANGED hookList /\ thread[t].at \notin {"registerHook", "eraseHook"}
    BY <1>2 DEF EventRemoved, EventsCleaned, Is
  <2> QED
    BY <1>1, <2>1, <2>2, EventsGoneHooks
<1>3. ASSUME \/ CleanupHooks(t) \/ HookMissing(t) \/ HookFound(t) \/ Sent(t)
             \/ SendFails(t) \/ Fired(t) \/ FireReturns(t)
      PROVE  HookInv'
  <2>1. /\ UNCHANGED <<hookList, hookedEvents>>
        /\ thread[t].at \notin {"registerHook", "eraseHook"}
    BY <1>3 DEF CleanupHooks, HookMissing, HookFound, Sent, SendFails, Fired, FireReturns, Is
  <2> QED
    BY <1>1, <2>1, QuietKeepsHooks
<1> QED
  BY <1>1, <1>2, <1>3, EventListedHooks, HookListedHooks, HookUnlistedHooks, HookErasedHooks,
     HooksCleanedHooks DEF GoesOn

-----------------------------------------------------------------------------
(* Firings: what is left of the list of hooks as it was at the start.      *)

\* r still stands in the vector behind the places the loop of t is done with
StillDue(t, r, from) ==
  LET v == hookedEvents[thread[t].e]
  IN \E j \in from..firing[t].end : j <= Len(v) /\ v[j] = r

\* the place from which on the loop of t still has to look
Ahead(t) == IF Is(t, "sending") THEN firing[t].i + 1 ELSE firing[t].i

DueOK(t) ==
  /\ Is(t, "fired") => firing[t].due = {}
  /\ thread[t].at \in {"nextHook", "sending"} /\ firing[t].due # {} =>
       /\ ~firing[t].moved /\ thread[t].e \in Listing
       /\ \A r \in firing[t].due :
            (Is(t, "sending") /\ r = thread[t].s) \/ StillDue(t, r, Ahead(t))

LoopsTyped == firing \in [Thread -> Loop]
LoopInv == LoopsTyped /\ \A t \in Thread : DueOK(t)

\* l is at the front of m, so a loop over l finds the same in m
Begun(l, m) == Len(l) <= Len(m) /\ \A j \in 1..Len(l) : m[j] = l[j]

VectorKept(e) == e \in Listing' /\ Begun(hookedEvents[e], hookedEvents'[e])

\* a step of another thread gives up what the loop of u has to reach, or leaves the loop alone
\* and keeps the vector
LoopKept(u) ==
  \/ firing'[u].due = {}
  \/ firing'[u] = firing[u]
     /\ (thread[u].e \in Listing /\ IsFiring(u, Event) => VectorKept(thread[u].e))

LEMMA OtherLoop ==
  ASSUME Inv, HookInv, LoopInv, NEW u \in Thread, thread'[u] = thread[u], LoopKept(u)
  PROVE  DueOK(u)'
<1>1. CASE firing'[u].due = {}
  BY <1>1 DEF DueOK
<1>2. CASE /\ firing'[u] = firing[u]
           /\ thread[u].e \in Listing /\ IsFiring(u, Event) => VectorKept(thread[u].e)
  <2>1. DueOK(u)
    BY DEF LoopInv
  <2>2. (Is(u, "fired") => firing[u].due = {})'
    BY <1>2, <2>1 DEF DueOK, Is
  <2>3. ASSUME thread[u].at \in {"nextHook", "sending"}, firing[u].due # {}
        PROVE  /\ ~firing[u].moved /\ thread[u].e \in Listing'
               /\ \A r \in firing[u].due :
                    (Is(u, "sending") /\ r = thread[u].s) \/ StillDue(u, r, Ahead(u))'
    <3>1. /\ ~firing[u].moved /\ thread[u].e \in Listing
          /\ \A r \in firing[u].due :
               (Is(u, "sending") /\ r = thread[u].s) \/ StillDue(u, r, Ahead(u))
      BY <2>1, <2>3 DEF DueOK
    <3>2. VectorKept(thread[u].e)
      BY <1>2, <2>3, <3>1 DEF IsFiring, Inv, Typed, Busy
    <3>3. Ahead(u)' = Ahead(u) /\ Ahead(u) \in Nat \ {0}
      BY <1>2 DEF Ahead, Is, LoopInv, LoopsTyped, Loop
    <3>4. ASSUME NEW r, StillDue(u, r, Ahead(u))
          PROVE  StillDue(u, r, Ahead(u))'
      <4> DEFINE v == hookedEvents[thread[u].e]
      <4>1. PICK j \in Ahead(u)..firing[u].end : j <= Len(v) /\ v[j] = r
        BY <3>4 DEF StillDue
      <4> QED
        BY <1>2, <3>2, <3>3, <4>1 DEF StillDue, VectorKept, Begun
    <3> QED
      BY <3>1, <3>2, <3>4 DEF VectorKept
  <2> QED
    BY <1>2, <2>2, <2>3 DEF DueOK, Is
<1> QED
  BY <1>1, <1>2 DEF LoopKept

\* What a step does to the loops of the other threads when it goes over the events es.
LEMMA LoopsGivenUp ==
  ASSUME LoopsTyped, NEW es, firing' \in {LoopsShifted(es), LoopsMoved(es)}
  PROVE  /\ LoopsTyped'
         /\ \A u \in Thread : \/ firing'[u].due = {}
                              \/ firing'[u] = firing[u] /\ ~IsFiring(u, es)
<1>1. CASE firing' = LoopsShifted(es)
  BY <1>1 DEF LoopsTyped, LoopsShifted, Loop
<1>2. CASE firing' = LoopsMoved(es)
  BY <1>2 DEF LoopsTyped, LoopsMoved, Loop
<1> QED
  BY <1>1, <1>2

\* A step of a thread that does not fire after it.
LEMMA NotFiringKeepsLoops ==
  ASSUME Inv, HookInv, LoopInv, NEW t \in Thread, OthersStay(t),
         thread'[t].at \notin {"nextHook", "sending", "fired"},
         LoopsTyped', \A u \in Thread \ {t} : LoopKept(u)
  PROVE  LoopInv'
<1>1. DueOK(t)'
  BY DEF DueOK, Is
<1>2. \A u \in Thread \ {t} : DueOK(u)'
  BY OtherLoop DEF OthersStay
<1> QED
  BY <1>1, <1>2 DEF LoopInv

\* The same when it leaves vectors and loops alone.
LEMMA QuietKeepsLoops ==
  ASSUME Inv, HookInv, LoopInv, NEW t \in Thread, OthersStay(t),
         UNCHANGED <<hookedEvents, firing>>,
         thread'[t].at \notin {"nextHook", "sending", "fired"}
  PROVE  LoopInv'
<1>1. ASSUME NEW e \in Listing PROVE VectorKept(e)
  <2>1. Len(hookedEvents[e]) \in Nat
    BY LenProperties DEF HookInv, VectorsTyped
  <2> QED
    BY <2>1 DEF VectorKept, Begun, Listing
<1>2. \A u \in Thread \ {t} : LoopKept(u)
  BY <1>1 DEF LoopKept
<1>3. LoopsTyped'
  BY DEF LoopInv, LoopsTyped
<1> QED
  BY <1>2, <1>3, NotFiringKeepsLoops

LEMMA EventListedLoops ==
  ASSUME Inv, HookInv, LoopInv, NEW t \in Thread, OthersStay(t), EventListed(t)
  PROVE  LoopInv'
<1>0. PICK e \in Event : e = thread[t].e
  BY DEF Inv, Typed, Busy
<1>1. thread'[t].at = "idle" /\ LoopsTyped' /\ UNCHANGED firing
  <2>1. Continues(t, "idle", {})
    BY DEF EventListed, Ends
  <2> QED
    BY <2>1, ContinuesTo DEF EventListed, LoopInv, LoopsTyped
<1>2. ASSUME NEW f \in Listing PROVE VectorKept(f)
  <2>1. Len(hookedEvents[f]) \in Nat
    BY LenProperties DEF HookInv, VectorsTyped
  <2>2. f \in Listing' /\ hookedEvents'[f] = hookedEvents[f]
    <3>1. CASE e \in Listing
      BY <1>0, <3>1 DEF EventListed, Listing
    <3>2. CASE e \notin Listing
      <4>1. PICK hooks :
              hookedEvents' = [g \in Listing \cup {e} |-> IF g \in Listing THEN hookedEvents[g] ELSE hooks]
        BY <1>0, <3>2 DEF EventListed
      <4> QED
        BY <4>1 DEF Listing
    <3> QED
      BY <3>1, <3>2
  <2> QED
    BY <2>1, <2>2 DEF VectorKept, Begun
<1>3. \A u \in Thread \ {t} : LoopKept(u)
  BY <1>1, <1>2 DEF LoopKept
<1> QED
  BY <1>1, <1>3, NotFiringKeepsLoops

LEMMA EventsGoneLoops ==
  ASSUME Inv, HookInv, LoopInv, NEW t \in Thread, OthersStay(t),
         thread'[t].at \notin {"nextHook", "sending", "fired"},
         NEW es, hookedEvents' = Unlisted(es), firing' = LoopsMoved(es)
  PROVE  LoopInv'
<1>1. /\ LoopsTyped'
      /\ \A u \in Thread : firing'[u].due = {} \/ (firing'[u] = firing[u] /\ ~IsFiring(u, es))
  BY LoopsGivenUp DEF LoopInv
<1>2. ASSUME NEW f \in Listing \ es PROVE VectorKept(f)
  <2>1. Len(hookedEvents[f]) \in Nat
    BY LenProperties DEF HookInv, VectorsTyped
  <2>2. f \in Listing' /\ hookedEvents'[f] = hookedEvents[f]
    BY DEF Unlisted, Restrict, Listing
  <2> QED
    BY <2>1, <2>2 DEF VectorKept, Begun
<1>3. \A u \in Thread \ {t} : LoopKept(u)
  BY <1>1, <1>2 DEF LoopKept, IsFiring
<1> QED
  BY <1>1, <1>3, NotFiringKeepsLoops

\* The vector of one event, or of some, changed: the loops over them know.
LEMMA VectorsChangedLoops ==
  ASSUME Inv, HookInv, LoopInv, NEW t \in Thread, OthersStay(t),
         thread'[t].at \notin {"nextHook", "sending", "fired"},
         NEW es, Listing' = Listing, LoopsTyped',
         \A f \in Listing \ es : hookedEvents'[f] = hookedEvents[f],
         \A u \in Thread : \/ firing'[u].due = {}
                           \/ (firing'[u] = firing[u]
                               /\ \A f \in es \cap Listing : IsFiring(u, {f}) => VectorKept(f))
  PROVE  LoopInv'
<1>1. ASSUME NEW f \in Listing \ es PROVE VectorKept(f)
  <2>1. Len(hookedEvents[f]) \in Nat
    BY LenProperties DEF HookInv, VectorsTyped
  <2> QED
    BY <2>1 DEF VectorKept, Begun
<1>2. \A u \in Thread \ {t} : LoopKept(u)
  BY <1>1 DEF LoopKept, IsFiring
<1> QED
  BY <1>2, NotFiringKeepsLoops

LEMMA HookListedLoops ==
  ASSUME Inv, HookInv, LoopInv, NEW t \in Thread, OthersStay(t), HookListed(t)
  PROVE  LoopInv'
<1>0. PICK e \in Event, s \in Service : e = thread[t].e /\ s = thread[t].s
  BY DEF Inv, Typed, Busy
<1>1. thread'[t].at \notin {"nextHook", "sending", "fired"}
  <2>1. Continues(t, "idle", {})
    BY DEF HookListed, Ends
  <2> QED
    BY <2>1, ContinuesTo
<1>2. CASE e \in Listing
  <2>1. /\ hookedEvents' = [hookedEvents EXCEPT ![e] = Append(@, s)] /\ Listing' = Listing
        /\ firing' \in {firing, LoopsMoved({e})}
    BY <1>0, <1>2 DEF HookListed, Listing
  <2>2. VectorKept(e)
    <3>1. hookedEvents[e] \in Seq(Service) /\ hookedEvents'[e] = Append(hookedEvents[e], s)
      BY <1>2, <2>1 DEF HookInv, VectorsTyped, Listing
    <3>2. /\ Len(Append(hookedEvents[e], s)) = Len(hookedEvents[e]) + 1
          /\ Len(hookedEvents[e]) \in Nat
          /\ \A i \in 1..Len(hookedEvents[e]) : Append(hookedEvents[e], s)[i] = hookedEvents[e][i]
      BY <3>1, AppendProperties, LenProperties
    <3> QED
      BY <1>2, <2>1, <3>1, <3>2 DEF VectorKept, Begun
  <2>3. \A f \in Listing \ {e} : hookedEvents'[f] = hookedEvents[f]
    BY <2>1 DEF Listing
  <2>4. /\ LoopsTyped'
        /\ \A u \in Thread : firing'[u].due = {} \/ firing'[u] = firing[u]
    <3>1. CASE firing' = firing
      BY <3>1 DEF LoopInv, LoopsTyped
    <3>2. CASE firing' = LoopsMoved({e})
      BY <3>2, LoopsGivenUp DEF LoopInv
    <3> QED
      BY <2>1, <3>1, <3>2
  <2>5. \A f \in {e} \cap Listing : VectorKept(f)
    BY <2>2
  <2> QED
    BY <1>1, <2>1, <2>3, <2>4, <2>5, VectorsChangedLoops
<1>3. CASE e \notin Listing
  <2>1. UNCHANGED <<hookedEvents, firing>>
    BY <1>0, <1>3 DEF HookListed
  <2> QED
    BY <1>1, <2>1, QuietKeepsLoops
<1> QED
  BY <1>2, <1>3

LEMMA HookUnlistedLoops ==
  ASSUME Inv, HookInv, LoopInv, NEW t \in Thread, OthersStay(t), HookUnlisted(t)
  PROVE  LoopInv'
<1>0. PICK e \in Event, s \in Service : e = thread[t].e /\ s = thread[t].s
  BY DEF Inv, Typed, Busy
<1>1. thread'[t].at \notin {"nextHook", "sending", "fired"}
  <2>1. Continues(t, "eraseHook", {"MTXHookList"})
    BY DEF HookUnlisted
  <2> QED
    BY <2>1, ContinuesTo
<1>2. CASE e \in Listing /\ Contains(hookedEvents[e], s)
  <2>1. /\ hookedEvents' = [hookedEvents EXCEPT ![e] = RemoveFirst(@, s)] /\ Listing' = Listing
        /\ firing' = LoopsShifted({e})
    BY <1>0, <1>2 DEF HookUnlisted, Listing
  <2>2. \A f \in Listing \ {e} : hookedEvents'[f] = hookedEvents[f]
    BY <2>1 DEF Listing
  <2>3. /\ LoopsTyped'
        /\ \A u \in Thread : firing'[u].due = {} \/ (firing'[u] = firing[u] /\ ~IsFiring(u, {e}))
    BY <2>1, LoopsGivenUp DEF LoopInv
  <2>4. \A u \in Thread : firing'[u].due = {}
                          \/ (firing'[u] = firing[u]
                              /\ \A f \in {e} \cap Listing : IsFiring(u, {f}) => VectorKept(f))
    BY <2>3
  <2> QED
    BY <1>1, <2>1, <2>2, <2>3, <2>4, VectorsChangedLoops
<1>3. CASE ~(e \in Listing /\ Contains(hookedEvents[e], s))
  <2>1. UNCHANGED <<hookedEvents, firing>>
    BY <1>0, <1>3 DEF HookUnlisted
  <2> QED
    BY <1>1, <2>1, QuietKeepsLoops
<1> QED
  BY <1>2, <1>3

LEMMA HooksCleanedLoops ==
  ASSUME Inv, HookInv, LoopInv, NEW t \in Thread, OthersStay(t), HooksCleaned(t)
  PROVE  LoopInv'
<1>0. PICK e \in Event, s \in Service : e = thread[t].e /\ s = thread[t].s
  BY DEF Inv, Typed, Busy
<1>1. thread'[t].at \notin {"nextHook", "sending", "fired"}
  <2>1. Continues(t, "idle", {})
    BY DEF HooksCleaned, Ends
  <2> QED
    BY <2>1, ContinuesTo
<1>2. PICK hit :
        /\ hookedEvents' = [f \in Listing |-> IF f \in hit THEN Without(hookedEvents[f], s)
                                                           ELSE hookedEvents[f]]
        /\ firing' = LoopsShifted(hit)
  BY <1>0 DEF HooksCleaned
<1>3. Listing' = Listing /\ \A f \in Listing \ hit : hookedEvents'[f] = hookedEvents[f]
  BY <1>2 DEF Listing
<1>4. /\ LoopsTyped'
      /\ \A u \in Thread : firing'[u].due = {} \/ (firing'[u] = firing[u] /\ ~IsFiring(u, hit))
  BY <1>2, LoopsGivenUp DEF LoopInv
<1>5. \A u \in Thread : firing'[u].due = {}
                        \/ (firing'[u] = firing[u]
                            /\ \A f \in hit \cap Listing : IsFiring(u, {f}) => VectorKept(f))
  BY <1>4 DEF IsFiring
<1> QED
  BY <1>1, <1>3, <1>4, <1>5, VectorsChangedLoops

-----------------------------------------------------------------------------
(* The steps of fireEvent.                                                 *)

\* A step of fireEvent in t leaves the vectors and the other loops alone.
LEMMA OwnStepKeepsLoops ==
  ASSUME Inv, HookInv, LoopInv, NEW t \in Thread, OthersStay(t), UNCHANGED hookedEvents,
         LoopsTyped', \A u \in Thread \ {t} : firing'[u] = firing[u], DueOK(t)'
  PROVE  LoopInv'
<1>1. ASSUME NEW e \in Listing PROVE VectorKept(e)
  <2>1. Len(hookedEvents[e]) \in Nat
    BY LenProperties DEF HookInv, VectorsTyped
  <2> QED
    BY <2>1 DEF VectorKept, Begun, Listing
<1>2. \A u \in Thread \ {t} : LoopKept(u)
  BY <1>1 DEF LoopKept
<1>3. \A u \in Thread \ {t} : DueOK(u)'
  BY <1>2, OtherLoop DEF OthersStay
<1> QED
  BY <1>3 DEF LoopInv

LEMMA FireEventLoops ==
  ASSUME Inv, HookInv, LoopInv, NEW t \in Thread, OthersStay(t), NEW e \in Event, FireEvent(t, e)
  PROVE  LoopInv'
<1> DEFINE v == hookedEvents[e]
<1>1. e \in Listing /\ v \in Seq(Service) /\ Len(v) \in Nat /\ \A i \in 1..Len(v) : v[i] \in Service
  BY LenProperties, ElementOfSeq DEF FireEvent, HookInv, VectorsTyped
<1>2. firing' = [firing EXCEPT ![t] = [i |-> 1, end |-> Len(v), moved |-> FALSE, due |-> ToSet(v)]]
  BY DEF FireEvent
<1>3. ToSet(v) = {v[i] : i \in 1..Len(v)}
  BY <1>1 DEF ToSet
<1>4. [i |-> 1, end |-> Len(v), moved |-> FALSE, due |-> ToSet(v)] \in Loop
  BY <1>1, <1>3 DEF Loop
<1>5. LoopsTyped' /\ \A u \in Thread \ {t} : firing'[u] = firing[u]
  BY <1>2, <1>4 DEF LoopInv, LoopsTyped
<1>6. /\ firing'[t].i = 1 /\ firing'[t].end = Len(v) /\ firing'[t].moved = FALSE
      /\ firing'[t].due = ToSet(v)
  BY <1>2 DEF LoopInv, LoopsTyped
<1>7. thread'[t].at = "nextHook" /\ thread'[t].e = e
  <2>1. Goes(t, "nextHook", e, thread[t].s, {"MTXHookEvent"})
    BY DEF FireEvent
  <2>2. thread'[t] = [at |-> "nextHook", e |-> e, s |-> thread[t].s, locks |-> {"MTXHookEvent"}]
    BY <2>1, GoesTo
  <2> QED
    BY <2>2
<1>8. UNCHANGED hookedEvents
  BY DEF FireEvent
<1>9. ASSUME NEW r \in ToSet(v) PROVE StillDue(t, r, 1)'
  <2>1. PICK i \in 1..Len(v) : v[i] = r
    BY <1>3
  <2> QED
    BY <1>1, <1>6, <1>7, <1>8, <2>1 DEF StillDue
<1>10. DueOK(t)'
  BY <1>1, <1>6, <1>7, <1>8, <1>9 DEF DueOK, Is, Ahead, Listing
<1> QED
  BY <1>5, <1>8, <1>10, OwnStepKeepsLoops

\* the loop goes one place on
LEMMA NextPlaceIs ==
  ASSUME LoopsTyped, NEW t \in Thread, NEW heard, firing' = NextPlace(t, heard)
  PROVE  /\ LoopsTyped' /\ \A u \in Thread \ {t} : firing'[u] = firing[u]
         /\ firing'[t].i = firing[t].i + 1 /\ firing'[t].end = firing[t].end
         /\ firing'[t].moved = firing[t].moved /\ firing'[t].due = firing[t].due \ heard
<1>1. firing[t] \in Loop
  BY DEF LoopsTyped
<1>2. PICK i \in Nat \ {0}, due \in SUBSET Service :
        i = firing[t].i + 1 /\ due = firing[t].due \ heard
  <2>1. firing[t].i + 1 \in Nat \ {0} /\ firing[t].due \ heard \in SUBSET Service
    BY <1>1 DEF Loop
  <2> QED
    BY <2>1
<1>3. [firing[t] EXCEPT !.i = i, !.due = due] \in Loop
  BY <1>1 DEF Loop
<1>4. firing' = [firing EXCEPT ![t] = [firing[t] EXCEPT !.i = i, !.due = due]]
  BY <1>2 DEF NextPlace
<1> QED
  BY <1>1, <1>2, <1>3, <1>4 DEF LoopsTyped, Loop

\* What is still due and is not what the loop finds stands behind its place.
LEMMA DueBehind ==
  ASSUME HookInv, LoopInv, NEW t \in Thread, Is(t, "nextHook"), NEW s \in Listed(t),
         NEW r \in firing[t].due \ {s}
  PROVE  ~firing[t].moved /\ thread[t].e \in Listing /\ StillDue(t, r, firing[t].i + 1)
<1>1. ~firing[t].moved /\ thread[t].e \in Listing /\ StillDue(t, r, firing[t].i)
  <2>1. DueOK(t)
    BY DEF LoopInv
  <2> QED
    BY <2>1 DEF DueOK, Is, Ahead
<1> DEFINE v == hookedEvents[thread[t].e]
<1>2. PICK j \in firing[t].i..firing[t].end : j <= Len(v) /\ v[j] = r
  BY <1>1 DEF StillDue
<1>3. j # firing[t].i
  <2>1. SUFFICES ASSUME j = firing[t].i PROVE FALSE
    OBVIOUS
  <2>2. Listed(t) = {v[j]}
    BY <1>1, <1>2, <2>1 DEF Listed
  <2> QED
    BY <1>2, <2>2
<1>4. firing[t].i \in Nat /\ firing[t].end \in Nat
  BY DEF LoopInv, LoopsTyped, Loop
<1>5. j \in firing[t].i + 1..firing[t].end
  BY <1>3, <1>4
<1> QED
  BY <1>1, <1>2, <1>5 DEF StillDue

LEMMA HookMissingLoops ==
  ASSUME Inv, HookInv, LoopInv, NEW t \in Thread, OthersStay(t), HookMissing(t)
  PROVE  LoopInv'
<1>1. PICK s \in Listed(t) : firing' = NextPlace(t, {s})
  BY DEF HookMissing
<1>2. /\ LoopsTyped' /\ \A u \in Thread \ {t} : firing'[u] = firing[u]
      /\ firing'[t].i = firing[t].i + 1 /\ firing'[t].end = firing[t].end
      /\ firing'[t].moved = firing[t].moved /\ firing'[t].due = firing[t].due \ {s}
  BY <1>1, NextPlaceIs DEF LoopInv
<1>3. Is(t, "nextHook") /\ UNCHANGED <<hookedEvents, thread>>
  BY DEF HookMissing
<1>4. ASSUME NEW r \in firing[t].due \ {s}
      PROVE  ~firing'[t].moved /\ thread[t].e \in Listing /\ StillDue(t, r, firing[t].i)'
  BY <1>2, <1>3, DueBehind DEF StillDue
<1>5. DueOK(t)'
  BY <1>2, <1>3, <1>4 DEF DueOK, Is, Ahead, Listing
<1> QED
  BY <1>2, <1>3, <1>5, OwnStepKeepsLoops

LEMMA HookFoundLoops ==
  ASSUME Inv, HookInv, LoopInv, NEW t \in Thread, OthersStay(t), HookFound(t)
  PROVE  LoopInv'
<1>1. PICK s \in Listed(t) : Goes(t, "sending", thread[t].e, s, {})
  BY DEF HookFound
<1>2. thread'[t] = [at |-> "sending", e |-> thread[t].e, s |-> s, locks |-> {}]
  BY <1>1, GoesTo
<1>3. Is(t, "nextHook") /\ UNCHANGED <<hookedEvents, firing>>
  BY DEF HookFound
<1>4. LoopsTyped' /\ \A u \in Thread \ {t} : firing'[u] = firing[u]
  BY <1>3 DEF LoopInv, LoopsTyped
<1>5. thread'[t].at = "sending" /\ thread'[t].e = thread[t].e /\ thread'[t].s = s
  BY <1>2
<1>6. ASSUME NEW r \in firing[t].due \ {s}
      PROVE  StillDue(t, r, firing[t].i + 1)'
  BY <1>3, <1>5, DueBehind DEF StillDue
<1>7. firing[t].due # {} => ~firing[t].moved /\ thread[t].e \in Listing
  BY <1>3 DEF LoopInv, DueOK, Is
<1>8. DueOK(t)'
  BY <1>3, <1>5, <1>6, <1>7 DEF DueOK, Is, Ahead, Listing
<1> QED
  BY <1>3, <1>4, <1>8, OwnStepKeepsLoops

LEMMA SentLoops ==
  ASSUME Inv, HookInv, LoopInv, NEW t \in Thread, OthersStay(t), Sent(t)
  PROVE  LoopInv'
<1> DEFINE s == thread[t].s
<1>1. firing' = NextPlace(t, {s})
  BY DEF Sent
<1>2. /\ LoopsTyped' /\ \A u \in Thread \ {t} : firing'[u] = firing[u]
      /\ firing'[t].i = firing[t].i + 1 /\ firing'[t].end = firing[t].end
      /\ firing'[t].moved = firing[t].moved /\ firing'[t].due = firing[t].due \ {s}
  BY <1>1, NextPlaceIs DEF LoopInv
<1>3. Is(t, "sending") /\ UNCHANGED hookedEvents
  BY DEF Sent
<1>4. thread'[t].at = "nextHook" /\ thread'[t].e = thread[t].e
  <2>1. Continues(t, "nextHook", {"MTXHookEvent"})
    BY DEF Sent
  <2> QED
    BY <2>1, ContinuesTo
<1>5. ASSUME NEW r \in firing[t].due \ {s}
      PROVE  ~firing'[t].moved /\ thread[t].e \in Listing /\ StillDue(t, r, firing[t].i)'
  <2>1. ~firing[t].moved /\ thread[t].e \in Listing /\ StillDue(t, r, firing[t].i + 1)
    BY <1>3 DEF LoopInv, DueOK, Is, Ahead
  <2> QED
    BY <1>2, <1>3, <1>4, <2>1 DEF StillDue
<1>6. DueOK(t)'
  BY <1>2, <1>3, <1>4, <1>5 DEF DueOK, Is, Ahead, Listing
<1> QED
  BY <1>2, <1>3, <1>6, OwnStepKeepsLoops

\* At the end of the loop nothing is due.
LEMMA FiredLoops ==
  ASSUME Inv, HookInv, LoopInv, NEW t \in Thread, OthersStay(t), Fired(t)
  PROVE  LoopInv'
<1>1. Is(t, "nextHook") /\ firing[t].i > firing[t].end /\ UNCHANGED <<hookedEvents, firing>>
  BY DEF Fired
<1>2. firing[t].i \in Nat /\ firing[t].end \in Nat
  BY DEF LoopInv, LoopsTyped, Loop
<1>3. firing[t].due = {}
  <2>1. firing[t].i..firing[t].end = {}
    BY <1>1, <1>2
  <2>2. \A r : ~StillDue(t, r, firing[t].i)
    BY <2>1 DEF StillDue
  <2> QED
    BY <1>1, <2>2 DEF LoopInv, DueOK, Is, Ahead
<1>4. DueOK(t)'
  BY <1>1, <1>3 DEF DueOK
<1>5. LoopsTyped' /\ \A u \in Thread \ {t} : firing'[u] = firing[u]
  BY <1>1 DEF LoopInv, LoopsTyped
<1> QED
  BY <1>1, <1>4, <1>5, OwnStepKeepsLoops

LEMMA FireReturnsLoops ==
  ASSUME Inv, HookInv, LoopInv, NEW t \in Thread, OthersStay(t), FireReturns(t)
  PROVE  LoopInv'
<1>1. firing' = [firing EXCEPT ![t] = NoLoop] /\ UNCHANGED hookedEvents
  BY DEF FireReturns
<1>2. NoLoop \in Loop
  BY DEF NoLoop, Loop
<1>3. LoopsTyped' /\ firing'[t] = NoLoop /\ \A u \in Thread \ {t} : firing'[u] = firing[u]
  BY <1>1, <1>2 DEF LoopInv, LoopsTyped
<1>4. DueOK(t)'
  BY <1>3 DEF DueOK, NoLoop
<1> QED
  BY <1>1, <1>3, <1>4, OwnStepKeepsLoops

LEMMA BeginsLoops ==
  ASSUME Inv, HookInv, LoopInv, NEW t \in Thread, Begins(t)
  PROVE  LoopInv'
<1>1. OthersStay(t)
  BY NextMovesOne
<1>2. CASE \E e \in Event : FireEvent(t, e)
  BY <1>1, <1>2, FireEventLoops
<1>3. CASE ~\E e \in Event : FireEvent(t, e)
  <2>1. ASSUME NEW at, NEW e, NEW s, NEW locks, Goes(t, at, e, s, locks)
        PROVE  thread'[t].at = at
    <3>1. thread'[t] = [at |-> at, e |-> e, s |-> s, locks |-> locks]
      BY <2>1, GoesTo
    <3> QED
      BY <3>1
  <2>2. thread'[t].at \in {"registerEvent", "registerHook", "removeHook", "removeEvent",
                          "cleanupEvents", "cleanupHooks"}
    BY <1>3, <2>1 DEF Begins, RegisterEvent, RegisterHook, RemoveHook, RemoveEvent, Cleanup
  <2>3. UNCHANGED <<hookedEvents, firing>>
    BY <1>3 DEF Begins, RegisterEvent, RegisterHook, RemoveHook, RemoveEvent, Cleanup
  <2> QED
    BY <1>1, <2>1, <2>2, <2>3, QuietKeepsLoops
<1> QED
  BY <1>2, <1>3

LEMMA GoesOnLoops ==
  ASSUME Inv, HookInv, LoopInv, NEW t \in Thread, GoesOn(t)
  PROVE  LoopInv'
<1>1. OthersStay(t)
  BY NextMovesOne
<1>2. ASSUME HookErased(t) \/ CleanupHooks(t) \/ SendFails(t)
      PROVE  LoopInv'
  <2>1. PICK at \in {"idle", "cleanupHooked", "failed"} : \E locks : Continues(t, at, locks)
    BY <1>2 DEF HookErased, CleanupHooks, SendFails, Ends
  <2>2. thread'[t].at = at
    BY <2>1, ContinuesTo
  <2>3. UNCHANGED <<hookedEvents, firing>>
    BY <1>2 DEF HookErased, CleanupHooks, SendFails
  <2> QED
    BY <1>1, <2>1, <2>2, <2>3, QuietKeepsLoops
<1>3. ASSUME EventRemoved(t) \/ EventsCleaned(t) PROVE LoopInv'
  <2>1. PICK at \in {"idle", "cleanupHooks"} : \E locks : Continues(t, at, locks)
    BY <1>3 DEF EventRemoved, EventsCleaned, Ends
  <2>2. thread'[t].at = at
    BY <2>1, ContinuesTo
  <2>3. PICK es : hookedEvents' = Unlisted(es) /\ firing' = LoopsMoved(es)
    BY <1>3 DEF EventRemoved, EventsCleaned
  <2>4. thread'[t].at \notin {"nextHook", "sending", "fired"}
    BY <2>1, <2>2
  <2> QED
    BY <1>1, <2>3, <2>4, EventsGoneLoops
<1> QED
  BY <1>1, <1>2, <1>3, EventListedLoops, HookListedLoops, HookUnlistedLoops, HooksCleanedLoops,
     HookMissingLoops, HookFoundLoops, SentLoops, FiredLoops, FireReturnsLoops DEF GoesOn

-----------------------------------------------------------------------------
(* The invariants, and what they say of every behaviour.                   *)

IInv == Inv /\ HookInv /\ LoopInv

LEMMA InitIInv == Init => IInv
<1> SUFFICES ASSUME Init PROVE IInv
  OBVIOUS
<1>1. Inv
  BY InitInv
<1>2. Listing = {} /\ hookList = {}
  BY DEF Init, Listing
<1>3. HookInv
  <2>1. \A e \in Event : HooksOf(e) = {}
    BY <1>2 DEF HooksOf
  <2>2. HooksFinite
    BY <2>1, FS_EmptySet DEF HooksFinite
  <2> QED
    BY <1>2, <2>2 DEF HookInv, HooksTyped, VectorsTyped, HooksAreListed
<1>4. LoopInv
  <2>1. NoLoop \in Loop /\ firing = [t \in Thread |-> NoLoop]
    BY DEF Init, NoLoop, Loop
  <2> QED
    BY <2>1 DEF LoopInv, LoopsTyped, DueOK, NoLoop
<1> QED
  BY <1>1, <1>3, <1>4 DEF IInv

LEMMA StutterIInv == ASSUME IInv, UNCHANGED vars PROVE IInv'
<1>1. Inv'
  BY DEF IInv, Inv, vars, Typed, LocksByPlace, Exclusive, RegisteringIsListed,
         EventsAreListed, Listing, Within, Is
<1>2. HookInv'
  BY DEF IInv, HookInv, vars, HooksTyped, HooksFinite, HooksOf, VectorsTyped, HooksAreListed,
         Listing, Within
<1>3. LoopInv'
  BY DEF IInv, LoopInv, vars, LoopsTyped, DueOK, StillDue, Ahead, Listing, Is
<1> QED
  BY <1>1, <1>2, <1>3 DEF IInv

LEMMA NextIInv == ASSUME IInv, Next PROVE IInv'
<1>1. HooksTyped
  BY DEF IInv, HookInv
<1>2. Inv'
  BY <1>1, BeginsInv, GoesOnInv DEF IInv, Next
<1>3. HookInv' /\ LoopInv'
  BY BeginsHooks, GoesOnHooks, BeginsLoops, GoesOnLoops DEF IInv, Next
<1> QED
  BY <1>2, <1>3 DEF IInv

LEMMA IInvAlways == Spec => []IInv
<1>1. IInv /\ [Next]_vars => IInv'
  BY NextIInv, StutterIInv
<1> QED
  BY <1>1, InitIInv, PTL DEF Spec

\* Every variable keeps its type: in particular the vectors of hookedEvents hold services
\* only, whatever is put in, taken out, cleaned up or listed anew in them.
THEOREM TypeCorrect == Spec => []TypeOK
<1>1. IInv => TypeOK
  BY DEF IInv, Inv, Typed, HookInv, HooksTyped, VectorsTyped, LoopInv, LoopsTyped, TypeOK
<1> QED
  BY <1>1, IInvAlways, PTL

\* eventList and hookedEvents name the same events but for the one a thread is registering:
\* "inserting into hookedEvents list failed" (CommunicationManager.cpp:55) is never thrown,
\* whatever number of threads register, remove, clean up and fire.
THEOREM ListsAgree == Spec => []EventsAreListed
<1>1. IInv => EventsAreListed
  BY DEF IInv, Inv
<1> QED
  BY <1>1, IInvAlways, PTL

\* Neither the scan of hookList in registerEvent, which runs without that map's mutex, nor the
\* find in registerHook (CommunicationManager.cpp:57, 86) misses the other: a hook and its
\* event find each other in whichever order and overlap they are registered, and removing
\* and cleaning up other hooks never loses it, for any number of threads.
THEOREM HooksListed == Spec => []HooksAreListed
<1>1. IInv => HooksAreListed
  BY DEF IInv, HookInv
<1> QED
  BY <1>1, IInvAlways, PTL

\* A firing that runs to its end has reached every hook that was in the vector when it began,
\* unless the vector lost an element or its memory meanwhile (CommunicationManager.cpp:117-127),
\* although the mutex is given back for each send.
THEOREM AllAreReached == Spec => []FiringReachesAll
<1>1. IInv => FiringReachesAll
  BY DEF IInv, LoopInv, DueOK, FiringReachesAll
<1> QED
  BY <1>1, IInvAlways, PTL
=============================================================================
