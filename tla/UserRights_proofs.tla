------------------------- MODULE UserRights_proofs -------------------------
(***************************************************************************)
(* Proofs about UserRights, for any users, groups, permissions, sessions,  *)
(* threads and numbers of commands.                                        *)
(*                                                                         *)
(* What the caches hold while a command is between its steps is what the   *)
(* command has read, and that is still what the tables hold, as long as no *)
(* other command about the same user or group is handled: GroupFollows and *)
(* UserFollows say so for each step a command can be at.                   *)
(*                                                                         *)
(* A decision is made from the caches alone, so that it needs no more of   *)
(* them than their types: the searches up the permissions and the groups,  *)
(* which are recursive functions, give what is said of them by closures.   *)
(***************************************************************************)
EXTENDS UserRights, SequenceTheorems, FiniteSetTheorems, NaturalsInduction,
        WellFoundedInduction, TLAPS

GroupOps == {"permissions", "parent", "store"}
UserOps == {"cache", "groups", "insert", "check"}

OnGroup(t, g) == work[t].op \in GroupOps /\ work[t].group = g
OnUser(t, u) == work[t].op \in UserOps /\ work[t].user = u

WorkOK(w) ==
  \/ w = Idle
  \/ /\ w.op \in GroupOps
     /\ w.group \in Group
     /\ w.op # "permissions" => w.permissions \in States
     /\ w.op = "store" => w.parent \in Group \cup {None}
  \/ /\ w.op \in UserOps
     /\ w.user \in User
     /\ w.op = "cache" => w.permission \in Permission /\ w.state \in State \cup {None}
     /\ w.op \in {"groups", "insert"} => w.permissionsCache \in States
     /\ w.op = "insert" => w.usergroups \in Seq(Group)
     /\ w.op = "check" => w.session \in Session

TablesTyped ==
  /\ userpermission \in [User -> States]
  /\ usergroup \in [User -> SUBSET Group]
  /\ groups \in [Group -> Group \cup {None, Absent}]
  /\ grouppermission \in [Group -> States]
GroupsTyped ==
  /\ DOMAIN usergroupCache = Group
  /\ \A g \in Group : \/ usergroupCache[g] = Absent
                      \/ usergroupCache[g] \in [parent : Group \cup {None}, permissions : States]
SessionsTyped ==
  /\ DOMAIN sessionList = Session
  /\ \A s \in Session : sessionList[s] = Absent \/ sessionList[s] \in SessionData
  /\ activeSessions \in [User -> Session \cup {None}]
WorkTyped == DOMAIN work = Thread /\ \A t \in Thread : WorkOK(work[t])
CountTyped == commands \in 0..MaxCommands /\ disturbed \in [User \cup Group -> BOOLEAN]

Typed == TablesTyped /\ GroupsTyped /\ SessionsTyped /\ WorkTyped /\ CountTyped

\* a session that is being checked is gone or still the user's
CheckedSession ==
  \A t \in Thread :
    work[t].op = "check" => LET s == work[t].session
                            IN  sessionList[s] = Absent \/ sessionList[s].user = work[t].user

GroupsExist == \A t \in Thread : work[t].op \in GroupOps => groups[work[t].group] # Absent

InTables(g) == IF groups[g] = Absent THEN Absent
               ELSE [parent |-> groups[g], permissions |-> grouppermission[g]]

GroupFollows(g) ==
  ~disturbed[g] =>
    /\ \A t, v \in Thread : OnGroup(t, g) /\ OnGroup(v, g) => t = v
    /\ \A t \in Thread :
         OnGroup(t, g) =>
           /\ work[t].op # "permissions" => work[t].permissions = grouppermission[g]
           /\ work[t].op = "store" => work[t].parent = groups[g]
    /\ (\A t \in Thread : ~OnGroup(t, g)) => usergroupCache[g] = InTables(g)

UserFollows(u) ==
  ~disturbed[u] =>
    /\ \A t, v \in Thread : OnUser(t, u) /\ OnUser(v, u) => t = v
    /\ \A s \in SessionsOf(u) : s = activeSessions[u]
    /\ \A t \in Thread :
         OnUser(t, u) /\ work[t].op \in {"groups", "insert"} =>
           /\ SessionsOf(u) = {}
           /\ work[t].permissionsCache = userpermission[u]
    /\ \A t \in Thread, s \in SessionsOf(u) :
         OnUser(t, u) /\ work[t].op = "cache" =>
           [sessionList[s].permissionsCache EXCEPT ![work[t].permission] = work[t].state]
             = userpermission[u]
    /\ (\A t \in Thread : OnUser(t, u) => work[t].op # "cache") =>
         \A s \in SessionsOf(u) : sessionList[s].permissionsCache = userpermission[u]

GroupInv == GroupsExist /\ \A g \in Group : GroupFollows(g)
UserInv == ActiveIsListed /\ CheckedSession /\ \A u \in User : UserFollows(u)

Inv == Typed /\ GroupInv /\ UserInv

-----------------------------------------------------------------------------
LEMMA SaidTypes ==
  /\ None \notin User \cup Group \cup Permission \cup Session
  /\ Absent \notin User \cup Group \cup Permission \cup Session
  /\ None # Absent
  /\ User \cap Group = {}
BY PermissionAssumption, SortsAssumption

LEMMA TypedIsTypeOK == Typed => TypeOK
BY DEF Typed, TypeOK, TablesTyped, GroupsTyped, SessionsTyped, WorkTyped, CountTyped, WorkOK, Idle,
       GroupOps, UserOps

\* about() in terms of the steps of commands on users and on groups.
LEMMA AboutUser ==
  ASSUME WorkTyped, NEW t \in Thread, NEW u \in User
  PROVE  u \in about(t) <=> OnUser(t, u)
BY SaidTypes DEF WorkTyped, WorkOK, about, OnUser, Idle, GroupOps, UserOps

LEMMA AboutGroup ==
  ASSUME WorkTyped, NEW t \in Thread, NEW g \in Group
  PROVE  g \in about(t) <=> OnGroup(t, g)
BY SaidTypes DEF WorkTyped, WorkOK, about, OnGroup, Idle, GroupOps, UserOps

\* A command that comes in is undisturbed only if it is alone, and, unless it heals, only if
\* nothing was disturbed before.
LEMMA ReceiveFacts ==
  ASSUME CountTyped, NEW t \in Thread, NEW x \in User \cup Group, NEW heals, Receive(t, x, heals)
  PROVE  /\ CountTyped'
         /\ work[t] = Idle
         /\ \A y \in (User \cup Group) \ {x} : disturbed'[y] = disturbed[y]
         /\ ~disturbed'[x] => \A other \in Thread : x \notin about(other)
         /\ ~disturbed'[x] /\ ~heals => ~disturbed[x]
<1> DEFINE now == (\E other \in Thread : x \in about(other)) \/ (~heals /\ disturbed[x])
<1>1. disturbed' = [disturbed EXCEPT ![x] = now]
  BY DEF Receive
<1>2. now \in BOOLEAN
  OBVIOUS
<1> HIDE DEF now
<1>3. disturbed' \in [User \cup Group -> BOOLEAN] /\ disturbed'[x] = now
  BY <1>1, <1>2 DEF CountTyped
<1>4. \A y \in (User \cup Group) \ {x} : disturbed'[y] = disturbed[y]
  BY <1>1 DEF CountTyped
<1>5. commands' \in 0..MaxCommands
  BY SortsAssumption DEF Receive, CountTyped
<1>6. ~now => /\ \A other \in Thread : x \notin about(other)
              /\ ~heals => ~disturbed[x]
  BY DEF now
<1> QED
  BY <1>3, <1>4, <1>5, <1>6 DEF CountTyped, Receive

\* One thread is at another step, the others are where they were.
LEMMA WorkChanged ==
  ASSUME WorkTyped, NEW t \in Thread, NEW w, WorkOK(w), work' = [work EXCEPT ![t] = w]
  PROVE  /\ WorkTyped'
         /\ work'[t] = w
         /\ \A v \in Thread \ {t} : work'[v] = work[v]
BY DEF WorkTyped, WorkOK

LEMMA WorkSame == ASSUME WorkTyped, UNCHANGED work PROVE WorkTyped'
BY DEF WorkTyped, WorkOK

-----------------------------------------------------------------------------
(***************************************************************************)
(* What a step that is not about groups, or not about users, keeps.        *)
(***************************************************************************)
\* Nothing about group g has changed.
SameGroup(g) ==
  /\ disturbed'[g] = disturbed[g]
  /\ groups'[g] = groups[g]
  /\ grouppermission'[g] = grouppermission[g]
  /\ usergroupCache'[g] = usergroupCache[g]
  /\ \A v \in Thread : OnGroup(v, g)' <=> OnGroup(v, g)
  /\ \A v \in Thread : OnGroup(v, g) => work'[v] = work[v]

LEMMA OtherGroup ==
  ASSUME NEW g \in Group, GroupFollows(g), SameGroup(g)
  PROVE  GroupFollows(g)'
<1>1. InTables(g)' = InTables(g)
  BY DEF InTables, SameGroup
<1> QED
  BY <1>1 DEF GroupFollows, SameGroup

\* A thread that is not, and does not come to be, on group g does not show.
LEMMA OffGroup ==
  ASSUME NEW g \in Group, NEW t \in Thread, ~OnGroup(t, g), ~OnGroup(t, g)',
         \A v \in Thread \ {t} : work'[v] = work[v]
  PROVE  /\ \A v \in Thread : OnGroup(v, g)' <=> OnGroup(v, g)
         /\ \A v \in Thread : OnGroup(v, g) => work'[v] = work[v]
BY DEF OnGroup

LEMMA GroupKept ==
  ASSUME GroupInv, NEW t \in Thread,
         UNCHANGED <<groups, grouppermission, usergroupCache>>,
         \A g \in Group : disturbed'[g] = disturbed[g],
         \A v \in Thread \ {t} : work'[v] = work[v],
         work[t].op \notin GroupOps, work'[t].op \notin GroupOps
  PROVE  GroupInv'
<1>1. GroupsExist'
  BY DEF GroupInv, GroupsExist
<1>2. ASSUME NEW g \in Group PROVE GroupFollows(g)'
  <2>1. ~OnGroup(t, g) /\ ~OnGroup(t, g)'
    BY DEF OnGroup
  <2>2. SameGroup(g)
    BY <2>1, OffGroup DEF SameGroup
  <2> QED
    BY <2>2, OtherGroup DEF GroupInv
<1> QED
  BY <1>1, <1>2 DEF GroupInv

\* Nothing about user w has changed.
SameUser(w) ==
  /\ disturbed'[w] = disturbed[w]
  /\ userpermission'[w] = userpermission[w]
  /\ activeSessions'[w] = activeSessions[w]
  /\ SessionsOf(w)' = SessionsOf(w)
  /\ \A s \in SessionsOf(w) : sessionList'[s] = sessionList[s]
  /\ \A v \in Thread : OnUser(v, w)' <=> OnUser(v, w)
  /\ \A v \in Thread : OnUser(v, w) => work'[v] = work[v]

LEMMA OtherUser ==
  ASSUME NEW w \in User, UserFollows(w), SameUser(w)
  PROVE  UserFollows(w)'
BY DEF UserFollows, SameUser

\* A thread that is not, and does not come to be, on user w does not show.
LEMMA OtherThread ==
  ASSUME NEW w \in User, NEW t \in Thread, ~OnUser(t, w), ~OnUser(t, w)',
         \A v \in Thread \ {t} : work'[v] = work[v]
  PROVE  /\ \A v \in Thread : OnUser(v, w)' <=> OnUser(v, w)
         /\ \A v \in Thread : OnUser(v, w) => work'[v] = work[v]
BY DEF OnUser

LEMMA UserKept ==
  ASSUME UserInv, NEW t \in Thread,
         UNCHANGED <<userpermission, sessionList, activeSessions>>,
         \A u \in User : disturbed'[u] = disturbed[u],
         \A v \in Thread \ {t} : work'[v] = work[v],
         work[t].op \notin UserOps, work'[t].op \notin UserOps
  PROVE  UserInv'
<1>1. ActiveIsListed'
  BY DEF UserInv, ActiveIsListed, SessionsOf
<1>2. CheckedSession'
  <2>1. work'[t].op # "check"
    BY DEF UserOps
  <2> QED
    BY <2>1 DEF UserInv, CheckedSession
<1>3. ASSUME NEW u \in User PROVE UserFollows(u)'
  <2>1. SessionsOf(u)' = SessionsOf(u)
    BY DEF SessionsOf
  <2>2. ~OnUser(t, u) /\ ~OnUser(t, u)'
    BY DEF OnUser
  <2>3. SameUser(u)
    BY <2>1, <2>2, OtherThread DEF SameUser
  <2> QED
    BY <2>3, OtherUser DEF UserInv
<1> QED
  BY <1>1, <1>2, <1>3 DEF UserInv

-----------------------------------------------------------------------------
(***************************************************************************)
(* Commands about groups.                                                  *)
(***************************************************************************)
\* A command that changes the tables of g and goes on to refresh its cache.
LEMMA GroupCommand ==
  ASSUME Inv, NEW t \in Thread, NEW g \in Group,
         Receive(t, g, TRUE), Refresh(t, g),
         groups' \in [Group -> Group \cup {None, Absent}], groups'[g] # Absent,
         grouppermission' \in [Group -> States],
         \A h \in Group \ {g} : /\ groups'[h] = groups[h]
                                /\ grouppermission'[h] = grouppermission[h],
         UNCHANGED <<userpermission, usergroup, caches>>
  PROVE  Inv'
<1> DEFINE w == [op |-> "permissions", group |-> g]
<1>1. WorkTyped /\ CountTyped
  BY DEF Inv, Typed
<1>2. WorkOK(w)
  BY DEF WorkOK, GroupOps
<1>3. /\ WorkTyped'
      /\ work'[t] = w
      /\ \A v \in Thread \ {t} : work'[v] = work[v]
  BY <1>1, <1>2, WorkChanged DEF Refresh
<1>4. /\ CountTyped'
      /\ work[t] = Idle
      /\ \A y \in (User \cup Group) \ {g} : disturbed'[y] = disturbed[y]
      /\ ~disturbed'[g] => \A other \in Thread : g \notin about(other)
  BY <1>1, ReceiveFacts
<1>5. Typed'
  BY <1>3, <1>4 DEF Inv, Typed, TablesTyped, GroupsTyped, SessionsTyped, caches
<1>6. UserInv'
  <2>1. \A u \in User : disturbed'[u] = disturbed[u]
    BY <1>4, SaidTypes
  <2>2. work[t].op \notin UserOps /\ work'[t].op \notin UserOps
    BY <1>3, <1>4 DEF Idle, UserOps
  <2> QED
    BY <1>3, <2>1, <2>2, UserKept DEF Inv, caches
<1>7. GroupsExist'
  <2>1. \A h \in Group : groups[h] # Absent => groups'[h] # Absent
    OBVIOUS
  <2>2. ASSUME NEW v \in Thread, work'[v].op \in GroupOps PROVE groups'[work'[v].group] # Absent
    <3>1. CASE v = t
      BY <1>3, <3>1
    <3>2. CASE v # t
      BY <1>1, <1>3, <2>1, <2>2, <3>2
      DEF Inv, GroupInv, GroupsExist, WorkTyped, WorkOK, GroupOps, UserOps, Idle
    <3> QED
      BY <3>1, <3>2
  <2> QED
    BY <2>2 DEF GroupsExist
<1>8. ASSUME NEW h \in Group PROVE GroupFollows(h)'
  <2>1. CASE h = g
    <3> SUFFICES ASSUME ~disturbed'[g] PROVE GroupFollows(g)'
      BY <2>1 DEF GroupFollows
    <3>1. \A v \in Thread : ~OnGroup(v, g)
      BY <1>1, <1>4, AboutGroup
    <3>2. \A v \in Thread : OnGroup(v, g)' <=> v = t
      BY <1>3, <3>1 DEF OnGroup, GroupOps
    <3> QED
      BY <1>3, <3>2 DEF GroupFollows
  <2>2. CASE h # g
    <3>1. ~OnGroup(t, h) /\ ~OnGroup(t, h)'
      BY <1>3, <1>4, <2>2 DEF OnGroup, Idle, GroupOps
    <3>2. disturbed'[h] = disturbed[h] /\ usergroupCache'[h] = usergroupCache[h]
      BY <1>4, <2>2 DEF caches
    <3>3. SameGroup(h)
      BY <1>3, <2>2, <3>1, <3>2, OffGroup DEF SameGroup
    <3> QED
      BY <3>3, OtherGroup DEF Inv, GroupInv
  <2> QED
    BY <2>1, <2>2
<1> QED
  BY <1>5, <1>6, <1>7, <1>8 DEF Inv, GroupInv

LEMMA GroupCommandStep ==
  ASSUME Inv, NEW t \in Thread, NEW g \in Group,
         NEW parent \in {h \in Group : groups[h] # Absent} \cup {None},
         NEW p \in Permission, NEW state \in State,
         \/ registerUsergroup(t, g, parent) \/ updateUsergroup(t, g, parent)
         \/ addUsergroupPermission(t, g, p, state)
  PROVE  Inv'
<1>1. groups \in [Group -> Group \cup {None, Absent}] /\ grouppermission \in [Group -> States]
  BY DEF Inv, Typed, TablesTyped
<1>2. CASE registerUsergroup(t, g, parent) \/ updateUsergroup(t, g, parent)
  <2>1. /\ Receive(t, g, TRUE) /\ Refresh(t, g)
        /\ groups' = [groups EXCEPT ![g] = parent]
        /\ UNCHANGED <<userpermission, usergroup, grouppermission, caches>>
    BY <1>2 DEF registerUsergroup, updateUsergroup
  <2>2. parent \in Group \cup {None} /\ parent # Absent
    BY SaidTypes
  <2>3. /\ groups' \in [Group -> Group \cup {None, Absent}] /\ groups'[g] # Absent
        /\ \A h \in Group \ {g} : groups'[h] = groups[h]
    BY <1>1, <2>1, <2>2
  <2> QED
    BY <1>1, <2>1, <2>3, GroupCommand
<1>3. CASE addUsergroupPermission(t, g, p, state)
  <2>1. /\ Receive(t, g, TRUE) /\ Refresh(t, g)
        /\ groups[g] # Absent
        /\ grouppermission' = [grouppermission EXCEPT ![g][p] = state]
        /\ UNCHANGED <<userpermission, usergroup, groups, caches>>
    BY <1>3 DEF addUsergroupPermission
  <2>2. /\ grouppermission' \in [Group -> States]
        /\ \A h \in Group \ {g} : grouppermission'[h] = grouppermission[h]
    BY <1>1, <2>1 DEF States
  <2> QED
    BY <1>1, <2>1, <2>2, GroupCommand
<1> QED
  BY <1>2, <1>3

\* The refresh of the cache of a group, from one of its steps to the next.
LEMMA RefreshFacts ==
  ASSUME Inv, NEW t \in Thread, NEW w, WorkOK(w), Continue(t, w),
         work[t].op \in GroupOps, w.op \notin UserOps,
         UNCHANGED <<tables, sessionList, activeSessions>>
  PROVE  /\ TablesTyped' /\ SessionsTyped' /\ WorkTyped' /\ CountTyped'
         /\ UserInv'
         /\ work'[t] = w
         /\ \A v \in Thread \ {t} : work'[v] = work[v]
         /\ work[t].group \in Group
         /\ UNCHANGED <<disturbed, groups, grouppermission>>
<1>1. /\ WorkTyped'
      /\ work'[t] = w
      /\ \A v \in Thread \ {t} : work'[v] = work[v]
  BY WorkChanged DEF Inv, Typed, Continue
<1>2. TablesTyped' /\ SessionsTyped' /\ CountTyped'
  BY DEF Inv, Typed, TablesTyped, SessionsTyped, CountTyped, tables, Continue
<1>3. work[t].op \notin UserOps
  BY DEF GroupOps, UserOps
<1>4. UserInv'
  BY <1>1, <1>3, UserKept DEF Inv, tables, Continue
<1>5. work[t].group \in Group
  BY DEF Inv, Typed, WorkTyped, WorkOK, Idle, GroupOps, UserOps
<1> QED
  BY <1>1, <1>2, <1>4, <1>5 DEF Continue, tables

\* The groups the refresh is not about follow as before, and every group exists that a
\* command is about.
LEMMA RefreshOthers ==
  ASSUME Inv, NEW t \in Thread, NEW g \in Group,
         work[t].op \in GroupOps, work[t].group = g,
         work'[t].op \in GroupOps => work'[t].group = g,
         \A v \in Thread \ {t} : work'[v] = work[v],
         UNCHANGED <<disturbed, groups, grouppermission>>,
         \A h \in Group \ {g} : usergroupCache'[h] = usergroupCache[h]
  PROVE  /\ \A h \in Group \ {g} : GroupFollows(h)'
         /\ GroupsExist'
<1>1. ASSUME NEW h \in Group \ {g} PROVE GroupFollows(h)'
  <2>1. ~OnGroup(t, h) /\ ~OnGroup(t, h)'
    BY DEF OnGroup
  <2>2. SameGroup(h)
    BY <2>1, OffGroup DEF SameGroup
  <2> QED
    BY <2>2, OtherGroup DEF Inv, GroupInv
<1>2. GroupsExist'
  BY DEF Inv, GroupInv, GroupsExist, OnGroup
<1> QED
  BY <1>1, <1>2

LEMMA QueryPermissionsStep ==
  ASSUME Inv, NEW t \in Thread, NEW g \in Group, work[t].group = g, QueryPermissions(t)
  PROVE  Inv'
<1> DEFINE w == [op |-> "parent", group |-> g, permissions |-> grouppermission[g]]
<1>1. work[t].op = "permissions" /\ Continue(t, w) /\ UNCHANGED <<tables, caches>>
  BY DEF QueryPermissions
<1>2. g \in Group
  BY <1>1 DEF Inv, Typed, WorkTyped, WorkOK, Idle, GroupOps, UserOps
<1>3. WorkOK(w)
  BY <1>2 DEF Inv, Typed, TablesTyped, WorkOK, GroupOps
<1>4. /\ TablesTyped' /\ SessionsTyped' /\ WorkTyped' /\ CountTyped'
      /\ UserInv'
      /\ work'[t] = w
      /\ \A v \in Thread \ {t} : work'[v] = work[v]
      /\ UNCHANGED <<disturbed, groups, grouppermission>>
  BY <1>1, <1>3, RefreshFacts DEF GroupOps, UserOps, caches
<1>5. UNCHANGED usergroupCache
  BY <1>1 DEF caches
<1>6. (\A h \in Group \ {g} : GroupFollows(h)') /\ GroupsExist'
  BY <1>1, <1>2, <1>4, <1>5, RefreshOthers DEF GroupOps
<1>7. GroupFollows(g)'
  <2>1. \A v \in Thread : OnGroup(v, g)' <=> OnGroup(v, g)
    BY <1>1, <1>4 DEF OnGroup, GroupOps
  <2>2. OnGroup(t, g) /\ GroupFollows(g)
    BY <1>1, <1>2 DEF OnGroup, GroupOps, Inv, GroupInv
  <2>3. work'[t].permissions = grouppermission'[g] /\ work'[t].op # "store"
    BY <1>4
  <2> QED
    BY <1>4, <2>1, <2>2, <2>3 DEF GroupFollows
<1>8. GroupsTyped'
  BY <1>5 DEF Inv, Typed, GroupsTyped
<1> QED
  BY <1>4, <1>6, <1>7, <1>8 DEF Inv, Typed, GroupInv

LEMMA QueryParentStep ==
  ASSUME Inv, NEW t \in Thread, NEW g \in Group, work[t].group = g, QueryParent(t)
  PROVE  Inv'
<1> DEFINE w == [op |-> "store", group |-> g, permissions |-> work[t].permissions,
                 parent |-> groups[g]]
<1>1. work[t].op = "parent" /\ Continue(t, w) /\ UNCHANGED <<tables, caches>>
  BY DEF QueryParent
<1>2. g \in Group /\ work[t].permissions \in States
  BY <1>1 DEF Inv, Typed, WorkTyped, WorkOK, Idle, GroupOps, UserOps
<1>3. groups[g] \in Group \cup {None}
  BY <1>1, <1>2 DEF Inv, Typed, TablesTyped, GroupInv, GroupsExist, GroupOps
<1>4. WorkOK(w)
  BY <1>2, <1>3 DEF WorkOK, GroupOps
<1>5. /\ TablesTyped' /\ SessionsTyped' /\ WorkTyped' /\ CountTyped'
      /\ UserInv'
      /\ work'[t] = w
      /\ \A v \in Thread \ {t} : work'[v] = work[v]
      /\ UNCHANGED <<disturbed, groups, grouppermission>>
  BY <1>1, <1>4, RefreshFacts DEF GroupOps, UserOps, caches
<1>6. UNCHANGED usergroupCache
  BY <1>1 DEF caches
<1>7. (\A h \in Group \ {g} : GroupFollows(h)') /\ GroupsExist'
  BY <1>1, <1>2, <1>5, <1>6, RefreshOthers DEF GroupOps
<1>8. GroupFollows(g)'
  <2>1. \A v \in Thread : OnGroup(v, g)' <=> OnGroup(v, g)
    BY <1>1, <1>5 DEF OnGroup, GroupOps
  <2>2. OnGroup(t, g) /\ GroupFollows(g)
    BY <1>1, <1>2 DEF OnGroup, GroupOps, Inv, GroupInv
  <2>3. ~disturbed[g] => work'[t].permissions = grouppermission'[g]
    BY <1>1, <1>5, <2>2 DEF GroupFollows
  <2>4. work'[t].parent = groups'[g]
    BY <1>5
  <2> QED
    BY <1>5, <2>1, <2>2, <2>3, <2>4 DEF GroupFollows
<1>9. GroupsTyped'
  BY <1>6 DEF Inv, Typed, GroupsTyped
<1> QED
  BY <1>5, <1>7, <1>8, <1>9 DEF Inv, Typed, GroupInv

\* What an undisturbed refresh stores is what the tables hold.
LEMMA StoreStep ==
  ASSUME Inv, NEW t \in Thread, NEW g \in Group, work[t].group = g, updateUsergroupCache(t)
  PROVE  Inv'
<1> DEFINE info == [parent |-> work[t].parent, permissions |-> work[t].permissions]
<1>1. /\ work[t].op = "store" /\ Continue(t, Idle)
      /\ usergroupCache' = [usergroupCache EXCEPT ![g] = info]
      /\ UNCHANGED <<tables, sessionList, activeSessions>>
  BY DEF updateUsergroupCache
<1>2. g \in Group /\ work[t].permissions \in States /\ work[t].parent \in Group \cup {None}
  BY <1>1 DEF Inv, Typed, WorkTyped, WorkOK, Idle, GroupOps, UserOps
<1>3. /\ TablesTyped' /\ SessionsTyped' /\ WorkTyped' /\ CountTyped'
      /\ UserInv'
      /\ work'[t] = Idle
      /\ \A v \in Thread \ {t} : work'[v] = work[v]
      /\ UNCHANGED <<disturbed, groups, grouppermission>>
  <2>1. WorkOK(Idle) /\ Idle.op \notin UserOps
    BY DEF WorkOK, Idle, UserOps
  <2> QED
    BY <1>1, <2>1, RefreshFacts DEF GroupOps
<1>4. /\ usergroupCache'[g] = info
      /\ \A h \in Group \ {g} : usergroupCache'[h] = usergroupCache[h]
      /\ DOMAIN usergroupCache' = Group
  BY <1>1, <1>2 DEF Inv, Typed, GroupsTyped
<1>5. work'[t].op \notin GroupOps
  BY <1>3 DEF Idle, GroupOps
<1>6. (\A h \in Group \ {g} : GroupFollows(h)') /\ GroupsExist'
  BY <1>1, <1>2, <1>3, <1>4, <1>5, RefreshOthers DEF GroupOps
<1>7. GroupFollows(g)'
  <2> SUFFICES ASSUME ~disturbed'[g] PROVE GroupFollows(g)'
    BY DEF GroupFollows
  <2>1. OnGroup(t, g) /\ GroupFollows(g) /\ ~disturbed[g]
    BY <1>1, <1>2, <1>3 DEF OnGroup, GroupOps, Inv, GroupInv
  <2>2. \A v \in Thread : ~OnGroup(v, g)'
    BY <1>3, <1>5, <2>1 DEF GroupFollows, OnGroup
  <2>3. groups[g] # Absent
    BY <1>1 DEF Inv, GroupInv, GroupsExist, GroupOps
  <2>4. info = InTables(g)
    BY <1>1, <2>1, <2>3 DEF GroupFollows, InTables
  <2>5. InTables(g)' = InTables(g)
    BY <1>3 DEF InTables
  <2> QED
    BY <1>4, <2>2, <2>4, <2>5 DEF GroupFollows
<1>8. GroupsTyped'
  <2>1. info \in [parent : Group \cup {None}, permissions : States]
    BY <1>2
  <2> QED
    BY <1>4, <2>1 DEF Inv, Typed, GroupsTyped
<1> QED
  BY <1>3, <1>6, <1>7, <1>8 DEF Inv, Typed, GroupInv

-----------------------------------------------------------------------------
(***************************************************************************)
(* Commands about users.                                                   *)
(***************************************************************************)
\* What every step of a command about a user keeps.
LEMMA UserStepFacts ==
  ASSUME Inv, NEW t \in Thread, WorkTyped', CountTyped',
         \A v \in Thread \ {t} : work'[v] = work[v],
         \A g \in Group : disturbed'[g] = disturbed[g],
         work[t].op \notin GroupOps, work'[t].op \notin GroupOps,
         UNCHANGED <<groups, grouppermission, usergroupCache>>,
         userpermission' \in [User -> States], usergroup' \in [User -> SUBSET Group],
         SessionsTyped', UserInv'
  PROVE  Inv'
<1>1. GroupInv'
  BY GroupKept DEF Inv
<1>2. TablesTyped' /\ GroupsTyped'
  BY DEF Inv, Typed, TablesTyped, GroupsTyped
<1> QED
  BY <1>1, <1>2 DEF Inv, Typed

\* The users a step of thread t on user u is not about.
LEMMA OtherUsers ==
  ASSUME UserInv, NEW t \in Thread, NEW u \in User,
         \A v \in Thread \ {t} : work'[v] = work[v],
         \A w \in User \ {u} : ~OnUser(t, w) /\ ~OnUser(t, w)',
         \A w \in User \ {u} : /\ disturbed'[w] = disturbed[w]
                               /\ userpermission'[w] = userpermission[w]
                               /\ activeSessions'[w] = activeSessions[w]
                               /\ SessionsOf(w)' = SessionsOf(w)
                               /\ \A s \in SessionsOf(w) : sessionList'[s] = sessionList[s]
  PROVE  \A w \in User \ {u} : UserFollows(w)'
<1> SUFFICES ASSUME NEW w \in User \ {u} PROVE UserFollows(w)'
  OBVIOUS
<1>1. SameUser(w)
  BY OtherThread DEF SameUser
<1> QED
  BY <1>1, OtherUser DEF UserInv

\* A step that leaves the sessions alone leaves their users alone.
LEMMA SessionsStay ==
  ASSUME UNCHANGED sessionList
  PROVE  \A w \in User : SessionsOf(w)' = SessionsOf(w)
BY DEF SessionsOf

\* addUserPermission() and removeUserPermission(): the table has the state, and the session
\* will have when it gets it too.
LEMMA AddUserPermissionStep ==
  ASSUME Inv, NEW t \in Thread, NEW u \in User, NEW p \in Permission,
         NEW state \in State \cup {None}, addUserPermission(t, u, p, state)
  PROVE  Inv'
<1> DEFINE w == [op |-> "cache", user |-> u, permission |-> p, state |-> state]
<1>1. /\ Receive(t, u, FALSE)
      /\ userpermission' = [userpermission EXCEPT ![u][p] = state]
      /\ work' = [work EXCEPT ![t] = w]
      /\ UNCHANGED <<usergroup, groups, grouppermission, caches>>
  BY DEF addUserPermission
<1>2. /\ CountTyped' /\ work[t] = Idle
      /\ \A y \in (User \cup Group) \ {u} : disturbed'[y] = disturbed[y]
      /\ ~disturbed'[u] => ~disturbed[u] /\ \A other \in Thread : u \notin about(other)
  BY <1>1, ReceiveFacts DEF Inv, Typed
<1>3. WorkOK(w)
  BY DEF WorkOK, UserOps
<1>4. /\ WorkTyped'
      /\ work'[t] = w
      /\ \A v \in Thread \ {t} : work'[v] = work[v]
  BY <1>1, <1>3, WorkChanged DEF Inv, Typed
<1>5. userpermission' \in [User -> States] /\ userpermission \in [User -> States]
  BY <1>1 DEF Inv, Typed, TablesTyped, States
<1>6. UNCHANGED <<sessionList, activeSessions, usergroupCache>>
  BY <1>1 DEF caches
<1>7. \A v \in User : SessionsOf(v)' = SessionsOf(v)
  BY <1>6, SessionsStay
<1>8. UserFollows(u)'
  <2> SUFFICES ASSUME ~disturbed'[u] PROVE UserFollows(u)'
    BY DEF UserFollows
  <2>1. ~disturbed[u] /\ UserFollows(u) /\ \A v \in Thread : ~OnUser(v, u)
    BY <1>2, AboutUser DEF Inv, Typed, UserInv
  <2>2. \A v \in Thread : OnUser(v, u)' <=> v = t
    BY <1>4, <2>1 DEF OnUser, UserOps
  <2>3. \A s \in SessionsOf(u) : /\ s = activeSessions[u]
                                /\ sessionList[s].permissionsCache = userpermission[u]
    BY <2>1 DEF UserFollows
  <2>4. [userpermission[u] EXCEPT ![p] = state] = userpermission'[u]
    BY <1>1, <1>5
  <2> QED
    BY <1>4, <1>6, <1>7, <2>2, <2>3, <2>4 DEF UserFollows
<1>9. \A v \in User \ {u} : UserFollows(v)'
  <2>1. \A v \in User \ {u} : ~OnUser(t, v) /\ ~OnUser(t, v)'
    BY <1>2, <1>4 DEF OnUser, Idle, UserOps
  <2>2. \A v \in User \ {u} : userpermission'[v] = userpermission[v]
    BY <1>1, <1>5
  <2> QED
    BY <1>2, <1>4, <1>6, <1>7, <2>1, <2>2, OtherUsers DEF Inv
<1>10. ActiveIsListed'
  BY <1>6, <1>7 DEF Inv, UserInv, ActiveIsListed
<1>11. CheckedSession'
  BY <1>4, <1>6 DEF Inv, UserInv, CheckedSession
<1>12. UserInv'
  BY <1>8, <1>9, <1>10, <1>11 DEF UserInv
<1>13. SessionsTyped' /\ usergroup' \in [User -> SUBSET Group]
  BY <1>1, <1>6 DEF Inv, Typed, SessionsTyped, TablesTyped
<1>14. work[t].op \notin GroupOps /\ work'[t].op \notin GroupOps
  BY <1>2, <1>4 DEF Idle, GroupOps
<1>15. \A g \in Group : disturbed'[g] = disturbed[g]
  BY <1>2, SaidTypes
<1> QED
  BY <1>1, <1>2, <1>4, <1>5, <1>6, <1>12, <1>13, <1>14, <1>15, UserStepFacts

\* The user a command is about, and what comes with the step it is at.
LEMMA UserWork ==
  ASSUME Inv, NEW t \in Thread, work[t].op \in UserOps
  PROVE  /\ work[t].user \in User
         /\ work[t].op = "cache" => /\ work[t].permission \in Permission
                                    /\ work[t].state \in State \cup {None}
         /\ work[t].op \in {"groups", "insert"} => work[t].permissionsCache \in States
         /\ work[t].op = "insert" => work[t].usergroups \in Seq(Group)
         /\ work[t].op = "check" => work[t].session \in Session
         /\ work[t].op \notin GroupOps
BY DEF Inv, Typed, WorkTyped, WorkOK, Idle, GroupOps, UserOps

\* The session of a user with a session has that user.
LEMMA SessionFacts ==
  ASSUME Inv, NEW s \in Session, sessionList[s] # Absent
  PROVE  /\ sessionList[s] \in SessionData
         /\ sessionList[s].user \in User
         /\ s \in SessionsOf(sessionList[s].user)
         /\ \A w \in User \ {sessionList[s].user} : s \notin SessionsOf(w)
BY DEF Inv, Typed, SessionsTyped, SessionData, SessionsOf

\* The session gets the state that the table has.
LEMMA CacheUserPermissionStep ==
  ASSUME Inv, NEW t \in Thread, NEW u \in User, work[t].user = u, CacheUserPermission(t)
  PROVE  Inv'
<1> DEFINE a == activeSessions[u]
           p == work[t].permission
           state == work[t].state
<1>1. /\ work[t].op = "cache"
      /\ sessionList' = IF a = None THEN sessionList
                        ELSE [sessionList EXCEPT ![a].permissionsCache[p] = state]
      /\ Continue(t, Idle)
      /\ UNCHANGED <<tables, usergroupCache, activeSessions>>
  BY DEF CacheUserPermission, getSessionIDbyUserID
<1>2. p \in Permission /\ state \in State \cup {None} /\ work[t].op \notin GroupOps
  BY <1>1, UserWork DEF UserOps
<1>3. /\ WorkTyped' /\ work'[t] = Idle
      /\ \A v \in Thread \ {t} : work'[v] = work[v]
      /\ UNCHANGED disturbed
  <2>1. WorkOK(Idle)
    BY DEF WorkOK
  <2> QED
    BY <1>1, <2>1, WorkChanged DEF Inv, Typed, Continue
<1>4. a \in Session \cup {None} /\ (a # None => a \in SessionsOf(u))
  BY DEF Inv, Typed, SessionsTyped, UserInv, ActiveIsListed
<1>5. a # None => a \in Session /\ sessionList[a] # Absent /\ sessionList[a].user = u
  BY <1>4 DEF SessionsOf
<1> DEFINE given == [sessionList[a].permissionsCache EXCEPT ![p] = state]
<1>6. ASSUME a # None
      PROVE  /\ sessionList'[a] = [sessionList[a] EXCEPT !.permissionsCache = given]
             /\ sessionList'[a] \in SessionData
             /\ sessionList'[a].user = u
             /\ sessionList'[a].permissionsCache = given
  <2>1. sessionList[a] \in SessionData
    BY <1>5, <1>6, SessionFacts
  <2>2. sessionList'[a] = [sessionList[a] EXCEPT !.permissionsCache = given]
    BY <1>1, <1>5, <1>6 DEF Inv, Typed, SessionsTyped
  <2>3. given \in States
    BY <1>2, <2>1 DEF SessionData, States
  <2> QED
    BY <1>5, <1>6, <2>1, <2>2, <2>3 DEF SessionData
<1>7. /\ DOMAIN sessionList' = Session
      /\ \A s \in Session : a = None \/ s # a => sessionList'[s] = sessionList[s]
  BY <1>1 DEF Inv, Typed, SessionsTyped
<1>8. \A s \in Session : /\ sessionList'[s] = Absent <=> sessionList[s] = Absent
                         /\ sessionList[s] # Absent => sessionList'[s].user = sessionList[s].user
  BY <1>5, <1>6, <1>7, AbsentAssumption
<1>9. \A w \in User : SessionsOf(w)' = SessionsOf(w)
  BY <1>8 DEF SessionsOf
<1>10. SessionsTyped'
  BY <1>1, <1>6, <1>7 DEF Inv, Typed, SessionsTyped
<1>11. UserFollows(u)'
  <2> SUFFICES ASSUME ~disturbed'[u] PROVE UserFollows(u)'
    BY DEF UserFollows
  <2>1. OnUser(t, u) /\ UserFollows(u) /\ ~disturbed[u]
    BY <1>1, <1>3 DEF OnUser, UserOps, Inv, UserInv
  <2>2. \A v \in Thread : ~OnUser(v, u)'
    BY <1>3, <2>1 DEF UserFollows, OnUser, Idle, UserOps
  <2>3. \A s \in SessionsOf(u) :
            /\ s = a
            /\ [sessionList[s].permissionsCache EXCEPT ![p] = state] = userpermission[u]
    BY <1>1, <2>1 DEF UserFollows
  <2>4. \A s \in SessionsOf(u) : s # None
    BY SaidTypes DEF SessionsOf
  <2>5. \A s \in SessionsOf(u) : sessionList'[s].permissionsCache = userpermission[u]
    BY <1>6, <2>3, <2>4
  <2>6. userpermission'[u] = userpermission[u] /\ activeSessions'[u] = a
    BY <1>1 DEF tables
  <2> QED
    BY <1>9, <2>2, <2>3, <2>5, <2>6 DEF UserFollows
<1>12. \A w \in User \ {u} : UserFollows(w)'
  <2>1. \A w \in User \ {u} : ~OnUser(t, w) /\ ~OnUser(t, w)'
    BY <1>3 DEF OnUser, Idle, UserOps
  <2>2. \A w \in User \ {u} : \A s \in SessionsOf(w) : sessionList'[s] = sessionList[s]
    BY <1>5, <1>7 DEF SessionsOf
  <2> QED
    BY <1>1, <1>3, <1>9, <2>1, <2>2, OtherUsers DEF Inv, tables
<1>13. ActiveIsListed'
  BY <1>1, <1>9 DEF Inv, UserInv, ActiveIsListed
<1>14. CheckedSession'
  <2> SUFFICES ASSUME NEW v \in Thread, work'[v].op = "check"
               PROVE  \/ sessionList'[work'[v].session] = Absent
                      \/ sessionList'[work'[v].session].user = work'[v].user
    BY DEF CheckedSession
  <2>1. v # t
    BY <1>3 DEF Idle
  <2>2. work'[v] = work[v] /\ work[v].session \in Session
    BY <1>3, <2>1, UserWork DEF UserOps
  <2> QED
    BY <1>8, <2>2 DEF Inv, UserInv, CheckedSession
<1>15. UserInv'
  BY <1>11, <1>12, <1>13, <1>14 DEF UserInv
<1>16. work'[t].op \notin GroupOps
  BY <1>3 DEF Idle, GroupOps
<1>17. CountTyped' /\ userpermission' \in [User -> States] /\ usergroup' \in [User -> SUBSET Group]
  BY <1>1 DEF Inv, Typed, CountTyped, TablesTyped, tables, Continue
<1> QED
  BY <1>1, <1>2, <1>3, <1>10, <1>15, <1>16, <1>17, UserStepFacts DEF tables

-----------------------------------------------------------------------------
\* A command about u that comes in.
LEMMA UserReceive ==
  ASSUME Inv, NEW t \in Thread, NEW u \in User, NEW heals, Receive(t, u, heals)
  PROVE  /\ CountTyped' /\ work[t] = Idle
         /\ work[t].op \notin GroupOps
         /\ \A g \in Group : disturbed'[g] = disturbed[g]
         /\ \A w \in User \ {u} : disturbed'[w] = disturbed[w]
         /\ \A w \in User : ~OnUser(t, w)
         /\ ~disturbed'[u] => \A v \in Thread : ~OnUser(v, u)
         /\ ~disturbed'[u] /\ ~heals => ~disturbed[u]
<1>1. /\ CountTyped' /\ work[t] = Idle
      /\ \A y \in (User \cup Group) \ {u} : disturbed'[y] = disturbed[y]
      /\ ~disturbed'[u] => \A other \in Thread : u \notin about(other)
      /\ ~disturbed'[u] /\ ~heals => ~disturbed[u]
  BY ReceiveFacts DEF Inv, Typed
<1>2. ~disturbed'[u] => \A v \in Thread : ~OnUser(v, u)
  BY <1>1, AboutUser DEF Inv, Typed
<1> QED
  BY <1>1, <1>2, SaidTypes DEF OnUser, Idle, GroupOps, UserOps

\* Users other than the one a step is about, where sessions and table are left alone.
LEMMA OthersWithSessionsStay ==
  ASSUME Inv, NEW t \in Thread, NEW u \in User,
         UNCHANGED <<userpermission, sessionList, activeSessions>>,
         \A v \in Thread \ {t} : work'[v] = work[v],
         \A w \in User \ {u} : ~OnUser(t, w) /\ ~OnUser(t, w)',
         \A w \in User \ {u} : disturbed'[w] = disturbed[w]
  PROVE  /\ \A w \in User \ {u} : UserFollows(w)'
         /\ ActiveIsListed'
<1>1. \A w \in User : SessionsOf(w)' = SessionsOf(w)
  BY SessionsStay
<1>2. \A w \in User \ {u} : UserFollows(w)'
  BY <1>1, OtherUsers DEF Inv
<1> QED
  BY <1>1, <1>2 DEF Inv, UserInv, ActiveIsListed

\* addUserUsergroup() and removeUserUsergroup() change nothing but their table.
LEMMA MembershipStep ==
  ASSUME Inv, NEW t \in Thread, NEW u \in User, NEW g \in Group,
         addUserUsergroup(t, u, g) \/ removeUserUsergroup(t, u, g)
  PROVE  Inv'
<1>1. Receive(t, u, FALSE) /\ UNCHANGED <<userpermission, groups, grouppermission, caches, work>>
  BY DEF addUserUsergroup, removeUserUsergroup
<1>2. /\ CountTyped' /\ work[t] = Idle
      /\ work[t].op \notin GroupOps
      /\ \A h \in Group : disturbed'[h] = disturbed[h]
      /\ \A w \in User \ {u} : disturbed'[w] = disturbed[w]
      /\ \A w \in User : ~OnUser(t, w)
      /\ ~disturbed'[u] => ~disturbed[u]
  BY <1>1, UserReceive
<1>3. WorkTyped'
  BY <1>1, WorkSame DEF Inv, Typed
<1>4. usergroup' \in [User -> SUBSET Group] /\ userpermission' \in [User -> States]
  BY <1>1 DEF Inv, Typed, TablesTyped, addUserUsergroup, removeUserUsergroup
<1>5. \A w \in User, v \in Thread : OnUser(v, w)' <=> OnUser(v, w)
  BY <1>1 DEF OnUser
<1>6. (\A w \in User \ {u} : UserFollows(w)') /\ ActiveIsListed'
  BY <1>1, <1>2, <1>5, OthersWithSessionsStay DEF caches
<1>7. UserFollows(u)'
  <2> SUFFICES ASSUME ~disturbed'[u] PROVE UserFollows(u)'
    BY DEF UserFollows
  <2>1. UserFollows(u) /\ ~disturbed[u]
    BY <1>2 DEF Inv, UserInv
  <2>2. SessionsOf(u)' = SessionsOf(u)
    BY <1>1, SessionsStay DEF caches
  <2> QED
    BY <1>1, <1>5, <2>1, <2>2 DEF UserFollows, caches
<1>8. CheckedSession'
  BY <1>1 DEF Inv, UserInv, CheckedSession, caches
<1>9. SessionsTyped'
  BY <1>1 DEF Inv, Typed, SessionsTyped, caches
<1> QED
  BY <1>1, <1>2, <1>3, <1>4, <1>6, <1>7, <1>8, <1>9, UserStepFacts DEF UserInv, caches

\* A login of a user with a session is given that session.
LEMMA ReuseSessionStep ==
  ASSUME Inv, NEW t \in Thread, NEW u \in User, ReuseSession(t, u)
  PROVE  Inv'
<1> DEFINE w == [op |-> "check", user |-> u, session |-> activeSessions[u]]
<1>1. /\ Receive(t, u, FALSE) /\ activeSessions[u] # None
      /\ work' = [work EXCEPT ![t] = w]
      /\ UNCHANGED <<tables, caches>>
  BY DEF ReuseSession
<1>2. /\ CountTyped' /\ work[t] = Idle
      /\ work[t].op \notin GroupOps
      /\ \A h \in Group : disturbed'[h] = disturbed[h]
      /\ \A v \in User \ {u} : disturbed'[v] = disturbed[v]
      /\ \A v \in User : ~OnUser(t, v)
      /\ ~disturbed'[u] => ~disturbed[u] /\ \A v \in Thread : ~OnUser(v, u)
  BY <1>1, UserReceive
<1>3. activeSessions[u] \in SessionsOf(u)
  BY <1>1 DEF Inv, UserInv, ActiveIsListed
<1>4. WorkOK(w)
  BY <1>3 DEF WorkOK, UserOps, SessionsOf
<1>5. /\ WorkTyped' /\ work'[t] = w
      /\ \A v \in Thread \ {t} : work'[v] = work[v]
  <2>1. WorkTyped /\ work' = [work EXCEPT ![t] = w]
    BY <1>1 DEF Inv, Typed
  <2> HIDE DEF w
  <2> QED
    BY <1>4, <2>1, WorkChanged
<1>6. \A v \in User \ {u} : ~OnUser(t, v)'
  BY <1>5 DEF OnUser
<1>7. (\A v \in User \ {u} : UserFollows(v)') /\ ActiveIsListed'
  BY <1>1, <1>2, <1>5, <1>6, OthersWithSessionsStay DEF tables, caches
<1>8. UserFollows(u)'
  <2> SUFFICES ASSUME ~disturbed'[u] PROVE UserFollows(u)'
    BY DEF UserFollows
  <2>1. UserFollows(u) /\ ~disturbed[u] /\ \A v \in Thread : ~OnUser(v, u)
    BY <1>2 DEF Inv, UserInv
  <2>2. SessionsOf(u)' = SessionsOf(u)
    BY <1>1, SessionsStay DEF caches
  <2>3. \A v \in Thread : OnUser(v, u)' <=> v = t
    BY <1>5, <2>1 DEF OnUser, UserOps
  <2>4. \A s \in SessionsOf(u) : /\ s = activeSessions[u]
                                /\ sessionList[s].permissionsCache = userpermission[u]
    BY <2>1 DEF UserFollows
  <2> QED
    BY <1>1, <1>5, <2>2, <2>3, <2>4 DEF UserFollows, tables, caches
<1>9. CheckedSession'
  BY <1>1, <1>3, <1>5 DEF Inv, UserInv, CheckedSession, SessionsOf, caches
<1>10. SessionsTyped'
  BY <1>1 DEF Inv, Typed, SessionsTyped, caches
<1>11. work'[t].op \notin GroupOps
  BY <1>5 DEF GroupOps
<1>12. userpermission' \in [User -> States] /\ usergroup' \in [User -> SUBSET Group]
  BY <1>1 DEF Inv, Typed, TablesTyped, tables
<1> QED
  BY <1>1, <1>2, <1>5, <1>7, <1>8, <1>9, <1>10, <1>11, <1>12, UserStepFacts
  DEF UserInv, tables, caches

\* A login of a user without a session reads the states of the user's permissions.
LEMMA NewSessionStep ==
  ASSUME Inv, NEW t \in Thread, NEW u \in User, newSession(t, u)
  PROVE  Inv'
<1> DEFINE w == [op |-> "groups", user |-> u, permissionsCache |-> userpermission[u]]
<1>1. /\ Receive(t, u, SessionsOf(u) = {}) /\ activeSessions[u] = None
      /\ work' = [work EXCEPT ![t] = w]
      /\ UNCHANGED <<tables, caches>>
  BY DEF newSession
<1>2. /\ CountTyped' /\ work[t] = Idle
      /\ work[t].op \notin GroupOps
      /\ \A h \in Group : disturbed'[h] = disturbed[h]
      /\ \A v \in User \ {u} : disturbed'[v] = disturbed[v]
      /\ \A v \in User : ~OnUser(t, v)
      /\ ~disturbed'[u] => \A v \in Thread : ~OnUser(v, u)
      /\ ~disturbed'[u] /\ SessionsOf(u) # {} => ~disturbed[u]
  BY <1>1, UserReceive
<1>3. WorkOK(w)
  BY DEF WorkOK, UserOps, Inv, Typed, TablesTyped
<1>4. /\ WorkTyped' /\ work'[t] = w
      /\ \A v \in Thread \ {t} : work'[v] = work[v]
  <2>1. WorkTyped /\ work' = [work EXCEPT ![t] = w]
    BY <1>1 DEF Inv, Typed
  <2> HIDE DEF w
  <2> QED
    BY <1>3, <2>1, WorkChanged
<1>5. \A v \in User \ {u} : ~OnUser(t, v)'
  BY <1>4 DEF OnUser
<1>6. (\A v \in User \ {u} : UserFollows(v)') /\ ActiveIsListed'
  BY <1>1, <1>2, <1>4, <1>5, OthersWithSessionsStay DEF tables, caches
<1>7. UserFollows(u)'
  <2> SUFFICES ASSUME ~disturbed'[u] PROVE UserFollows(u)'
    BY DEF UserFollows
  <2>1. \A v \in Thread : ~OnUser(v, u)
    BY <1>2
  <2>2. SessionsOf(u) = {}
    <3> SUFFICES ASSUME SessionsOf(u) # {} PROVE FALSE
      OBVIOUS
    <3>1. PICK s \in SessionsOf(u) : s = activeSessions[u]
      BY <1>2 DEF Inv, UserInv, UserFollows
    <3> QED
      BY <1>1, <3>1, SaidTypes DEF SessionsOf
  <2>3. SessionsOf(u)' = {}
    BY <1>1, <2>2, SessionsStay DEF caches
  <2>4. \A v \in Thread : OnUser(v, u)' <=> v = t
    BY <1>4, <2>1 DEF OnUser, UserOps
  <2> QED
    BY <1>1, <1>4, <2>3, <2>4 DEF UserFollows, tables
<1>8. CheckedSession'
  BY <1>1, <1>4 DEF Inv, UserInv, CheckedSession, caches
<1>9. SessionsTyped'
  BY <1>1 DEF Inv, Typed, SessionsTyped, caches
<1>10. work'[t].op \notin GroupOps
  BY <1>4 DEF GroupOps
<1>11. userpermission' \in [User -> States] /\ usergroup' \in [User -> SUBSET Group]
  BY <1>1 DEF Inv, Typed, TablesTyped, tables
<1> QED
  BY <1>1, <1>2, <1>4, <1>6, <1>7, <1>8, <1>9, <1>10, <1>11, UserStepFacts
  DEF UserInv, tables, caches

\* The groups of a user, in any order, are a sequence of groups.
LEMMA OrderType ==
  ASSUME NEW S \in SUBSET Group, NEW order \in SetToSeqs(S)
  PROVE  order \in Seq(Group)
<1>1. IsFiniteSet(S)
  BY SortsAssumption, FS_Subset
<1>2. Cardinality(S) \in Nat
  BY <1>1, FS_CardinalityType
<1>3. order \in [1..Cardinality(S) -> S]
  BY DEF SetToSeqs
<1>4. order \in Seq(S)
  BY <1>2, <1>3
<1> QED
  BY <1>4, SeqMonotonic

\* A new session reads the user's groups.
LEMMA QueryUsergroupsStep ==
  ASSUME Inv, NEW t \in Thread, NEW u \in User, work[t].user = u, QueryUsergroups(t)
  PROVE  Inv'
<1>1. PICK order \in SetToSeqs(usergroup[u]) :
        Continue(t, [op |-> "insert", user |-> u, permissionsCache |-> work[t].permissionsCache,
                     usergroups |-> order])
  BY DEF QueryUsergroups
<1> DEFINE w == [op |-> "insert", user |-> u, permissionsCache |-> work[t].permissionsCache,
                 usergroups |-> order]
<1>2. work[t].op = "groups" /\ UNCHANGED <<tables, caches>>
  BY DEF QueryUsergroups
<1>3. work[t].permissionsCache \in States /\ work[t].op \notin GroupOps
  BY <1>2, UserWork DEF UserOps
<1>4. order \in Seq(Group)
  BY OrderType DEF Inv, Typed, TablesTyped
<1>5. WorkOK(w)
  BY <1>3, <1>4 DEF WorkOK, UserOps
<1>6. /\ WorkTyped' /\ work'[t] = w
      /\ \A v \in Thread \ {t} : work'[v] = work[v]
      /\ UNCHANGED disturbed
  BY <1>1, <1>5, WorkChanged DEF Inv, Typed, Continue
<1>7. \A v \in User \ {u} : ~OnUser(t, v) /\ ~OnUser(t, v)'
  BY <1>6 DEF OnUser
<1>8. (\A v \in User \ {u} : UserFollows(v)') /\ ActiveIsListed'
  BY <1>2, <1>6, <1>7, OthersWithSessionsStay DEF tables, caches
<1>9. UserFollows(u)'
  <2> SUFFICES ASSUME ~disturbed'[u] PROVE UserFollows(u)'
    BY DEF UserFollows
  <2>1. UserFollows(u) /\ ~disturbed[u] /\ OnUser(t, u)
    BY <1>2, <1>6 DEF Inv, UserInv, OnUser, UserOps
  <2>2. SessionsOf(u) = {} /\ work[t].permissionsCache = userpermission[u]
    BY <1>2, <2>1 DEF UserFollows
  <2>3. SessionsOf(u)' = {}
    BY <1>2, <2>2, SessionsStay DEF caches
  <2>4. \A v \in Thread : OnUser(v, u)' <=> v = t
    BY <1>6, <2>1 DEF OnUser, UserOps, UserFollows
  <2> QED
    BY <1>2, <1>6, <2>2, <2>3, <2>4 DEF UserFollows, tables
<1>10. CheckedSession'
  BY <1>2, <1>6 DEF Inv, UserInv, CheckedSession, caches
<1>11. SessionsTyped'
  BY <1>2 DEF Inv, Typed, SessionsTyped, caches
<1>12. work'[t].op \notin GroupOps
  BY <1>6 DEF GroupOps
<1>13. CountTyped' /\ userpermission' \in [User -> States] /\ usergroup' \in [User -> SUBSET Group]
  BY <1>1, <1>2 DEF Inv, Typed, CountTyped, TablesTyped, tables, Continue
<1> QED
  BY <1>2, <1>3, <1>6, <1>8, <1>9, <1>10, <1>11, <1>12, <1>13, UserStepFacts
  DEF UserInv, tables, caches

\* A new session is the only one of an undisturbed user, and the one logins are given.
LEMMA InsertSessionStep ==
  ASSUME Inv, NEW t \in Thread, NEW u \in User, work[t].user = u, InsertSession(t)
  PROVE  Inv'
<1> DEFINE data == [user |-> u, usergroups |-> work[t].usergroups,
                    permissionsCache |-> work[t].permissionsCache]
<1>1. PICK s \in Session :
        /\ sessionList[s] = Absent
        /\ \A other \in Thread : work[other].op = "check" => work[other].session # s
        /\ sessionList' = [sessionList EXCEPT ![s] = data]
        /\ activeSessions' = [activeSessions EXCEPT ![u] = s]
        /\ Continue(t, [op |-> "check", user |-> u, session |-> s])
  BY DEF InsertSession
<1> DEFINE w == [op |-> "check", user |-> u, session |-> s]
<1>2. work[t].op = "insert" /\ UNCHANGED <<tables, usergroupCache>>
  BY DEF InsertSession
<1>3. data \in SessionData /\ data # Absent /\ work[t].op \notin GroupOps
  BY <1>2, UserWork, AbsentAssumption DEF UserOps, SessionData
<1>4. WorkOK(w)
  BY DEF WorkOK, UserOps
<1>5. /\ WorkTyped' /\ work'[t] = w
      /\ \A v \in Thread \ {t} : work'[v] = work[v]
      /\ UNCHANGED disturbed
  BY <1>1, <1>4, WorkChanged DEF Inv, Typed, Continue
<1>6. /\ sessionList'[s] = data
      /\ \A r \in Session \ {s} : sessionList'[r] = sessionList[r]
      /\ DOMAIN sessionList' = Session
      /\ activeSessions'[u] = s
      /\ \A v \in User \ {u} : activeSessions'[v] = activeSessions[v]
      /\ activeSessions' \in [User -> Session \cup {None}]
  BY <1>1 DEF Inv, Typed, SessionsTyped
<1>7. SessionsTyped'
  BY <1>3, <1>6 DEF Inv, Typed, SessionsTyped
<1>8. SessionsOf(u)' = SessionsOf(u) \cup {s}
  BY <1>1, <1>3, <1>6 DEF SessionsOf
<1>9. \A v \in User \ {u} : /\ SessionsOf(v)' = SessionsOf(v)
                             /\ \A r \in SessionsOf(v) : sessionList'[r] = sessionList[r]
  BY <1>1, <1>6 DEF SessionsOf
<1>10. \A v \in User \ {u} : ~OnUser(t, v) /\ ~OnUser(t, v)'
  BY <1>5 DEF OnUser
<1>11. \A v \in User \ {u} : UserFollows(v)'
  BY <1>2, <1>5, <1>6, <1>9, <1>10, OtherUsers DEF Inv, tables
<1>12. UserFollows(u)'
  <2> SUFFICES ASSUME ~disturbed'[u] PROVE UserFollows(u)'
    BY DEF UserFollows
  <2>1. UserFollows(u) /\ ~disturbed[u] /\ OnUser(t, u)
    BY <1>2, <1>5 DEF Inv, UserInv, OnUser, UserOps
  <2>2. SessionsOf(u) = {} /\ work[t].permissionsCache = userpermission[u]
    BY <1>2, <2>1 DEF UserFollows
  <2>3. SessionsOf(u)' = {s}
    BY <1>8, <2>2
  <2>4. \A v \in Thread : OnUser(v, u)' <=> v = t
    BY <1>5, <2>1 DEF OnUser, UserOps, UserFollows
  <2>5. sessionList'[s].permissionsCache = userpermission'[u]
    BY <1>2, <1>6, <2>2 DEF tables
  <2> QED
    BY <1>5, <1>6, <2>3, <2>4, <2>5 DEF UserFollows
<1>13. ActiveIsListed'
  <2>1. s \in SessionsOf(u)'
    BY <1>8
  <2> QED
    BY <1>6, <1>9, <2>1 DEF Inv, UserInv, ActiveIsListed
<1>14. CheckedSession'
  <2> SUFFICES ASSUME NEW v \in Thread, work'[v].op = "check"
               PROVE  \/ sessionList'[work'[v].session] = Absent
                      \/ sessionList'[work'[v].session].user = work'[v].user
    BY DEF CheckedSession
  <2>1. CASE v = t
    BY <1>5, <1>6, <2>1
  <2>2. CASE v # t
    <3>1. work'[v] = work[v] /\ work[v].op = "check"
      BY <1>5, <2>2
    <3>2. work[v].session \in Session \ {s}
      BY <1>1, <3>1, UserWork DEF UserOps
    <3> QED
      BY <1>6, <3>1, <3>2 DEF Inv, UserInv, CheckedSession
  <2> QED
    BY <2>1, <2>2
<1>15. work'[t].op \notin GroupOps
  BY <1>5 DEF GroupOps
<1>16. CountTyped' /\ userpermission' \in [User -> States] /\ usergroup' \in [User -> SUBSET Group]
  BY <1>1, <1>2 DEF Inv, Typed, CountTyped, TablesTyped, tables, Continue
<1> QED
  BY <1>2, <1>3, <1>5, <1>7, <1>11, <1>12, <1>13, <1>14, <1>15, <1>16, UserStepFacts
  DEF UserInv, tables

-----------------------------------------------------------------------------
\* A session that is removed is nobody's any more, whether it was the active one or not.
LEMMA RemoveFacts ==
  ASSUME Inv, NEW s \in Session, NEW u \in User, sessionList[s] # Absent,
         sessionList[s].user = u, removeSession(s)
  PROVE  /\ SessionsTyped'
         /\ sessionList'[s] = Absent
         /\ \A r \in Session \ {s} : sessionList'[r] = sessionList[r]
         /\ SessionsOf(u)' = SessionsOf(u) \ {s}
         /\ activeSessions'[u] = None
         /\ \A v \in User \ {u} : /\ SessionsOf(v)' = SessionsOf(v)
                                  /\ \A r \in SessionsOf(v) : sessionList'[r] = sessionList[r]
                                  /\ activeSessions'[v] = activeSessions[v]
         /\ ActiveIsListed'
<1>1. /\ sessionList' = [sessionList EXCEPT ![s] = Absent]
      /\ activeSessions' = [activeSessions EXCEPT ![u] = None]
  BY DEF removeSession
<1>2. /\ sessionList'[s] = Absent
      /\ \A r \in Session \ {s} : sessionList'[r] = sessionList[r]
      /\ activeSessions'[u] = None
      /\ \A v \in User \ {u} : activeSessions'[v] = activeSessions[v]
      /\ SessionsTyped'
  BY <1>1 DEF Inv, Typed, SessionsTyped
<1>3. SessionsOf(u)' = SessionsOf(u) \ {s}
  BY <1>2 DEF SessionsOf
<1>4. \A v \in User \ {u} : /\ SessionsOf(v)' = SessionsOf(v)
                            /\ \A r \in SessionsOf(v) : sessionList'[r] = sessionList[r]
  BY <1>2 DEF SessionsOf
<1>5. ActiveIsListed'
  BY <1>2, <1>4 DEF Inv, UserInv, ActiveIsListed
<1> QED
  BY <1>2, <1>3, <1>4, <1>5

LEMMA CheckedStays ==
  ASSUME Inv, NEW t \in Thread, work'[t].op # "check" \/ work'[t] = work[t],
         \A v \in Thread \ {t} : work'[v] = work[v],
         \A r \in Session : sessionList'[r] \in {Absent, sessionList[r]}
  PROVE  CheckedSession'
<1> SUFFICES ASSUME NEW v \in Thread, work'[v].op = "check"
             PROVE  \/ sessionList'[work'[v].session] = Absent
                    \/ sessionList'[work'[v].session].user = work'[v].user
  BY DEF CheckedSession
<1>1. work'[v] = work[v] /\ work[v].op = "check"
  OBVIOUS
<1>2. work[v].session \in Session
  BY <1>1, UserWork DEF UserOps
<1> QED
  BY <1>1, <1>2 DEF Inv, UserInv, CheckedSession

\* An undisturbed user has no session left when one of them is removed.
LEMMA NoneLeft ==
  ASSUME Inv, NEW s \in Session, NEW u \in User, ~disturbed[u], s \in SessionsOf(u)
  PROVE  SessionsOf(u) \ {s} = {}
BY DEF Inv, UserInv, UserFollows

LEMMA LogoutStep ==
  ASSUME Inv, NEW t \in Thread, NEW s \in Session, logout(t, s)
  PROVE  Inv'
<1>1. sessionList[s] # Absent
  BY DEF logout
<1>2. PICK u \in User : u = sessionList[s].user /\ s \in SessionsOf(u)
  BY <1>1, SessionFacts
<1>3. Receive(t, u, FALSE) /\ removeSession(s) /\ UNCHANGED <<tables, usergroupCache, work>>
  BY <1>2 DEF logout
<1>4. /\ CountTyped' /\ work[t] = Idle
      /\ work[t].op \notin GroupOps
      /\ \A h \in Group : disturbed'[h] = disturbed[h]
      /\ \A v \in User \ {u} : disturbed'[v] = disturbed[v]
      /\ \A v \in User : ~OnUser(t, v)
      /\ ~disturbed'[u] => ~disturbed[u] /\ \A v \in Thread : ~OnUser(v, u)
  BY <1>3, UserReceive
<1>5. /\ SessionsTyped'
      /\ \A r \in Session : sessionList'[r] \in {Absent, sessionList[r]}
      /\ SessionsOf(u)' = SessionsOf(u) \ {s}
      /\ \A v \in User \ {u} : /\ SessionsOf(v)' = SessionsOf(v)
                               /\ \A r \in SessionsOf(v) : sessionList'[r] = sessionList[r]
                               /\ activeSessions'[v] = activeSessions[v]
      /\ ActiveIsListed'
  BY <1>1, <1>2, <1>3, RemoveFacts
<1>6. WorkTyped'
  BY <1>3, WorkSame DEF Inv, Typed
<1>7. \A v \in Thread, x \in User : OnUser(v, x)' <=> OnUser(v, x)
  BY <1>3 DEF OnUser
<1>8. \A v \in User \ {u} : UserFollows(v)'
  <2>1. \A v \in Thread \ {t} : work'[v] = work[v]
    BY <1>3
  <2>2. \A v \in User \ {u} : ~OnUser(t, v) /\ ~OnUser(t, v)'
    BY <1>4, <1>7
  <2>3. \A v \in User \ {u} : userpermission'[v] = userpermission[v]
    BY <1>3 DEF tables
  <2>4. \A v \in User \ {u} : /\ disturbed'[v] = disturbed[v]
                              /\ userpermission'[v] = userpermission[v]
                              /\ activeSessions'[v] = activeSessions[v]
                              /\ SessionsOf(v)' = SessionsOf(v)
                              /\ \A r \in SessionsOf(v) : sessionList'[r] = sessionList[r]
    BY <1>4, <1>5, <2>3
  <2> QED
    BY <2>1, <2>2, <2>4, OtherUsers DEF Inv
<1>9. UserFollows(u)'
  <2> SUFFICES ASSUME ~disturbed'[u] PROVE UserFollows(u)'
    BY DEF UserFollows
  <2>1. SessionsOf(u)' = {}
    BY <1>2, <1>4, <1>5, NoneLeft
  <2>2. \A v \in Thread : ~OnUser(v, u)'
    BY <1>4, <1>7
  <2> QED
    BY <2>1, <2>2 DEF UserFollows
<1>10. CheckedSession'
  BY <1>3, <1>5, CheckedStays
<1>11. userpermission' \in [User -> States] /\ usergroup' \in [User -> SUBSET Group]
  BY <1>3 DEF Inv, Typed, TablesTyped, tables
<1> QED
  BY <1>3, <1>4, <1>5, <1>6, <1>8, <1>9, <1>10, <1>11, UserStepFacts DEF UserInv, tables

\* A session that may not log in is there, so that its removal is that of a user's session.
LEMMA DecidedIsThere ==
  ASSUME NEW s \in Session, NEW p \in Permission, checkPermission(s, p) \in {0, -1}
  PROVE  sessionList[s] # Absent
<1>1. 0 \in -1..1 /\ -1 \in -1..1
  OBVIOUS
<1>2. Error \notin {0, -1}
  BY <1>1, PermissionAssumption
<1> QED
  BY <1>2 DEF checkPermission

LEMMA CheckLoginStep ==
  ASSUME Inv, NEW t \in Thread, NEW u \in User, work[t].user = u, CheckLogin(t)
  PROVE  Inv'
<1> DEFINE s == work[t].session
<1>1. work[t].op = "check" /\ Continue(t, Idle) /\ UNCHANGED <<tables, usergroupCache>>
  BY DEF CheckLogin
<1>2. s \in Session /\ work[t].op \notin GroupOps
  BY <1>1, UserWork DEF UserOps
<1>3. /\ WorkTyped' /\ work'[t] = Idle
      /\ \A v \in Thread \ {t} : work'[v] = work[v]
      /\ UNCHANGED disturbed
  <2>1. WorkOK(Idle)
    BY DEF WorkOK
  <2> QED
    BY <1>1, <2>1, WorkChanged DEF Inv, Typed, Continue
<1>4. \A v \in User \ {u} : ~OnUser(t, v) /\ ~OnUser(t, v)'
  BY <1>3 DEF OnUser, Idle, UserOps
<1>5. work'[t].op \notin GroupOps /\ work'[t].op # "check" /\ ~OnUser(t, u)'
  BY <1>3 DEF OnUser, Idle, GroupOps, UserOps
<1>6. OnUser(t, u) /\ UserFollows(u)
  BY <1>1 DEF OnUser, UserOps, Inv, UserInv
<1>7. ~disturbed[u] => \A v \in Thread : ~OnUser(v, u)'
  BY <1>3, <1>5, <1>6 DEF UserFollows, OnUser
<1>8. ASSUME UNCHANGED <<sessionList, activeSessions>>
      PROVE  UserInv' /\ SessionsTyped'
  <2>1. (\A v \in User \ {u} : UserFollows(v)') /\ ActiveIsListed'
    BY <1>1, <1>3, <1>4, <1>8, OthersWithSessionsStay DEF tables
  <2>2. UserFollows(u)'
    <3> SUFFICES ASSUME ~disturbed'[u] PROVE UserFollows(u)'
      BY DEF UserFollows
    <3>1. SessionsOf(u)' = SessionsOf(u)
      BY <1>8, SessionsStay
    <3>2. \A r \in SessionsOf(u) : /\ r = activeSessions[u]
                                  /\ sessionList[r].permissionsCache = userpermission[u]
      BY <1>1, <1>3, <1>6 DEF UserFollows
    <3> QED
      BY <1>1, <1>3, <1>7, <1>8, <3>1, <3>2 DEF UserFollows, tables
  <2>3. CheckedSession'
    BY <1>3, <1>5, <1>8, CheckedStays
  <2>4. SessionsTyped'
    BY <1>8 DEF Inv, Typed, SessionsTyped
  <2> QED
    BY <2>1, <2>2, <2>3, <2>4 DEF UserInv
<1>9. ASSUME checkPermission(s, LoginPermission) \in {0, -1}, removeSession(s)
      PROVE  UserInv' /\ SessionsTyped'
  <2>1. sessionList[s] # Absent /\ sessionList[s].user = u
    BY <1>1, <1>2, <1>9, DecidedIsThere, PermissionAssumption DEF Inv, UserInv, CheckedSession
  <2>2. s \in SessionsOf(u)
    BY <1>2, <2>1 DEF SessionsOf
  <2>3. /\ SessionsTyped'
        /\ \A r \in Session : sessionList'[r] \in {Absent, sessionList[r]}
        /\ SessionsOf(u)' \subseteq SessionsOf(u)
        /\ ~disturbed[u] => SessionsOf(u)' = {}
        /\ \A v \in User \ {u} : /\ SessionsOf(v)' = SessionsOf(v)
                                 /\ \A r \in SessionsOf(v) : sessionList'[r] = sessionList[r]
                                 /\ activeSessions'[v] = activeSessions[v]
        /\ ActiveIsListed'
    BY <1>2, <1>9, <2>1, <2>2, RemoveFacts, NoneLeft
  <2>4. \A v \in User \ {u} : UserFollows(v)'
    <3>1. \A v \in User \ {u} : /\ disturbed'[v] = disturbed[v]
                                /\ userpermission'[v] = userpermission[v]
      BY <1>1, <1>3 DEF tables
    <3>2. \A v \in User \ {u} : /\ disturbed'[v] = disturbed[v]
                                /\ userpermission'[v] = userpermission[v]
                                /\ activeSessions'[v] = activeSessions[v]
                                /\ SessionsOf(v)' = SessionsOf(v)
                                /\ \A r \in SessionsOf(v) : sessionList'[r] = sessionList[r]
      BY <2>3, <3>1
    <3> QED
      BY <1>3, <1>4, <3>2, OtherUsers DEF Inv
  <2>5. UserFollows(u)'
    BY <1>3, <1>7, <2>3 DEF UserFollows
  <2>6. CheckedSession'
    BY <1>3, <1>5, <2>3, CheckedStays
  <2> QED
    BY <2>3, <2>4, <2>5, <2>6 DEF UserInv
<1>10. UserInv' /\ SessionsTyped'
  <2>1. \/ UNCHANGED <<sessionList, activeSessions>>
        \/ checkPermission(s, LoginPermission) \in {0, -1} /\ removeSession(s)
    BY DEF CheckLogin
  <2> QED
    BY <1>8, <1>9, <2>1
<1>11. CountTyped' /\ userpermission' \in [User -> States] /\ usergroup' \in [User -> SUBSET Group]
  BY <1>1 DEF Inv, Typed, CountTyped, TablesTyped, tables, Continue
<1> QED
  BY <1>1, <1>2, <1>3, <1>5, <1>10, <1>11, UserStepFacts DEF tables

-----------------------------------------------------------------------------
(***************************************************************************)
(* The invariant holds at the start and is kept by every step.             *)
(***************************************************************************)
LEMMA InitInv == Init => Inv
<1> SUFFICES ASSUME Init PROVE Inv
  OBVIOUS
<1>1. TablesTyped
  BY TablesAssumption DEF Init, TablesTyped, TablesOK
<1>2. /\ sessionList = [s \in Session |-> Absent]
      /\ activeSessions = [u \in User |-> None]
      /\ work = [t \in Thread |-> Idle]
      /\ commands = 0
      /\ disturbed = [x \in User \cup Group |-> FALSE]
      /\ usergroupCache = [g \in Group |-> InTables(g)]
  BY DEF Init, InTables
<1>3. GroupsTyped
  BY <1>1, <1>2 DEF GroupsTyped, TablesTyped, InTables
<1>4. SessionsTyped
  BY <1>2 DEF SessionsTyped
<1>5. WorkTyped
  BY <1>2 DEF WorkTyped, WorkOK
<1>6. CountTyped
  BY <1>2, SortsAssumption DEF CountTyped
<1>7. \A t \in Thread : /\ work[t].op \notin GroupOps /\ work[t].op \notin UserOps
                        /\ work[t].op # "check"
  BY <1>2 DEF Idle, GroupOps, UserOps
<1>8. GroupInv
  BY <1>2, <1>7 DEF GroupInv, GroupsExist, GroupFollows, OnGroup
<1>9. \A u \in User : SessionsOf(u) = {}
  BY <1>2 DEF SessionsOf
<1>10. UserInv
  BY <1>2, <1>7, <1>9 DEF UserInv, ActiveIsListed, CheckedSession, UserFollows, OnUser
<1> QED
  BY <1>1, <1>3, <1>4, <1>5, <1>6, <1>8, <1>10 DEF Inv, Typed

\* A command on a group that is between its steps has a group.
LEMMA GroupWork ==
  ASSUME Inv, NEW t \in Thread, work[t].op \in GroupOps
  PROVE  work[t].group \in Group
BY DEF Inv, Typed, WorkTyped, WorkOK, Idle, GroupOps, UserOps

LEMMA StutterInv == Inv /\ UNCHANGED vars => Inv'
<1> SUFFICES ASSUME Inv, UNCHANGED vars PROVE Inv'
  OBVIOUS
<1> USE DEF vars, tables, caches
<1>1. Typed'
  BY DEF Inv, Typed, TablesTyped, GroupsTyped, SessionsTyped, WorkTyped, CountTyped, WorkOK
<1>2. GroupInv'
  BY DEF Inv, GroupInv, GroupsExist, GroupFollows, OnGroup, InTables
<1>3. \A u \in User : SessionsOf(u)' = SessionsOf(u)
  BY DEF SessionsOf
<1>4. ActiveIsListed' /\ CheckedSession'
  BY <1>3 DEF Inv, UserInv, ActiveIsListed, CheckedSession
<1>5. ASSUME NEW u \in User PROVE UserFollows(u)'
  BY <1>3 DEF Inv, UserInv, UserFollows, OnUser
<1> QED
  BY <1>1, <1>2, <1>4, <1>5 DEF Inv, UserInv

LEMMA NextStep == Inv /\ Next => Inv'
<1> SUFFICES ASSUME Inv, Next PROVE Inv'
  OBVIOUS
<1> PICK t \in Thread :
      \/ \E u \in User, p \in Permission :
             \/ \E state \in State : addUserPermission(t, u, p, state)
             \/ removeUserPermission(t, u, p)
      \/ \E u \in User, g \in Group : addUserUsergroup(t, u, g) \/ removeUserUsergroup(t, u, g)
      \/ \E g \in Group, parent \in {h \in Group : groups[h] # Absent} \cup {None} :
             registerUsergroup(t, g, parent) \/ updateUsergroup(t, g, parent)
      \/ \E g \in Group, p \in Permission, state \in State :
             addUsergroupPermission(t, g, p, state)
      \/ QueryPermissions(t) \/ QueryParent(t) \/ updateUsergroupCache(t)
      \/ \E u \in User : ReuseSession(t, u) \/ newSession(t, u)
      \/ QueryUsergroups(t) \/ InsertSession(t) \/ CheckLogin(t)
      \/ \E s \in Session : logout(t, s)
      \/ CacheUserPermission(t)
  BY DEF Next
<1>1. ASSUME NEW u \in User, NEW p \in Permission, NEW state \in State,
             addUserPermission(t, u, p, state)
      PROVE  Inv'
  BY <1>1, AddUserPermissionStep
<1>2. ASSUME NEW u \in User, NEW p \in Permission, removeUserPermission(t, u, p)
      PROVE  Inv'
  BY <1>2, AddUserPermissionStep DEF removeUserPermission
<1>3. ASSUME NEW u \in User, NEW g \in Group,
             addUserUsergroup(t, u, g) \/ removeUserUsergroup(t, u, g)
      PROVE  Inv'
  BY <1>3, MembershipStep
<1>4. ASSUME NEW g \in Group, NEW parent \in {h \in Group : groups[h] # Absent} \cup {None},
             registerUsergroup(t, g, parent) \/ updateUsergroup(t, g, parent)
      PROVE  Inv'
  <2>1. LoginPermission \in Permission /\ 0 \in State
    BY PermissionAssumption DEF State
  <2> QED
    BY <1>4, <2>1, GroupCommandStep
<1>5. ASSUME NEW g \in Group, NEW p \in Permission, NEW state \in State,
             addUsergroupPermission(t, g, p, state)
      PROVE  Inv'
  BY <1>5, GroupCommandStep
<1>6. ASSUME QueryPermissions(t) \/ QueryParent(t) \/ updateUsergroupCache(t)
      PROVE  Inv'
  <2>1. work[t].group \in Group
    BY <1>6, GroupWork DEF QueryPermissions, QueryParent, updateUsergroupCache, GroupOps
  <2> QED
    BY <1>6, <2>1, QueryPermissionsStep, QueryParentStep, StoreStep
<1>7. ASSUME NEW u \in User, ReuseSession(t, u) \/ newSession(t, u)
      PROVE  Inv'
  BY <1>7, ReuseSessionStep, NewSessionStep
<1>8. ASSUME \/ QueryUsergroups(t) \/ InsertSession(t) \/ CheckLogin(t)
             \/ CacheUserPermission(t)
      PROVE  Inv'
  <2>1. work[t].op \in UserOps
    BY <1>8 DEF QueryUsergroups, InsertSession, CheckLogin, CacheUserPermission, UserOps
  <2>2. work[t].user \in User
    BY <2>1, UserWork
  <2> QED
    BY <1>8, <2>2, QueryUsergroupsStep, InsertSessionStep, CheckLoginStep,
       CacheUserPermissionStep
<1>9. ASSUME NEW s \in Session, logout(t, s)
      PROVE  Inv'
  BY <1>9, LogoutStep
<1> QED
  BY <1>1, <1>2, <1>3, <1>4, <1>5, <1>6, <1>7, <1>8, <1>9

LEMMA SpecInv == Spec => []Inv
<1>1. Inv /\ [Next]_vars => Inv'
  BY NextStep, StutterInv
<1> QED
  BY InitInv, <1>1, PTL DEF Spec

-----------------------------------------------------------------------------
(* In every reachable state the variables have their types.                *)
THEOREM TypeCorrect == Spec => []TypeOK
<1>1. Inv => TypeOK
  BY TypedIsTypeOK DEF Inv
<1> QED
  BY SpecInv, <1>1, PTL

(* However commands of the receive threads interleave (registerUsergroup,  *)
(* updateUsergroup, addUsergroupPermission and the refreshes that follow): *)
(* once a command about a group was handled alone, and none is in          *)
(* progress, usergroupCache has the group as the tables have it.           *)
THEOREM GroupCacheCurrent == Spec => []GroupsCurrent
<1>1. Inv => GroupsCurrent
  <2> SUFFICES ASSUME Inv, NEW g \in Group, ~InProgress(g), ~disturbed[g]
               PROVE  usergroupCache[g] = InTables(g)
    BY DEF GroupsCurrent, InTables
  <2>1. \A t \in Thread : ~OnGroup(t, g)
    BY AboutGroup DEF Inv, Typed, InProgress
  <2> QED
    BY <2>1 DEF Inv, GroupInv, GroupFollows
<1> QED
  BY SpecInv, <1>1, PTL

(* A user about whom no commands were handled together has, between        *)
(* commands, no session but the one new logins are given, and its cached   *)
(* states are those of the table, through any permission changes, logins   *)
(* and logouts (addUserPermission, newSession, removeSession).             *)
THEOREM UserCacheCurrent == Spec => []UserRightsCurrent
<1>1. Inv => UserRightsCurrent
  <2> SUFFICES ASSUME Inv, NEW u \in User, ~InProgress(u), ~disturbed[u]
               PROVE  \A s \in SessionsOf(u) :
                        /\ s = activeSessions[u]
                        /\ sessionList[s].permissionsCache = userpermission[u]
    BY DEF UserRightsCurrent
  <2>1. \A t \in Thread : ~OnUser(t, u)
    BY AboutUser DEF Inv, Typed, InProgress
  <2> QED
    BY <2>1 DEF Inv, UserInv, UserFollows
<1> QED
  BY SpecInv, <1>1, PTL

(* However logins and logouts meet, the session that newSession() hands to *)
(* the next login of a user is listed and that user's.                     *)
THEOREM ActiveSessionListed == Spec => []ActiveIsListed
<1>1. Inv => ActiveIsListed
  BY DEF Inv, UserInv
<1> QED
  BY SpecInv, <1>1, PTL

-----------------------------------------------------------------------------
\* A nonempty set of natural numbers has a least element, from which an argument by induction
\* is made as one about the least counterexample.
LEMMA LeastNatural ==
  ASSUME NEW S \in SUBSET Nat, S # {}
  PROVE  \E m \in S : \A n \in S : m <= n
<1> DEFINE Less == {ss \in Nat \X Nat : ss[1] < ss[2]}
<1>1. IsWellFoundedOn(Less, Nat)
  BY NatLessThanWellFounded DEF OpToRel
<1>2. PICK m \in S : \A n \in S : ~(<<n, m>> \in Less)
  <2> HIDE DEF Less
  <2> QED
    BY <1>1, WFMin
<1>3. \A n \in S : ~(n < m)
  BY <1>2
<1>4. \A n \in S : m <= n
  BY <1>3
<1> QED
  BY <1>4

-----------------------------------------------------------------------------
(***************************************************************************)
(* What is above a set, for any function from elements to their parents.   *)
(***************************************************************************)
LEMMA AboveIsLeast ==
  ASSUME NEW U, NEW parents \in [U -> SUBSET U], NEW S \in SUBSET U
  PROVE  /\ S \subseteq Above(S, parents)
         /\ Above(S, parents) \subseteq U
         /\ \A y \in Above(S, parents) : parents[y] \subseteq Above(S, parents)
         /\ \A C \in SUBSET U :
              S \subseteq C /\ (\A y \in C : parents[y] \subseteq C) => Above(S, parents) \subseteq C
<1>1. DOMAIN parents = U
  OBVIOUS
<1>2. S \subseteq Above(S, parents) /\ Above(S, parents) \subseteq U
  BY <1>1 DEF Above
<1>3. \A C \in SUBSET U :
        S \subseteq C /\ (\A y \in C : parents[y] \subseteq C) => Above(S, parents) \subseteq C
  BY <1>1 DEF Above
<1>4. ASSUME NEW y \in Above(S, parents), NEW x \in parents[y]
      PROVE  x \in Above(S, parents)
  <2>1. y \in U /\ x \in U
    BY <1>2
  <2>2. ASSUME NEW C \in SUBSET U, S \subseteq C, \A z \in C : parents[z] \subseteq C
        PROVE  x \in C
    <3>1. y \in C
      BY <2>2, <1>3
    <3> QED
      BY <2>2, <3>1
  <2> QED
    BY <1>1, <2>1, <2>2 DEF Above
<1> QED
  BY <1>2, <1>3, <1>4

\* Above an element are itself and what is above its parents.
LEMMA AboveOne ==
  ASSUME NEW U, NEW parents \in [U -> SUBSET U], NEW x \in U
  PROVE  Above({x}, parents) = {x} \cup Above(parents[x], parents)
<1>1. {x} \in SUBSET U /\ parents[x] \in SUBSET U
  OBVIOUS
<1> DEFINE one == Above({x}, parents)
<1> DEFINE up == Above(parents[x], parents)
<1>2. /\ x \in one /\ one \subseteq U
      /\ \A y \in one : parents[y] \subseteq one
      /\ \A C \in SUBSET U : {x} \subseteq C /\ (\A y \in C : parents[y] \subseteq C) => one \subseteq C
  BY <1>1, AboveIsLeast
<1>3. /\ parents[x] \subseteq up /\ up \subseteq U
      /\ \A y \in up : parents[y] \subseteq up
      /\ \A C \in SUBSET U :
           parents[x] \subseteq C /\ (\A y \in C : parents[y] \subseteq C) => up \subseteq C
  BY <1>1, AboveIsLeast
<1> HIDE DEF one, up
<1>4. up \subseteq one
  BY <1>2, <1>3
<1>5. one \subseteq {x} \cup up
  <2>1. {x} \cup up \in SUBSET U /\ {x} \subseteq {x} \cup up
    BY <1>3
  <2>2. \A y \in {x} \cup up : parents[y] \subseteq {x} \cup up
    BY <1>3
  <2> QED
    BY <1>2, <2>1, <2>2
<1>6. one = {x} \cup up
  BY <1>2, <1>4, <1>5
<1> QED
  BY <1>6 DEF one, up

\* Above a set is what is above one of its elements.
LEMMA AboveAll ==
  ASSUME NEW U, NEW parents \in [U -> SUBSET U], NEW S \in SUBSET U
  PROVE  Above(S, parents) = UNION {Above({x}, parents) : x \in S}
<1> DEFINE all == UNION {Above({x}, parents) : x \in S}
<1>1. /\ S \subseteq Above(S, parents)
      /\ \A y \in Above(S, parents) : parents[y] \subseteq Above(S, parents)
      /\ \A C \in SUBSET U :
           S \subseteq C /\ (\A y \in C : parents[y] \subseteq C) => Above(S, parents) \subseteq C
      /\ Above(S, parents) \subseteq U
  BY AboveIsLeast
<1>2. ASSUME NEW x \in S
      PROVE  /\ x \in Above({x}, parents) /\ Above({x}, parents) \subseteq U
             /\ Above({x}, parents) \subseteq Above(S, parents)
             /\ \A y \in Above({x}, parents) : parents[y] \subseteq Above({x}, parents)
  <2>1. {x} \in SUBSET U /\ {x} \subseteq Above(S, parents)
    BY <1>1
  <2>2. /\ {x} \subseteq Above({x}, parents) /\ Above({x}, parents) \subseteq U
        /\ \A y \in Above({x}, parents) : parents[y] \subseteq Above({x}, parents)
        /\ \A C \in SUBSET U :
             {x} \subseteq C /\ (\A y \in C : parents[y] \subseteq C) => Above({x}, parents) \subseteq C
    BY <2>1, AboveIsLeast
  <2> QED
    BY <1>1, <2>1, <2>2
<1>3. S \subseteq all /\ all \in SUBSET U /\ all \subseteq Above(S, parents)
  BY <1>2
<1>4. \A y \in all : parents[y] \subseteq all
  BY <1>2
<1> HIDE DEF all
<1>5. Above(S, parents) = all
  BY <1>1, <1>3, <1>4
<1> QED
  BY <1>5 DEF all

\* Who is not above itself has fewer above it, the higher it is.
LEMMA AboveLess ==
  ASSUME NEW U, IsFiniteSet(U), NEW parents \in [U -> SUBSET U], NEW x \in U
  PROVE  /\ Cardinality(Above({x}, parents)) \in Nat
         /\ Cardinality(Above({x}, parents)) <= Cardinality(U)
         /\ x \notin Above(parents[x], parents) =>
              \A y \in parents[x] :
                Cardinality(Above({y}, parents)) < Cardinality(Above({x}, parents))
<1>1. ASSUME NEW S \in SUBSET U
      PROVE  /\ Above(S, parents) \in SUBSET U
             /\ IsFiniteSet(Above(S, parents)) /\ Cardinality(Above(S, parents)) \in Nat
             /\ Cardinality(Above(S, parents)) <= Cardinality(U)
  <2>1. Above(S, parents) \in SUBSET U
    BY AboveIsLeast
  <2> QED
    BY <2>1, FS_Subset, FS_CardinalityType
<1>2. ASSUME x \notin Above(parents[x], parents), NEW y \in parents[x]
      PROVE  Cardinality(Above({y}, parents)) < Cardinality(Above({x}, parents))
  <2>1. y \in U /\ {x} \in SUBSET U /\ {y} \in SUBSET U /\ parents[x] \in SUBSET U
    OBVIOUS
  <2>2. Above({x}, parents) = {x} \cup Above(parents[x], parents)
    BY AboveOne
  <2>3. Above({y}, parents) \subseteq Above(parents[x], parents)
    <3>1. Above(parents[x], parents) = UNION {Above({z}, parents) : z \in parents[x]}
      BY <2>1, AboveAll
    <3> QED
      BY <3>1
  <2>4. x \notin Above({y}, parents) /\ x \in Above({x}, parents)
        /\ Above({y}, parents) \subseteq Above({x}, parents)
    BY <1>2, <2>2, <2>3
  <2>5. /\ IsFiniteSet(Above({x}, parents))
        /\ Cardinality(Above({x}, parents)) \in Nat /\ Cardinality(Above({y}, parents)) \in Nat
    BY <1>1, <2>1
  <2>6. /\ Cardinality(Above({y}, parents)) <= Cardinality(Above({x}, parents))
        /\ Cardinality(Above({x}, parents)) = Cardinality(Above({y}, parents)) =>
             Above({x}, parents) = Above({y}, parents)
    BY <2>4, <2>5, FS_Subset
  <2> QED
    BY <2>4, <2>5, <2>6
<1> QED
  BY <1>1, <1>2

-----------------------------------------------------------------------------
(***************************************************************************)
(* The search up the permissions.  It ends where no permission is above    *)
(* itself, which registerPermission() does not ask.                        *)
(***************************************************************************)
NoPermissionAboveItself ==
  \A p \in Permission : p \notin Above(permissionParents[p], permissionParents)

Says(states, p) == {states[q] : q \in PermissionsAbove(p)}
VerdictOf(S) == IF -1 \in S THEN -1 ELSE IF 1 \in S THEN 1 ELSE 0
Verdicts == State \cup {Error}

\* None is no state, and an exception is none.
LEMMA Distinct ==
  /\ None \notin Permission /\ None \notin Group
  /\ Error \notin State /\ None \notin State
<1>1. \A x \in State : x \in -1..1
  BY DEF State
<1>2. None \notin -1..1 /\ Error \notin -1..1
  BY PermissionAssumption
<1> QED
  BY <1>1, <1>2, PermissionAssumption

LEMMA PermissionParentsType ==
  /\ permissionParents \in [Permission -> SUBSET Permission]
  /\ \A p \in Permission :
       permissionParents[p] = IF PermissionParent[p] = None THEN {} ELSE {PermissionParent[p]}
BY PermissionAssumption, Distinct DEF permissionParents, getPermissionParent

LEMMA AboveNothing ==
  ASSUME NEW U, NEW parents \in [U -> SUBSET U] PROVE Above({}, parents) = {}
<1>1. {} \in SUBSET U
  OBVIOUS
<1> QED
  BY <1>1, AboveIsLeast

LEMMA SaysAbove ==
  ASSUME NEW states \in States, NEW p \in Permission
  PROVE  Says(states, p) = {states[p]} \cup
                           IF PermissionParent[p] = None THEN {} ELSE Says(states, PermissionParent[p])
<1>1. PermissionsAbove(p) = {p} \cup Above(permissionParents[p], permissionParents)
  BY AboveOne, PermissionParentsType DEF PermissionsAbove
<1>2. CASE PermissionParent[p] = None
  <2>1. PermissionsAbove(p) = {p}
    BY <1>1, <1>2, AboveNothing, PermissionParentsType
  <2> QED
    BY <1>2, <2>1 DEF Says
<1>3. CASE PermissionParent[p] # None
  <2>1. PermissionsAbove(p) = {p} \cup PermissionsAbove(PermissionParent[p])
    BY <1>1, <1>3, PermissionParentsType DEF PermissionsAbove
  <2> HIDE DEF PermissionsAbove
  <2> QED
    BY <1>3, <2>1 DEF Says
<1> QED
  BY <1>2, <1>3

LEMMA VerdictAbove ==
  ASSUME NEW a \in State \cup {None}, NEW B
  PROVE  /\ VerdictOf({a} \cup B) = Then(Said(a), VerdictOf(B))
         /\ VerdictOf({a}) = Then(Said(a), 0)
<1>1. CASE a \in State
  <2>1. Said(a) = a
    BY <1>1, Distinct DEF Said
  <2>2. VerdictOf({a}) = a
    BY <1>1 DEF VerdictOf, State
  <2>3. VerdictOf(B) \in State /\ -1 # Error
    BY Distinct DEF VerdictOf, State
  <2>4. VerdictOf({a} \cup B) = IF a = -1 \/ VerdictOf(B) = 0 THEN a ELSE VerdictOf(B)
    BY <1>1 DEF VerdictOf, State
  <2> QED
    BY <1>1, <2>1, <2>2, <2>3, <2>4, Distinct DEF Then, State
<1>2. CASE a = None
  <2>1. Said(a) = 0 /\ 0 # Error
    BY <1>2, Distinct DEF Said, State
  <2>2. VerdictOf({a} \cup B) = VerdictOf(B) /\ VerdictOf({a}) = 0
    BY <1>2, Distinct DEF VerdictOf, State
  <2> QED
    BY <2>1, <2>2 DEF Then
<1> QED
  BY <1>1, <1>2

LEMMA UpThePermissionsIs ==
  ASSUME NoPermissionAboveItself, NEW states \in States, NEW p \in Permission
  PROVE  UpThePermissions(states, p) = VerdictOf(Says(states, p))
<1> DEFINE IsVerdict(f) ==
      f = [q \in Permission |->
             Then(Said(states[q]),
                  IF getPermissionParent(q) = None THEN 0 ELSE f[getPermissionParent(q)])]
<1> DEFINE closed == [q \in Permission |-> VerdictOf(Says(states, q))]
<1> DEFINE verdict == CHOOSE f : IsVerdict(f)
<1>1. \A q \in Permission : states[q] \in State \cup {None}
  BY DEF States
<1>2. ASSUME NEW q \in Permission
      PROVE  VerdictOf(Says(states, q)) =
               Then(Said(states[q]), IF PermissionParent[q] = None THEN 0
                                     ELSE VerdictOf(Says(states, PermissionParent[q])))
  <2>1. CASE PermissionParent[q] = None
    BY <1>1, <2>1, SaysAbove, VerdictAbove
  <2>2. CASE PermissionParent[q] # None
    BY <1>1, <2>2, SaysAbove, VerdictAbove
  <2> QED
    BY <2>1, <2>2
<1>3. \A q \in Permission : PermissionParent[q] \in Permission \cup {None}
  BY PermissionAssumption
<1>4. IsVerdict(closed)
  <2>1. \A q \in Permission :
          closed[q] = Then(Said(states[q]), IF getPermissionParent(q) = None THEN 0
                                            ELSE closed[getPermissionParent(q)])
    BY <1>2, <1>3 DEF getPermissionParent
  <2>2. closed = [q \in Permission |-> closed[q]]
    OBVIOUS
  <2> HIDE DEF closed
  <2> QED
    BY <2>1, <2>2
<1>5. IsVerdict(verdict)
  <2> HIDE DEF IsVerdict, closed
  <2> QED
    BY <1>4
<1>6. \A q \in Permission :
        verdict[q] = Then(Said(states[q]), IF PermissionParent[q] = None THEN 0
                                           ELSE verdict[PermissionParent[q]])
  <2> HIDE DEF verdict
  <2> QED
    BY <1>5 DEF getPermissionParent
<1> HIDE DEF verdict
<1> DEFINE rank(q) == Cardinality(PermissionsAbove(q))
<1> DEFINE Bad == {q \in Permission : verdict[q] # VerdictOf(Says(states, q))}
<1>7. ASSUME NEW q \in Permission
      PROVE  /\ rank(q) \in Nat
             /\ PermissionParent[q] # None => rank(PermissionParent[q]) < rank(q)
  BY SortsAssumption, PermissionParentsType, AboveLess DEF NoPermissionAboveItself, PermissionsAbove
<1> HIDE DEF rank
<1>8. Bad = {}
  <2>1. SUFFICES ASSUME Bad # {} PROVE FALSE
    OBVIOUS
  <2> DEFINE ranks == {rank(q) : q \in Bad}
  <2>2. ranks \in SUBSET Nat /\ ranks # {}
    BY <1>7, <2>1
  <2>3. PICK q \in Bad : \A r \in Bad : rank(q) <= rank(r)
    <3>1. PICK m \in ranks : \A n \in ranks : m <= n
      <4> HIDE DEF ranks
      <4> QED
        BY <2>2, LeastNatural
    <3> QED
      BY <3>1
  <2>4. CASE PermissionParent[q] = None
    BY <1>2, <1>6, <2>3, <2>4
  <2>5. CASE PermissionParent[q] # None
    <3>1. /\ PermissionParent[q] \in Permission
          /\ rank(q) \in Nat /\ rank(PermissionParent[q]) \in Nat
          /\ rank(PermissionParent[q]) < rank(q)
      BY <1>3, <1>7, <2>3, <2>5
    <3>2. PermissionParent[q] \notin Bad
      BY <2>3, <3>1
    <3> QED
      BY <1>2, <1>6, <2>3, <2>5, <3>1, <3>2
  <2> QED
    BY <2>4, <2>5
<1>9. UpThePermissions(states, p) = verdict[p]
  BY DEF UpThePermissions, verdict
<1> QED
  BY <1>8, <1>9

LEMMA VerdictType == ASSUME NEW S PROVE VerdictOf(S) \in State
BY DEF VerdictOf, State

-----------------------------------------------------------------------------
(***************************************************************************)
(* The search up the groups.  A group is sound if the search up from it    *)
(* ends, finds all groups in the cache, and no denial.                     *)
(***************************************************************************)
Denies(g, p) == -1 \in Says(usergroupCache[g].permissions, p)
Grants(g, p) == 1 \in Says(usergroupCache[g].permissions, p)

Sound(g, p) ==
  \A x \in GroupsAbove({g}) :
    Cached(x) /\ x \notin GroupsAbove(groupParents[x]) /\ ~Denies(x, p)
SomeGrants(g, p) == \E x \in GroupsAbove({g}) : Grants(x, p)

LEMMA GroupParentsType ==
  ASSUME GroupsTyped
  PROVE  /\ groupParents \in [Group -> SUBSET Group]
         /\ \A g \in Group :
              /\ Cached(g) => /\ usergroupCache[g].parent \in Group \cup {None}
                              /\ usergroupCache[g].permissions \in States
              /\ groupParents[g] = IF ~Cached(g) \/ usergroupCache[g].parent = None THEN {}
                                   ELSE {usergroupCache[g].parent}
BY Distinct DEF GroupsTyped, groupParents, getUsergroupParent, Cached

LEMMA OwnVerdict ==
  ASSUME NoPermissionAboveItself, GroupsTyped, NEW g \in Group, NEW p \in Permission
  PROVE  /\ ~Cached(g) => checkUsergroupParentPermission(g, p) = Error
         /\ Cached(g) => checkUsergroupParentPermission(g, p) =
                           VerdictOf(Says(usergroupCache[g].permissions, p))
BY GroupParentsType, UpThePermissionsIs DEF checkUsergroupParentPermission, Cached

\* A group is sound if itself is and its parent is: the parent's being sound keeps the group
\* from being above itself.
LEMMA SoundUp ==
  ASSUME GroupsTyped, NEW g \in Group, NEW p \in Permission, Cached(g)
  PROVE  LET h == usergroupCache[g].parent
         IN  /\ Sound(g, p) <=> ~Denies(g, p) /\ (h = None \/ Sound(h, p))
             /\ SomeGrants(g, p) <=> Grants(g, p) \/ (h # None /\ SomeGrants(h, p))
             /\ Sound(g, p) /\ h # None =>
                  Cardinality(GroupsAbove({h})) < Cardinality(GroupsAbove({g}))
<1> DEFINE h == usergroupCache[g].parent
<1>1. GroupsAbove({g}) = {g} \cup GroupsAbove(groupParents[g])
  BY GroupParentsType, AboveOne DEF GroupsAbove
<1>2. groupParents[g] = IF h = None THEN {} ELSE {h}
  BY GroupParentsType
<1>3. CASE h = None
  <2>1. GroupsAbove(groupParents[g]) = {}
    BY <1>2, <1>3, GroupParentsType, AboveNothing DEF GroupsAbove
  <2> QED
    BY <1>1, <1>3, <2>1 DEF Sound, SomeGrants
<1>4. CASE h # None
  <2>1. GroupsAbove(groupParents[g]) = GroupsAbove({h})
    BY <1>2, <1>4
  <2>2. ASSUME Sound(h, p) PROVE g \notin GroupsAbove(groupParents[g])
    BY <2>1, <2>2 DEF Sound
  <2>3. Sound(g, p) <=> ~Denies(g, p) /\ Sound(h, p)
    BY <1>1, <2>1, <2>2 DEF Sound
  <2>4. SomeGrants(g, p) <=> Grants(g, p) \/ SomeGrants(h, p)
    BY <1>1, <2>1 DEF SomeGrants
  <2>5. Sound(g, p) => Cardinality(GroupsAbove({h})) < Cardinality(GroupsAbove({g}))
    <3>1. Sound(g, p) => g \notin GroupsAbove(groupParents[g])
      BY <1>1 DEF Sound
    <3> QED
      BY <1>2, <1>4, <3>1, SortsAssumption, GroupParentsType, AboveLess DEF GroupsAbove
  <2> QED
    BY <1>4, <2>3, <2>4, <2>5
<1> QED
  BY <1>3, <1>4
-----------------------------------------------------------------------------
FollowsSteps(f, N, S, base, step) ==
  /\ f \in [0..N -> S] /\ f[0] = base
  /\ \A n \in 1..N : f[n] = step[n][f[n - 1]]

\* A recursion over the numbers up to N has a function, or there would be a first number up to
\* which it has none.
LEMMA StepsExist ==
  ASSUME NEW N \in Nat, NEW S, NEW base \in S, NEW step \in [1..N -> [S -> S]]
  PROVE  \E f : FollowsSteps(f, N, S, base, step)
<1> DEFINE Steps(f, m) == f[0] = base /\ \A n \in 1..m : f[n] = step[n][f[n - 1]]
<1> DEFINE Bad == {m \in 0..N : ~\E f \in [0..N -> S] : Steps(f, m)}
<1>1. Bad = {}
  <2>1. SUFFICES ASSUME Bad # {} PROVE FALSE
    OBVIOUS
  <2>2. Bad \in SUBSET Nat
    OBVIOUS
  <2>3. PICK m \in Bad : \A n \in Bad : m <= n
    <3> HIDE DEF Bad
    <3> QED
      BY <2>1, <2>2, LeastNatural
  <2>4. m # 0
    <3>1. [n \in 0..N |-> base] \in [0..N -> S] /\ Steps([n \in 0..N |-> base], 0)
      OBVIOUS
    <3>2. 0 \notin Bad
      BY <3>1
    <3> QED
      BY <2>3, <3>2
  <2>5. /\ m \in 1..N /\ m - 1 \in 0..N /\ m - 1 \notin Bad
    <3>1. m \in 0..N
      BY <2>3
    <3>2. m \in 1..N /\ m - 1 \in 0..N /\ ~(m <= m - 1)
      BY <2>4, <3>1
    <3> HIDE DEF Bad
    <3> QED
      BY <2>3, <3>2
  <2>6. PICK f \in [0..N -> S] : Steps(f, m - 1)
    BY <2>5
  <2> DEFINE g == [f EXCEPT ![m] = step[m][f[m - 1]]]
  <2>7. /\ g \in [0..N -> S] /\ g[m] = step[m][f[m - 1]]
        /\ \A n \in 0..m - 1 : g[n] = f[n]
    <3>1. f[m - 1] \in S /\ step[m][f[m - 1]] \in S
      BY <2>5
    <3> QED
      BY <2>5, <3>1
  <2> HIDE DEF g
  <2>8. Steps(g, m)
    <3>1. g[0] = base
      BY <2>5, <2>6, <2>7
    <3>2. ASSUME NEW n \in 1..m PROVE g[n] = step[n][g[n - 1]]
      <4>1. CASE n = m
        BY <2>5, <2>7, <4>1
      <4>2. CASE n # m
        <5>1. n \in 1..m - 1 /\ n \in 0..m - 1 /\ n - 1 \in 0..m - 1
          BY <2>5, <4>2
        <5> QED
          BY <2>6, <2>7, <5>1
      <4> QED
        BY <4>1, <4>2
    <3> QED
      BY <3>1, <3>2
  <2> QED
    BY <2>3, <2>7, <2>8
<1>2. N \notin Bad /\ N \in 0..N
  <2> HIDE DEF Bad
  <2> QED
    BY <1>1
<1> QED
  BY <1>2 DEF FollowsSteps

\* One step of the search up the groups.
GroupStep(g, p, n, above) ==
  Then(checkUsergroupParentPermission(g, p),
       IF checkUsergroupParentPermission(g, p) = Error \/ usergroupCache[g].parent = None THEN 0
       ELSE IF n = 0 THEN Error ELSE above[usergroupCache[g].parent])

GroupVerdict(f, p) ==
  \A n \in 0..Cardinality(Group), g \in Group : f[n][g] = GroupStep(g, p, n, f[n - 1])

LEMMA OwnType ==
  ASSUME NoPermissionAboveItself, GroupsTyped, NEW g \in Group, NEW p \in Permission
  PROVE  /\ checkUsergroupParentPermission(g, p) \in Verdicts
         /\ Cached(g) => checkUsergroupParentPermission(g, p) \in State
         /\ checkUsergroupParentPermission(g, p) = Error <=> ~Cached(g)
         /\ Cached(g) => /\ checkUsergroupParentPermission(g, p) = -1 <=> Denies(g, p)
                         /\ ~Denies(g, p) => (checkUsergroupParentPermission(g, p) = 1
                                                 <=> Grants(g, p))
<1> DEFINE S == Says(usergroupCache[g].permissions, p)
<1>1. VerdictOf(S) \in State /\ VerdictOf(S) # Error
  BY VerdictType, Distinct
<1>2. VerdictOf(S) = -1 <=> -1 \in S
  BY DEF VerdictOf
<1>3. -1 \notin S => (VerdictOf(S) = 1 <=> 1 \in S)
  BY DEF VerdictOf
<1> QED
  BY <1>1, <1>2, <1>3, OwnVerdict DEF Verdicts, Denies, Grants

LEMMA GroupStepType ==
  ASSUME NoPermissionAboveItself, GroupsTyped, NEW g \in Group, NEW p \in Permission,
         NEW n \in Nat, NEW above, n # 0 => above \in [Group -> Verdicts]
  PROVE  GroupStep(g, p, n, above) \in Verdicts
<1>1. 0 \in Verdicts /\ Error \in Verdicts /\ checkUsergroupParentPermission(g, p) \in Verdicts
  BY OwnType DEF Verdicts, State
<1>2. checkUsergroupParentPermission(g, p) # Error => usergroupCache[g].parent \in Group \cup {None}
  BY GroupParentsType, OwnType
<1> QED
  BY <1>1, <1>2 DEF GroupStep, Then

LEMMA UpTheGroupsIs ==
  ASSUME NoPermissionAboveItself, GroupsTyped, NEW p \in Permission
  PROVE  \E f : /\ GroupVerdict(f, p)
               /\ \A g \in Group : UpTheGroups(g, p) = f[Cardinality(Group)][g]
<1> DEFINE N == Cardinality(Group)
<1> DEFINE IsVerdict(f) ==
      f = [n \in 0..N |->
             [g \in Group |->
               LET own == checkUsergroupParentPermission(g, p)
               IN  Then(own, IF own = Error \/ getUsergroupParent(g) = None THEN 0
                             ELSE IF n = 0 THEN Error
                             ELSE f[n - 1][getUsergroupParent(g)])]]
<1> DEFINE verdict == CHOOSE f : IsVerdict(f)
<1> DEFINE S == [Group -> Verdicts]
<1> DEFINE base == [g \in Group |-> GroupStep(g, p, 0, 0)]
<1> DEFINE step == [n \in 1..N |-> [above \in S |-> [g \in Group |-> GroupStep(g, p, n, above)]]]
<1>1. N \in Nat
  BY SortsAssumption, FS_CardinalityType
<1>2. base \in S
  BY GroupStepType
<1>3. step \in [1..N -> [S -> S]]
  <2>1. ASSUME NEW n \in 1..N, NEW above \in S
        PROVE  [g \in Group |-> GroupStep(g, p, n, above)] \in S
    <3>1. n \in Nat
      BY <1>1
    <3> QED
      BY <3>1, GroupStepType
  <2> QED
    BY <2>1
<1>4. PICK f : /\ f \in [0..N -> S] /\ f[0] = base
               /\ \A n \in 1..N : f[n] = step[n][f[n - 1]]
  <2> HIDE DEF N, S, base, step
  <2>1. \E f : FollowsSteps(f, N, S, base, step)
    BY <1>1, <1>2, <1>3, StepsExist
  <2> QED
    BY <2>1 DEF FollowsSteps
<1>5. ASSUME NEW n \in 0..N, NEW g \in Group
      PROVE  f[n][g] = GroupStep(g, p, n, f[n - 1])
  <2>1. CASE n = 0
    <3>1. f[n][g] = GroupStep(g, p, 0, 0)
      BY <1>4, <2>1
    <3> QED
      BY <2>1, <3>1 DEF GroupStep
  <2>2. CASE n # 0
    <3>1. n \in 1..N /\ n - 1 \in 0..N
      BY <1>1, <2>2
    <3>2. f[n - 1] \in S
      BY <1>4, <3>1
    <3>3. f[n] = step[n][f[n - 1]]
      BY <1>4, <3>1
    <3>4. step[n][f[n - 1]] = [h \in Group |-> GroupStep(h, p, n, f[n - 1])]
      BY <3>1, <3>2
    <3> QED
      BY <3>3, <3>4
  <2> QED
    BY <2>1, <2>2
<1>6. IsVerdict(f)
  <2>1. \A n \in 0..N : f[n] = [g \in Group |-> f[n][g]]
    BY <1>4
  <2>2. \A n \in 0..N : f[n] = [g \in Group |-> GroupStep(g, p, n, f[n - 1])]
    BY <1>5, <2>1
  <2>3. f = [n \in 0..N |-> f[n]]
    BY <1>4
  <2>4. f = [n \in 0..N |-> [g \in Group |-> GroupStep(g, p, n, f[n - 1])]]
    BY <2>2, <2>3
  <2> QED
    BY <2>4 DEF GroupStep, getUsergroupParent
<1>7. IsVerdict(verdict)
  <2> HIDE DEF IsVerdict
  <2> QED
    BY <1>6
<1> HIDE DEF verdict
<1>8. verdict = [n \in 0..N |-> [g \in Group |-> GroupStep(g, p, n, verdict[n - 1])]]
  BY <1>7 DEF GroupStep, getUsergroupParent
<1>9. ASSUME NEW n \in 0..N, NEW g \in Group
      PROVE  verdict[n][g] = GroupStep(g, p, n, verdict[n - 1])
  <2> HIDE DEF N
  <2>1. verdict[n] = [h \in Group |-> GroupStep(h, p, n, verdict[n - 1])]
    BY <1>8
  <2> QED
    BY <2>1
<1>10. \A g \in Group : UpTheGroups(g, p) = verdict[N][g]
  BY DEF UpTheGroups, verdict
<1> QED
  BY <1>9, <1>10 DEF GroupVerdict

\* A group that is not sound ends the search in a denial or an exception.
LEMMA UnsoundGroup ==
  ASSUME NoPermissionAboveItself, GroupsTyped, NEW p \in Permission, NEW f, GroupVerdict(f, p),
         NEW m \in 0..Cardinality(Group), NEW k \in Group, ~Sound(k, p)
  PROVE  f[m][k] \in {-1, Error}
<1> DEFINE Bad == {n \in 0..Cardinality(Group) :
                    \E g \in Group : ~Sound(g, p) /\ f[n][g] \notin {-1, Error}}
<1>1. SUFFICES ASSUME Bad # {} PROVE FALSE
  OBVIOUS
<1>2. Bad \in SUBSET Nat
  OBVIOUS
<1>3. PICK n \in Bad : \A i \in Bad : n <= i
  <2> HIDE DEF Bad
  <2> QED
    BY <1>1, <1>2, LeastNatural
<1>4. PICK g \in Group : ~Sound(g, p) /\ f[n][g] \notin {-1, Error}
  BY <1>3
<1> DEFINE own == checkUsergroupParentPermission(g, p)
<1> DEFINE h == usergroupCache[g].parent
<1>5. f[n][g] = GroupStep(g, p, n, f[n - 1]) /\ n \in 0..Cardinality(Group)
  BY <1>3, <1>4 DEF GroupVerdict
<1>6. own \notin {-1, Error}
  BY <1>4, <1>5 DEF GroupStep, Then
<1>7. Cached(g) /\ ~Denies(g, p) /\ h \in Group \cup {None}
  BY <1>6, OwnType, GroupParentsType
<1>8. h # None /\ h \in Group /\ ~Sound(h, p)
  BY <1>4, <1>7, SoundUp
<1>9. n # 0
  <2>1. SUFFICES ASSUME n = 0 PROVE FALSE
    OBVIOUS
  <2>2. f[n][g] = Then(own, Error)
    BY <1>5, <1>6, <1>8, <2>1 DEF GroupStep
  <2>3. 0 # Error
    BY Distinct DEF State
  <2> QED
    BY <1>4, <1>6, <2>2, <2>3 DEF Then
<1>10. n - 1 \in 0..Cardinality(Group) /\ n - 1 \notin Bad
  <2>1. n - 1 \in 0..Cardinality(Group) /\ ~(n <= n - 1)
    BY <1>5, <1>9, SortsAssumption, FS_CardinalityType
  <2> HIDE DEF Bad
  <2> QED
    BY <1>3, <2>1
<1>11. f[n - 1][h] \in {-1, Error}
  BY <1>8, <1>10
<1>12. f[n][g] = Then(own, f[n - 1][h])
  BY <1>5, <1>6, <1>8, <1>9 DEF GroupStep
<1>13. 0 # Error
  BY Distinct DEF State
<1> QED
  BY <1>4, <1>6, <1>11, <1>12, <1>13 DEF Then

\* A sound group ends it in what the groups above say, for which there are enough steps.
LEMMA SoundGroup ==
  ASSUME NoPermissionAboveItself, GroupsTyped, NEW p \in Permission, NEW f, GroupVerdict(f, p),
         NEW k \in Group, Sound(k, p)
  PROVE  f[Cardinality(Group)][k] = IF SomeGrants(k, p) THEN 1 ELSE 0
<1> DEFINE N == Cardinality(Group)
<1> DEFINE size(g) == Cardinality(GroupsAbove({g}))
<1> DEFINE Bad == {n \in 0..N : \E g \in Group : /\ Sound(g, p) /\ size(g) <= n + 1
                                             /\ f[n][g] # IF SomeGrants(g, p) THEN 1 ELSE 0}
<1>0. \A g \in Group : size(g) \in Nat /\ size(g) <= N
  BY SortsAssumption, GroupParentsType, AboveLess DEF GroupsAbove
<1>n. N \in Nat
  BY SortsAssumption, FS_CardinalityType
<1> HIDE DEF size, N
<1>1. SUFFICES ASSUME Bad # {} PROVE FALSE
  <2>1. size(k) <= N + 1 /\ N \in 0..N
    BY <1>0, <1>n
  <2>2. Bad = {} => f[N][k] = IF SomeGrants(k, p) THEN 1 ELSE 0
    BY <2>1
  <2> QED
    BY <2>2 DEF N
<1>2. Bad \in SUBSET Nat
  BY <1>n
<1>3. PICK n \in Bad : \A i \in Bad : n <= i
  <2> HIDE DEF Bad
  <2> QED
    BY <1>1, <1>2, LeastNatural
<1>4. PICK g \in Group : /\ Sound(g, p) /\ size(g) <= n + 1
                         /\ f[n][g] # IF SomeGrants(g, p) THEN 1 ELSE 0
  BY <1>3
<1> DEFINE own == checkUsergroupParentPermission(g, p)
<1> DEFINE h == usergroupCache[g].parent
<1>5. f[n][g] = GroupStep(g, p, n, f[n - 1]) /\ n \in 0..N
  BY <1>3, <1>4 DEF GroupVerdict, N
<1>6. Cached(g)
  <2>1. g \in GroupsAbove({g})
    BY GroupParentsType, AboveIsLeast DEF GroupsAbove
  <2> QED
    BY <1>4, <2>1 DEF Sound
<1>7. /\ ~Denies(g, p) /\ h \in Group \cup {None}
      /\ own \in {0, 1} /\ own # Error /\ (own = 1 <=> Grants(g, p))
  <2>1. ~Denies(g, p) /\ h \in Group \cup {None}
    BY <1>4, <1>6, SoundUp, GroupParentsType
  <2>2. own \in State /\ own # Error /\ own # -1 /\ (own = 1 <=> Grants(g, p))
    BY <1>6, <2>1, OwnType
  <2> QED
    BY <2>1, <2>2 DEF State
<1>8. CASE h = None
  <2>1. f[n][g] = own
    BY <1>5, <1>8 DEF GroupStep, Then
  <2>2. SomeGrants(g, p) <=> Grants(g, p)
    BY <1>6, <1>8, SoundUp
  <2> QED
    BY <1>4, <1>7, <2>1, <2>2
<1>9. CASE h # None
  <2>1. h \in Group /\ Sound(h, p) /\ size(h) < size(g)
    BY <1>4, <1>6, <1>7, <1>9, SoundUp DEF size
  <2>2. size(h) # 0
    <3>1. h \in GroupsAbove({h})
      BY <2>1, GroupParentsType, AboveIsLeast DEF GroupsAbove
    <3>2. IsFiniteSet(GroupsAbove({h}))
      <4>1. GroupsAbove({h}) \in SUBSET Group
        BY <2>1, GroupParentsType, AboveIsLeast DEF GroupsAbove
      <4> QED
        BY <4>1, SortsAssumption, FS_Subset
    <3> QED
      BY <3>1, <3>2, FS_EmptySet DEF size
  <2>3. n # 0 /\ n - 1 \in 0..N /\ n - 1 \notin Bad /\ size(h) <= (n - 1) + 1
    BY <1>0, <1>3, <1>4, <1>5, <1>n, <2>1, <2>2
  <2>4. f[n - 1][h] = IF SomeGrants(h, p) THEN 1 ELSE 0
    BY <2>1, <2>3
  <2>5. f[n][g] = Then(own, f[n - 1][h])
    BY <1>5, <1>7, <1>9, <2>3 DEF GroupStep
  <2>6. SomeGrants(g, p) <=> Grants(g, p) \/ SomeGrants(h, p)
    BY <1>6, <1>9, SoundUp
  <2> QED
    BY <1>4, <1>7, <2>4, <2>5, <2>6 DEF Then
<1> QED
  BY <1>8, <1>9
-----------------------------------------------------------------------------
(***************************************************************************)
(* The search through the groups of a session, and the decision.           *)
(***************************************************************************)
\* The groups of a session grant just when all of them are sound and one has a grant above it.
LEMMA GroupsDecide ==
  ASSUME NoPermissionAboveItself, GroupsTyped, NEW p \in Permission, NEW s \in Session,
         sessionList[s] \in SessionData
  PROVE  checkUsergroupPermission(s, p) = 1 <=>
           /\ \A g \in ToSet(sessionList[s].usergroups) : Sound(g, p)
           /\ \E g \in ToSet(sessionList[s].usergroups) : SomeGrants(g, p)
<1> DEFINE q == sessionList[s].usergroups
<1> DEFINE N == Len(q)
<1> DEFINE up == [i \in 1..N |-> UpTheGroups(q[i], p)]
<1>1. N \in Nat /\ \A i \in 1..N : q[i] \in Group
  <2>1. q \in Seq(Group)
    BY DEF SessionData
  <2> HIDE DEF q
  <2> QED
    BY <2>1, LenProperties, ElementOfSeq
<1>2. ASSUME NEW i \in 1..N
      PROVE  up[i] \in Verdicts /\ IF Sound(q[i], p) THEN up[i] = IF SomeGrants(q[i], p) THEN 1 ELSE 0
                                                    ELSE up[i] \in {-1, Error}
  <2>1. q[i] \in Group /\ up[i] = UpTheGroups(q[i], p)
    BY <1>1
  <2>2. PICK f : /\ GroupVerdict(f, p)
                 /\ \A g \in Group : UpTheGroups(g, p) = f[Cardinality(Group)][g]
    BY UpTheGroupsIs
  <2>3. up[i] = f[Cardinality(Group)][q[i]]
    BY <2>1, <2>2
  <2>4. Cardinality(Group) \in 0..Cardinality(Group)
    BY SortsAssumption, FS_CardinalityType
  <2> HIDE DEF up, q
  <2>5. CASE Sound(q[i], p)
    <3>1. up[i] = IF SomeGrants(q[i], p) THEN 1 ELSE 0
      BY <2>1, <2>2, <2>3, <2>5, SoundGroup
    <3> QED
      BY <2>5, <3>1 DEF Verdicts, State
  <2>6. CASE ~Sound(q[i], p)
    <3>1. up[i] \in {-1, Error}
      BY <2>1, <2>2, <2>3, <2>4, <2>6, UnsoundGroup
    <3> QED
      BY <2>6, <3>1 DEF Verdicts, State
  <2> QED
    BY <2>5, <2>6
<1> DEFINE IsFound(f) == f = [n \in 0..N |-> IF n = 0 THEN 0 ELSE Then(f[n - 1], UpTheGroups(q[n], p))]
<1> DEFINE found == CHOOSE f : IsFound(f)
<1> DEFINE step == [n \in 1..N |-> [v \in Verdicts |-> Then(v, up[n])]]
<1>3. \E f : IsFound(f)
  <2>1. 0 \in Verdicts
    BY DEF Verdicts, State
  <2>2. step \in [1..N -> [Verdicts -> Verdicts]]
    <3> HIDE DEF up
    <3> QED
      BY <1>2 DEF Then
  <2>3. PICK f : /\ f \in [0..N -> Verdicts] /\ f[0] = 0
                 /\ \A n \in 1..N : f[n] = step[n][f[n - 1]]
    <3> HIDE DEF step, N
    <3>1. \E f : FollowsSteps(f, N, Verdicts, 0, step)
      BY <1>1, <2>1, <2>2, StepsExist
    <3> QED
      BY <3>1 DEF FollowsSteps
  <2>4. \A n \in 0..N : f[n] = IF n = 0 THEN 0 ELSE Then(f[n - 1], UpTheGroups(q[n], p))
    <3>1. ASSUME NEW n \in 1..N PROVE f[n] = Then(f[n - 1], UpTheGroups(q[n], p))
      <4>1. n - 1 \in 0..N
        BY <1>1
      <4> QED
        BY <2>3, <4>1
    <3>2. \A n \in 0..N : n # 0 => n \in 1..N
      BY <1>1
    <3> QED
      BY <2>3, <3>1, <3>2
  <2>5. f = [n \in 0..N |-> f[n]]
    BY <2>3
  <2>6. IsFound(f)
    BY <2>4, <2>5
  <2> QED
    BY <2>6
<1>4. IsFound(found)
  <2> HIDE DEF IsFound
  <2> QED
    BY <1>3
<1>5. checkUsergroupPermission(s, p) = found[N]
  BY DEF checkUsergroupPermission, found
<1>6. found[0] = 0 /\ \A n \in 1..N : found[n] = Then(found[n - 1], up[n])
  <2> HIDE DEF found
  <2>1. \A n \in 0..N : found[n] = IF n = 0 THEN 0 ELSE Then(found[n - 1], UpTheGroups(q[n], p))
    BY <1>4
  <2>2. 0 \in 0..N /\ \A n \in 1..N : n \in 0..N /\ n # 0
    BY <1>1
  <2> QED
    BY <2>1, <2>2
<1> HIDE DEF found, up
<1> DEFINE Right(n) ==
      IF \A i \in 1..n : Sound(q[i], p)
      THEN found[n] = IF \E i \in 1..n : SomeGrants(q[i], p) THEN 1 ELSE 0
      ELSE found[n] \in {-1, Error}
<1> DEFINE Bad == {n \in 0..N : ~Right(n)}
<1>7. Bad = {}
  <2>1. SUFFICES ASSUME Bad # {} PROVE FALSE
    OBVIOUS
  <2>2. Bad \in SUBSET Nat
    BY <1>1
  <2>3. PICK n \in Bad : \A i \in Bad : n <= i
    <3> HIDE DEF Bad
    <3> QED
      BY <2>1, <2>2, LeastNatural
  <2>4. n # 0
    BY <1>6, <2>3
  <2>5. n \in 1..N /\ n - 1 \in 0..N /\ n - 1 \notin Bad
    <3>1. n \in 0..N
      BY <2>3
    <3>2. n \in 1..N /\ n - 1 \in 0..N /\ ~(n <= n - 1)
      BY <1>1, <2>4, <3>1
    <3> HIDE DEF Bad
    <3> QED
      BY <2>3, <3>2
  <2>6. Right(n - 1)
    BY <2>5
  <2>7. \A i : i \in 1..n <=> i \in 1..n - 1 \/ i = n
    BY <1>1, <2>5
  <2>8. found[n] = Then(found[n - 1], up[n])
    BY <1>6, <2>5
  <2>9. 0 # Error /\ 1 # Error
    BY Distinct DEF State
  <2> HIDE DEF q, N
  <2>10. CASE \A i \in 1..n : Sound(q[i], p)
    <3>1. found[n - 1] = IF \E i \in 1..n - 1 : SomeGrants(q[i], p) THEN 1 ELSE 0
      BY <2>6, <2>7, <2>10
    <3>2. up[n] = IF SomeGrants(q[n], p) THEN 1 ELSE 0
      BY <1>2, <2>5, <2>7, <2>10
    <3>3. found[n] = IF \E i \in 1..n : SomeGrants(q[i], p) THEN 1 ELSE 0
      <4>1. (\E i \in 1..n : SomeGrants(q[i], p)) <=>
              (\E i \in 1..n - 1 : SomeGrants(q[i], p)) \/ SomeGrants(q[n], p)
        BY <2>7
      <4> QED
        BY <2>8, <2>9, <3>1, <3>2, <4>1 DEF Then
    <3>4. Right(n)
      BY <2>10, <3>3
    <3> QED
      BY <2>3, <3>4
  <2>11. CASE ~\A i \in 1..n : Sound(q[i], p)
    <3>1. found[n] \in {-1, Error}
      <4>1. CASE \A i \in 1..n - 1 : Sound(q[i], p)
        <5>1. found[n - 1] \in {0, 1}
          BY <2>6, <4>1
        <5>2. ~Sound(q[n], p)
          BY <2>7, <2>11, <4>1
        <5>3. up[n] \in {-1, Error}
          BY <1>2, <2>5, <5>2
        <5> QED
          BY <2>8, <2>9, <5>1, <5>3 DEF Then
      <4>2. CASE ~\A i \in 1..n - 1 : Sound(q[i], p)
        <5>1. found[n - 1] \in {-1, Error}
          BY <2>6, <4>2
        <5> QED
          BY <2>8, <5>1 DEF Then
      <4> QED
        BY <4>1, <4>2
    <3>2. Right(n)
      BY <2>11, <3>1
    <3> QED
      BY <2>3, <3>2
  <2> QED
    BY <2>10, <2>11
<1>8. Right(N)
  <2>1. N \in 0..N
    BY <1>1
  <2> HIDE DEF Right
  <2> QED
    BY <1>7, <2>1
<1>9. ToSet(q) = {q[i] : i \in 1..N}
  BY DEF ToSet
<1>10. 1 # Error
  BY Distinct DEF State
<1> QED
  BY <1>5, <1>8, <1>9, <1>10

\* What Granted asks of the groups, group by group.
LEMMA GroupsGrant ==
  ASSUME GroupsTyped, NEW p \in Permission, NEW S \in SUBSET Group
  PROVE  LET above == GroupsAbove(S)
             say == UNION {{usergroupCache[g].permissions[q] : q \in PermissionsAbove(p)} : g \in above}
         IN  /\ (\A g \in above : Cached(g) /\ g \notin GroupsAbove(groupParents[g])) /\ -1 \notin say
                  <=> \A g \in S : Sound(g, p)
             /\ 1 \in say <=> \E g \in S : SomeGrants(g, p)
<1>1. GroupsAbove(S) = UNION {GroupsAbove({g}) : g \in S}
  BY GroupParentsType, AboveAll DEF GroupsAbove
<1> DEFINE says(g) == {usergroupCache[g].permissions[q] : q \in PermissionsAbove(p)}
<1> DEFINE say == UNION {says(g) : g \in GroupsAbove(S)}
<1>2. \A g \in Group : /\ Denies(g, p) <=> -1 \in says(g)
                       /\ Grants(g, p) <=> 1 \in says(g)
  BY DEF Denies, Grants, Says
<1>3. GroupsAbove(S) \subseteq Group
  BY GroupParentsType, AboveIsLeast DEF GroupsAbove
<1> HIDE DEF says
<1>4. /\ -1 \in say <=> \E x \in GroupsAbove(S) : Denies(x, p)
      /\ 1 \in say <=> \E x \in GroupsAbove(S) : Grants(x, p)
  BY <1>2, <1>3
<1> HIDE DEF say
<1>5. \A P : P \in GroupsAbove(S) <=> \E g \in S : P \in GroupsAbove({g})
  BY <1>1
<1>6. (\A g \in GroupsAbove(S) : Cached(g) /\ g \notin GroupsAbove(groupParents[g])) /\ -1 \notin say
        <=> \A g \in S : Sound(g, p)
  BY <1>4, <1>5 DEF Sound
<1>7. 1 \in say <=> \E g \in S : SomeGrants(g, p)
  BY <1>4, <1>5 DEF SomeGrants
<1> QED
  BY <1>6, <1>7 DEF say, says

\* What the typing of the caches is enough for: the decision is the rule.
LEMMA DecisionsMeetRuleNow ==
  ASSUME NoPermissionAboveItself, GroupsTyped,
         \A s \in Session : sessionList[s] = Absent \/ sessionList[s] \in SessionData
  PROVE  DecisionsMeetRule
<1> SUFFICES ASSUME NEW s \in Session, NEW p \in Permission, sessionList[s] # Absent
             PROVE  checkPermission(s, p) = 1 <=> Granted(s, p)
  BY DEF DecisionsMeetRule
<1> DEFINE cache == sessionList[s].permissionsCache
<1> DEFINE S == ToSet(sessionList[s].usergroups)
<1>1. sessionList[s] \in SessionData
  OBVIOUS
<1>2. cache \in States /\ S \in SUBSET Group
  <2>1. sessionList[s].usergroups \in Seq(Group) /\ cache \in States
    BY <1>1 DEF SessionData
  <2> QED
    BY <2>1 DEF ToSet
<1>3. checkUserPermissionState(s, p) = VerdictOf(Says(cache, p))
  BY <1>2, UpThePermissionsIs DEF checkUserPermissionState
<1>4. checkUsergroupPermission(s, p) = 1 <=>
        (\A g \in S : Sound(g, p)) /\ (\E g \in S : SomeGrants(g, p))
  BY <1>1, GroupsDecide
<1> HIDE DEF S, cache
<1>5. Granted(s, p) <=>
        /\ -1 \notin Says(cache, p)
        /\ \/ 1 \in Says(cache, p)
           \/ (\A g \in S : Sound(g, p)) /\ (\E g \in S : SomeGrants(g, p))
  BY <1>2, GroupsGrant DEF Granted, Says, S, cache
<1>6. checkPermission(s, p) = IF VerdictOf(Says(cache, p)) # 0 THEN VerdictOf(Says(cache, p))
                              ELSE checkUsergroupPermission(s, p)
  BY <1>3 DEF checkPermission
<1> QED
  BY <1>4, <1>5, <1>6 DEF VerdictOf

\* checkPermission decides by the rule in every state, whatever the commands have left in the
\* caches and in whatever order the search meets permissions and groups, provided that no
\* permission is above itself: the search up from one that is would not end.
THEOREM DecisionsFollowRule ==
  ASSUME NoPermissionAboveItself
  PROVE  Spec => []DecisionsMeetRule
<1>1. Inv => DecisionsMeetRule
  BY DecisionsMeetRuleNow DEF Inv, Typed, SessionsTyped
<1> QED
  BY <1>1, SpecInv, PTL
=============================================================================
