----------------------------- MODULE UserRights -----------------------------
(* The user manager's sessions and rights: the tables that hold the states   *)
(* of the permissions of users and groups, the caches of them that every     *)
(* decision is made from (UMSessionManager, UMSession, usergroupInfo), and   *)
(* the commands that change both.  A command is handled by one of the        *)
(* receive threads of the service and waits for the database between its     *)
(* steps; nothing keeps two commands apart.                                  *)
EXTENDS Integers, Sequences, FiniteSets, SequencesExt

CONSTANTS User, Group, Permission,
          PermissionParent,    \* parent of a permission or None
          LoginPermission,     \* the one named userman.login
          Session,             \* ids of sessions, a bound
          Thread,              \* receive threads
          MaxCommands,         \* bound on the commands received
          TablesAtStart,       \* what the tables may hold when the service is enabled
          None,
          Absent,              \* a group or session that is not there
          Error                \* the exception that a decision may end with

ASSUME PermissionAssumption ==
    /\ PermissionParent \in [Permission -> Permission \cup {None}]
    /\ LoginPermission \in Permission
    /\ {None, Absent} \cap (User \cup Group \cup Permission \cup Session) = {}
    /\ None # Absent
    /\ {None, Error} \cap -1..1 = {}

ASSUME SortsAssumption ==
    /\ User \cap Group = {}
    /\ IsFiniteSet(Group) /\ IsFiniteSet(Permission)
    /\ MaxCommands \in Nat

State == {-1, 0, 1}            \* denied, nothing said, granted
States == [Permission -> State \cup {None}]
Nothing == [p \in Permission |-> None]

(* What the tables may hold; a group that is not registered is Absent.       *)
TablesOK(start) ==
    /\ start.userpermission \in [User -> States]
    /\ start.usergroup \in [User -> SUBSET Group]
    /\ start.groups \in [Group -> Group \cup {None, Absent}]
    /\ start.grouppermission \in [Group -> States]

ASSUME TablesAssumption == \A start \in TablesAtStart : TablesOK(start)

VARIABLES
    userpermission, usergroup,     \* tables, by user
    groups, grouppermission,       \* tables, by group: the parent, and states
    usergroupCache,                \* parent and permissions of each group
    sessionList,                   \* user, permissionsCache, usergroups of each session
    activeSessions,                \* session of each user
    work,                          \* what each thread still has to do
    commands,                      \* number of commands received
    disturbed                      \* history: commands about it were handled together

tables == <<userpermission, usergroup, groups, grouppermission>>
caches == <<usergroupCache, sessionList, activeSessions>>
vars == <<tables, caches, work, commands, disturbed>>

Idle == [op |-> "none"]
SessionData == [user : User, permissionsCache : States, usergroups : Seq(Group)]

ASSUME AbsentAssumption == Absent \notin SessionData

TypeOK ==
    /\ userpermission \in [User -> States]
    /\ usergroup \in [User -> SUBSET Group]
    /\ groups \in [Group -> Group \cup {None, Absent}]
    /\ grouppermission \in [Group -> States]
    /\ \A g \in Group : \/ usergroupCache[g] = Absent
                        \/ usergroupCache[g] \in [parent : Group \cup {None}, permissions : States]
    /\ \A s \in Session : sessionList[s] = Absent \/ sessionList[s] \in SessionData
    /\ activeSessions \in [User -> Session \cup {None}]
    /\ \A t \in Thread : work[t].op \in {"none", "cache", "permissions", "parent", "store",
                                         "groups", "insert", "check"}
    /\ commands \in 0..MaxCommands
    /\ disturbed \in [User \cup Group -> BOOLEAN]
-----------------------------------------------------------------------------
(* checkPermission(), from the caches only.                                  *)
getPermissionParent(p) == PermissionParent[p]

Said(state) == IF state = None THEN 0 ELSE state

(* A denial, or an exception, ends the search; a grant does not.             *)
Then(found, further) ==
    IF found \in {-1, Error} \/ further = 0 THEN found ELSE further

(* What a table of states says of a permission and those above it.           *)
\* mutant: the permission's own state decides when it says something
NearestPermission(states, permission) ==
    LET verdict[p \in Permission] ==
            IF Said(states[p]) # 0 \/ getPermissionParent(p) = None THEN Said(states[p])
            ELSE verdict[getPermissionParent(p)]
    IN  verdict[permission]

UpThePermissions(states, permission) ==
    LET verdict[p \in Permission] ==
            Then(Said(states[p]),
                 IF getPermissionParent(p) = None THEN 0 ELSE verdict[getPermissionParent(p)])
    IN  verdict[permission]

checkUserPermissionState(s, p) == UpThePermissions(sessionList[s].permissionsCache, p)

checkUsergroupParentPermission(g, p) ==
    IF usergroupCache[g] = Absent THEN Error
    ELSE UpThePermissions(usergroupCache[g].permissions, p)

getUsergroupParent(g) == usergroupCache[g].parent

(* A group that is above itself would keep the search going for ever: after  *)
(* more steps than there are groups it is given up here.                     *)
UpTheGroups(group, p) ==
    LET verdict[n \in 0..Cardinality(Group)] ==
            [g \in Group |->
                LET own == checkUsergroupParentPermission(g, p)
                IN  Then(own, IF own = Error \/ getUsergroupParent(g) = None THEN 0
                              ELSE IF n = 0 THEN Error
                              ELSE verdict[n - 1][getUsergroupParent(g)])]
    IN  verdict[Cardinality(Group)][group]

checkUsergroupPermission(s, p) ==
    LET usergroups == sessionList[s].usergroups
        found[n \in 0..Len(usergroups)] ==
            IF n = 0 THEN 0 ELSE Then(found[n - 1], UpTheGroups(usergroups[n], p))
    IN  found[Len(usergroups)]

checkPermission(s, p) ==
    IF sessionList[s] = Absent THEN Error
    ELSE IF checkUserPermissionState(s, p) # 0 THEN checkUserPermissionState(s, p)
    ELSE checkUsergroupPermission(s, p)
-----------------------------------------------------------------------------
(* A command about x comes in.  While another one about it is handled, what  *)
(* the caches say of x is no longer claimed to be what the tables say: for a *)
(* group until a command about it is handled alone, for a user until a login *)
(* is, with no session of the user left.                                     *)
about(t) == CASE work[t].op = "none" -> {}
              [] work[t].op \in {"permissions", "parent", "store"} -> {work[t].group}
              [] OTHER -> {work[t].user}

Receive(t, x, heals) ==
    /\ work[t] = Idle
    /\ commands < MaxCommands
    /\ commands' = commands + 1
    /\ disturbed' = [disturbed EXCEPT ![x] = \/ \E other \in Thread : x \in about(other)
                                             \/ ~heals /\ @]

Continue(t, next) ==
    /\ work' = [work EXCEPT ![t] = next]
    /\ UNCHANGED <<commands, disturbed>>

SessionsOf(u) == {s \in Session : sessionList[s] # Absent /\ sessionList[s].user = u}
getSessionIDbyUserID(u) == activeSessions[u]
-----------------------------------------------------------------------------
(* addUserPermission() and removeUserPermission(): the table, then the       *)
(* session that is the user's by then.                                       *)
addUserPermission(t, u, p, state) ==
    /\ Receive(t, u, FALSE)
    /\ userpermission' = [userpermission EXCEPT ![u][p] = state]
    /\ work' = [work EXCEPT ![t] = [op |-> "cache", user |-> u, permission |-> p, state |-> state]]
    /\ UNCHANGED <<usergroup, groups, grouppermission, caches>>

removeUserPermission(t, u, p) ==
    /\ userpermission[u][p] # None
    /\ addUserPermission(t, u, p, None)

\* mutant: only a permission that the session knows is changed
CacheKnownPermission(t) ==
    /\ work[t].op = "cache"
    /\ LET s == getSessionIDbyUserID(work[t].user)
       IN  sessionList' = IF s = None THEN sessionList
                          ELSE IF sessionList[s].permissionsCache[work[t].permission] = None
                          THEN sessionList
                          ELSE [sessionList EXCEPT ![s].permissionsCache[work[t].permission] =
                                                       work[t].state]
    /\ Continue(t, Idle)
    /\ UNCHANGED <<tables, usergroupCache, activeSessions>>

CacheUserPermission(t) ==
    /\ work[t].op = "cache"
    /\ LET s == getSessionIDbyUserID(work[t].user)
       IN  sessionList' = IF s = None THEN sessionList
                          ELSE [sessionList EXCEPT ![s].permissionsCache[work[t].permission] =
                                                       work[t].state]
    /\ Continue(t, Idle)
    /\ UNCHANGED <<tables, usergroupCache, activeSessions>>

(* addUserUsergroup() and removeUserUsergroup(): they look for what to cache *)
(* among the failures that the database returns.  It returns none (the first *)
(* of the two handlers of DBTableScripts.sql:203 is empty), so that nothing  *)
(* is cached.                                                                *)
addUserUsergroup(t, u, g) ==
    /\ Receive(t, u, FALSE)
    /\ groups[g] # Absent
    /\ usergroup' = [usergroup EXCEPT ![u] = @ \cup {g}]
    /\ UNCHANGED <<userpermission, groups, grouppermission, caches, work>>

removeUserUsergroup(t, u, g) ==
    /\ Receive(t, u, FALSE)
    /\ usergroup' = [usergroup EXCEPT ![u] = @ \ {g}]
    /\ UNCHANGED <<userpermission, groups, grouppermission, caches, work>>
-----------------------------------------------------------------------------
(* Commands about a group change a table, then refresh the cache.            *)
Refresh(t, g) == work' = [work EXCEPT ![t] = [op |-> "permissions", group |-> g]]

registerUsergroup(t, g, parent) ==
    /\ Receive(t, g, TRUE)
    /\ groups[g] = Absent
    /\ groups' = [groups EXCEPT ![g] = parent]
    /\ Refresh(t, g)
    /\ UNCHANGED <<userpermission, usergroup, grouppermission, caches>>

updateUsergroup(t, g, parent) ==
    /\ Receive(t, g, TRUE)
    /\ groups[g] # Absent
    /\ groups' = [groups EXCEPT ![g] = parent]
    /\ Refresh(t, g)
    /\ UNCHANGED <<userpermission, usergroup, grouppermission, caches>>

addUsergroupPermission(t, g, p, state) ==
    /\ Receive(t, g, TRUE)
    /\ groups[g] # Absent
    /\ grouppermission' = [grouppermission EXCEPT ![g][p] = state]
    /\ Refresh(t, g)
    /\ UNCHANGED <<userpermission, usergroup, groups, caches>>

(* updateUsergroupCache(): the constructor of usergroupInfo reads the states *)
(* and then the parent.                                                      *)
QueryPermissions(t) ==
    /\ work[t].op = "permissions"
    /\ Continue(t, [op |-> "parent", group |-> work[t].group,
                    permissions |-> grouppermission[work[t].group]])
    /\ UNCHANGED <<tables, caches>>

\* mutant: a parent that is NULL is read as 0
QueryParentAsNumber(t) ==
    /\ work[t].op = "parent"
    /\ LET parent == groups[work[t].group]
       IN  Continue(t, [op |-> "store", group |-> work[t].group,
                        permissions |-> work[t].permissions,
                        parent |-> IF parent = None THEN 0 ELSE parent])
    /\ UNCHANGED <<tables, caches>>

QueryParent(t) ==
    /\ work[t].op = "parent"
    /\ Continue(t, [op |-> "store", group |-> work[t].group, permissions |-> work[t].permissions,
                    parent |-> groups[work[t].group]])
    /\ UNCHANGED <<tables, caches>>

\* mutant: a group that is cached is not read again
insertUsergroupCache(t) ==
    /\ work[t].op = "store"
    /\ usergroupCache' = IF usergroupCache[work[t].group] # Absent THEN usergroupCache
                         ELSE [usergroupCache EXCEPT ![work[t].group] =
                                   [parent |-> work[t].parent,
                                    permissions |-> work[t].permissions]]
    /\ Continue(t, Idle)
    /\ UNCHANGED <<tables, sessionList, activeSessions>>

updateUsergroupCache(t) ==
    /\ work[t].op = "store"
    /\ usergroupCache' = [usergroupCache EXCEPT ![work[t].group] =
                              [parent |-> work[t].parent, permissions |-> work[t].permissions]]
    /\ Continue(t, Idle)
    /\ UNCHANGED <<tables, sessionList, activeSessions>>
-----------------------------------------------------------------------------
(* login() of a user the database knows, by password or by token: newSession *)
(* looks for a session of the user, and only then reads what a new one needs.*)
ReuseSession(t, u) ==
    /\ Receive(t, u, FALSE)
    /\ activeSessions[u] # None
    /\ work' = [work EXCEPT ![t] = [op |-> "check", user |-> u, session |-> activeSessions[u]]]
    /\ UNCHANGED <<tables, caches>>

newSession(t, u) ==
    /\ Receive(t, u, SessionsOf(u) = {})
    /\ activeSessions[u] = None
    /\ work' = [work EXCEPT ![t] = [op |-> "groups", user |-> u,
                                    permissionsCache |-> userpermission[u]]]
    /\ UNCHANGED <<tables, caches>>

QueryUsergroups(t) ==
    /\ work[t].op = "groups"
    /\ \E order \in SetToSeqs(usergroup[work[t].user]) :
           Continue(t, [op |-> "insert", user |-> work[t].user,
                        permissionsCache |-> work[t].permissionsCache, usergroups |-> order])
    /\ UNCHANGED <<tables, caches>>

InsertSession(t) ==
    /\ work[t].op = "insert"
    /\ \E s \in Session :
           /\ sessionList[s] = Absent
           /\ \A other \in Thread : work[other].op = "check" => work[other].session # s
           /\ sessionList' = [sessionList EXCEPT ![s] =
                                  [user |-> work[t].user, usergroups |-> work[t].usergroups,
                                   permissionsCache |-> work[t].permissionsCache]]
           /\ activeSessions' = [activeSessions EXCEPT ![work[t].user] = s]
           /\ Continue(t, [op |-> "check", user |-> work[t].user, session |-> s])
    /\ UNCHANGED <<tables, usergroupCache>>

\* mutant: the session stays the user's
removeSessionOnly(s) ==
    /\ sessionList' = [sessionList EXCEPT ![s] = Absent]
    /\ UNCHANGED activeSessions

removeSession(s) ==
    /\ activeSessions' = [activeSessions EXCEPT ![sessionList[s].user] = None]
    /\ sessionList' = [sessionList EXCEPT ![s] = Absent]

(* A session that may not log in is removed, also one that others use; an    *)
(* exception leaves it; a login by token does not ask.                       *)
CheckLogin(t) ==
    /\ work[t].op = "check"
    /\ \/ UNCHANGED <<sessionList, activeSessions>>
       \/ /\ checkPermission(work[t].session, LoginPermission) \in {0, -1}
          /\ removeSession(work[t].session)
    /\ Continue(t, Idle)
    /\ UNCHANGED <<tables, usergroupCache>>

logout(t, s) ==
    /\ sessionList[s] # Absent
    /\ Receive(t, sessionList[s].user, FALSE)
    /\ removeSession(s)
    /\ UNCHANGED <<tables, usergroupCache, work>>
-----------------------------------------------------------------------------
(* onEnable loads the caches from the tables.                                *)
Init ==
    /\ \E start \in TablesAtStart :
           /\ userpermission = start.userpermission
           /\ usergroup = start.usergroup
           /\ groups = start.groups
           /\ grouppermission = start.grouppermission
    /\ usergroupCache = [g \in Group |-> IF groups[g] = Absent THEN Absent
                                         ELSE [parent |-> groups[g],
                                               permissions |-> grouppermission[g]]]
    /\ sessionList = [s \in Session |-> Absent]
    /\ activeSessions = [u \in User |-> None]
    /\ work = [t \in Thread |-> Idle]
    /\ commands = 0
    /\ disturbed = [x \in User \cup Group |-> FALSE]

Next ==
    \E t \in Thread :
        \/ \E u \in User, p \in Permission :
               \/ \E state \in State : addUserPermission(t, u, p, state)
               \/ removeUserPermission(t, u, p)
        \/ \E u \in User, g \in Group : addUserUsergroup(t, u, g) \/ removeUserUsergroup(t, u, g)
        \/ \E g \in Group, parent \in {h \in Group : groups[h] # Absent} \cup {None} :
               registerUsergroup(t, g, parent) \/ updateUsergroup(t, g, parent)
        \/ \E g \in Group, p \in Permission, state \in State :
               addUsergroupPermission(t, g, p, state)
        \/ QueryPermissions(t) \/ QueryParent(t) \/ updateUsergroupCache(t)
        \/ \E u \in User : ReuseSession(t, u) \/ newSession(t, u)
        \/ QueryUsergroups(t) \/ InsertSession(t) \/ CheckLogin(t)
        \/ \E s \in Session : logout(t, s)
        \/ CacheUserPermission(t)

Spec == Init /\ [][Next]_vars
-----------------------------------------------------------------------------
(* What the walks above are for, said without walking: above S, or in it, is *)
(* what every set has that contains S and the parents of all its elements.   *)
Above(S, parents) ==
    {x \in DOMAIN parents :
        \A C \in SUBSET DOMAIN parents :
            S \subseteq C /\ (\A y \in C : parents[y] \subseteq C) => x \in C}

permissionParents == [p \in Permission |-> {getPermissionParent(p)} \ {None}]
PermissionsAbove(p) == Above({p}, permissionParents)

Cached(g) == usergroupCache[g] # Absent
groupParents == [g \in Group |-> IF Cached(g) THEN {getUsergroupParent(g)} \ {None} ELSE {}]
GroupsAbove(S) == Above(S, groupParents)

Granted(s, p) ==
    LET groupsOfUser == GroupsAbove(ToSet(sessionList[s].usergroups))
        UserSays == {sessionList[s].permissionsCache[q] : q \in PermissionsAbove(p)}
        GroupsSay == UNION {{usergroupCache[g].permissions[q] : q \in PermissionsAbove(p)} :
                               g \in groupsOfUser}
    IN  /\ -1 \notin UserSays
        /\ \/ 1 \in UserSays
           \/ /\ \A g \in groupsOfUser : Cached(g) /\ g \notin GroupsAbove(groupParents[g])
              /\ -1 \notin GroupsSay
              /\ 1 \in GroupsSay

(* checkPermission grants a permission just when neither it nor one above it *)
(* is denied to the user, and it or one above it is granted to the user or,  *)
(* where the user's own states say nothing, to a group of the user's or one  *)
(* above that, none of which denies it: the order of the search does not     *)
(* matter, and a group that is not cached yet never grants.                  *)
DecisionsMeetRule ==
    \A s \in Session, p \in Permission :
        sessionList[s] # Absent => (checkPermission(s, p) = 1 <=> Granted(s, p))

InProgress(x) == \E t \in Thread : x \in about(t)

(* With no command about a group being handled, and none handled together    *)
(* with another since the last that was not, the cache has the group as the  *)
(* tables do: its parent, and the states of all permissions.                 *)
GroupsCurrent ==
    \A g \in Group :
        ~InProgress(g) /\ ~disturbed[g] =>
            usergroupCache[g] = IF groups[g] = Absent THEN Absent
                                ELSE [parent |-> groups[g], permissions |-> grouppermission[g]]

(* Likewise a user has at most the session that new logins are given, and it *)
(* has the states of the user's permissions as the table does, whatever      *)
(* commands came between its login and now.                                  *)
UserRightsCurrent ==
    \A u \in User :
        ~InProgress(u) /\ ~disturbed[u] =>
            \A s \in SessionsOf(u) : /\ s = activeSessions[u]
                                     /\ sessionList[s].permissionsCache = userpermission[u]

(* However logins and logouts of a user meet, a login is never given a       *)
(* session that is gone or another user's.                                   *)
ActiveIsListed ==
    \A u \in User : activeSessions[u] # None => activeSessions[u] \in SessionsOf(u)

(* What the comment "update user's cache" says: the session of a user lists  *)
(* the groups of the user.                                                   *)
MembershipsCurrent ==
    \A u \in User :
        ~InProgress(u) /\ ~disturbed[u] =>
            \A s \in SessionsOf(u) : ToSet(sessionList[s].usergroups) = usergroup[u]
=============================================================================
