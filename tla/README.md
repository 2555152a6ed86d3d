# zds in TLA+

TLA+ models, TLC configurations and machine-checked proofs for **zds**, the
Zeitoon distributed server: a core process (`_core`) that services written as
separate processes connect to over TCP, and the services that come with it.
Source paths below are relative to the repository; unless a directory is given
they are in `executables/_core/`.

## 1. The system

```
   operator (CLI)                       userman     pgdatabase    gui     chat ...
        |                                  |            |          |        |
        v                                  +-----+------+----+-----+--------+
  +--------------- _core ----------------+       | TCP, JSON packets
  | Router: packet handlers, commands    | <-----+
  |   ExtensionManager: profiles <-> sqlite table "services"
  |   CommunicationManager: commands, events, hooks, callbacks
  |   TCPServer: event loop, pools of receive and transmit threads
  +--------------------------------------+
```

A service says hello, is installed and enabled by the operator, registers the
commands and events it offers and the hooks it wants, and from then on calls
others through the core. A service may *require* others: it is enabled only
while they run, and the core disables and wakes services in cascades as their
requirements come and go.

| Component | State | Operations | What makes it correct |
|---|---|---|---|
| Service lifecycle (`Router.cpp`, `ExtensionManager.hpp`, `Profiles.hpp`, `main.cpp`) | profile of each service (state, connection, install id, requirements satisfied, permissions registered), table `services` | hello, disconnect, install, enable, disable, uninstall, force, the callbacks onInstall / onEnable / getInstallInfo, permission registration, restart | nothing runs on a requirement that is gone; what waits is woken; what was uninstalled does not come back; a restart converges |
| Communication manager (`CommunicationManager.cpp`) | commandList, eventList, hookList, hookedEvents, callbackList, idList, five mutexes | register / remove, fireEvent, callCommand(Sync), callCallback(Error), cleanup | the maps agree under concurrent operations; answers reach their caller; nobody waits for ever |
| TCP server and client (`library/network`) | clients, receive and transmit queues, flags, pool sizes, framing buffer | accept, read, send, pool management, stop, reconnect | packets arrive whole and once; no lost wake-up |
| Mediators (`library/mediator`) | waiting calls of a service by id | runCommand(Sync), dataReceive, errorReceive | answers match calls |
| User management (`executables/UserManagement`) | users, groups, permissions (SQL), sessions and caches | login, logout, permission checks, changes to groups and users | caches follow the tables; one session per user |
| PostgreSQL service (`executables/PGdatabase`) | connections per service, transactions | query, execute, block, transactions | a connection in use is not closed |
| GUI gateway (`executables/GUI`) | websocket clients, sessions, hooks | login, logout, call, event, disconnect | an answer reaches the client that asked; the last client of a session logs it out, and no earlier one |
| Chat, BMS, data types, JSON, sqlite hub, core configuration | see PROJECT.json | | |

Components interact through calls of `Router` into `CommunicationManager` and
back (`sendFunc`), through the shared profile list, and through packets.

**What is hard here.** Packets are handled by a *pool* of threads, so the
handlers of one service overlap with those of others and come out of order;
handlers block in synchronous calls to the user manager in the middle of their
work; the two cascades call each other while they walk the list they change;
the process may end between any two saves; callbacks arrive after the state
they were asked in is gone; each map of the communication manager has a mutex
of its own, given back in the middle of loops. PROJECT.json `hazards` lists
every such place with its line and the property that guards it, or says why
none does yet.

## 2. Modules

| Module | Models | Kind |
|---|---|---|
| `ServiceLifecycle` | Router's handlers and operator commands over profiles and table | specification |
| `MCServiceLifecycle` | a user manager and an application on it | model checking |
| `ServiceLifecycle_proofs` | seven theorems about it and two about RequirementCascade | proofs |
| `CoreBoot` | the core after a restart: ServiceLifecycle with no operator, under fairness | composition, liveness |
| `MCCoreBoot` | a database, a user manager on it, an application on that | model checking |
| `RequirementCascade` | `disableIfReqNotSatisfied()` / `disableService()` statement by statement | detailed model of one operator of ServiceLifecycle |
| `MCRequirementCascade` | a diamond of requirements | model checking |
| `EventHooks` | events, hooks and firing at the grain of the mutexes | specification |
| `MCEventHooks` | three threads, two services, one event | model checking |
| `EventHooks_proofs` | four theorems about it | proofs |
| `Calls` | what a synchronous call promises its maker | abstract specification |
| `ServiceCalls` | a call from service to service: both mediators, commands, callbacks and waiting calls of the core | detailed specification, implements `Calls` |
| `MCServiceCalls` | two calls and a permission check, under one identity | model checking |
| `ServiceCalls_proofs` | four theorems about it | proofs |
| `Fifo` | what a transmitter promises | abstract specification |
| `TcpReceive`, `TcpTransmit` | the two thread pools of TCPServer | specifications, the second implements `Fifo` |
| `TcpClient` | TCPClient: connection, retries, transmit pool | specification, implements `Fifo` |
| `TcpReceive_proofs`, `TcpTransmit_proofs`, `TcpClient_proofs` | three theorems about each and a fourth about the client's retries; two of them that `Fifo` is implemented | proofs |
| `MCTcpReceive`, `MCTcpTransmit`, `MCTcpClient` | small pools, two or three packets | model checking |
| `UserRights` | sessions, caches, rights and decisions of the user manager | specification |
| `MCUserRights` | one user, two permissions, two groups | model checking |
| `UserRights_proofs` | four theorems about it | proofs |
| `GuiGateway` | clients, commands and sessions of the websocket gateway | specification |
| `MCGuiGateway` | two clients, two commands, two sessions | model checking |
| `GuiGateway_proofs` | one theorem about it | proofs |

### 2.1 ServiceLifecycle

| Variable | In the code |
|---|---|
| `ext[s]` | the `ExtensionProfile` of `s` in `extManager`: `state`, `reqSat` (requirementsSatisfied), `cep` (CEPermissionsRegistered), `conn` (netClientId >= 0), `hasId` (installID not empty), `info` (install info received: its type and requirements are known) |
| `row[s]` | the row of `s` in the table `services`, written whole by `save()`, read by `load()` |
| `registered` | services that own entries of commandList, eventList or hookList |
| `owed[s]` | onInstall and onEnable calls that `s` has received and not answered |
| `job[s]` | the handler for `s` whose thread waits inside `callCommandSync` for the user manager |

One action is one handler with everything it calls: the cleanup of nodes, both
cascades, and each save are part of the action. The exception is permission
registration, where the handler waits for another process: the action ends at
the wait, `job` holds the rest, and `RegisterAnswered` is that rest. When a
handler throws (no user manager, a refused permission), the action is the part
before the throw: `OnEnableThrows`, `StopsRegistering`, `RegisterRefused`.

`DisableCascade` is given in closed form: what stays enabled is the largest set
of services that can go on using each other. That the recursion in the code
computes this is what `RequirementCascade` checks.

Left out, because no property tells them apart: the profile of `_core` itself,
versions (a wrong version is a requirement that never runs), texts, events
fired for information. Left out although they change state: the CLI command
`upgrade`, and sends that throw because the client is gone (a hazard).
`forceUninstallService` reads a profile it has just deleted (`Router.cpp:714`);
the outcomes a build can produce, going on or ending the process, are
`ForceUninstall` and `Restart`. Requests to a service that has already gone are
dropped with its connection (`owed` is reset).

### 2.2 CoreBoot

`BootInit` is `Load` of any combination of saved rows; then services connect,
register their nodes, answer onEnable with success, the user manager answers
registrations, and *nothing else happens*: no operator, no failure. The
property `BootConverges` says that every service that was enabled, and whose
requirements can all run, runs in the end.

Fairness is weak fairness of each of these steps per service: a service
reconnects for ever (`TCPClient` retries on failure), answers what it is asked,
and the pool always has a thread for a packet that waits. Operator steps have
no fairness. `CoreBoot_quiet` starts with the database's permissions
registered, the other services' registered or not, and rows that are installed
or enabled. Section 5 names two other starts that do not converge.

### 2.3 RequirementCascade

The recursion is made explicit: a stack of scans per thread, each with the
index its loop has reached, and a list in a fixed order. Two threads run
cascades at the same time on the same profiles, as two disconnects do.
`CascadesAgree` compares the quiet end state with the closed form,
`DemotedIsOnStack` says that a service saved as merely installed is on a stack
(so a crash in the middle can lose the operator's "enabled" only for those),
`ScansEnd` that every scan terminates under weak fairness of `Scan`.

### 2.4 EventHooks

Each operation of `CommunicationManager` on events and hooks is cut where its
thread takes or returns a mutex. `thread[t]` is the place, the event, the
service and the mutexes of a thread, `firing[t]` the loop of `fireEvent`: the
index, the end computed before the first iteration, whether the vector's memory
has been given back since. A loop over a vector that others change is
undefined in C++; the model shifts the elements under the index as `erase`
does, finds nothing behind the end, and finds *anything* after the memory was
returned (`Listed`). `cleanup` erases inside its loop and steps over the
element behind the erased one (`Hit`, `Without`). A send may throw with the
mutex given back; from then on every `unlock` throws (`SendFails`).

### 2.5 ServiceCalls, Calls

A call is one run of `runCommandSync` (in a service) or `callCommandSync` (in
the core). `pc`, `box`, `got` are the thread that made it: where it is, the
`idData` on its stack, the copy it will return. `idList` holds the calls
registered in their maker's idList, `callbackList` those whose
`CallbackProfile` the core has, `commandList` the services whose commands are
registered (a service registers and removes all of its commands at once),
`net` the packets in flight.

* Packets are handled by pools at both ends, so `net` is a set; a broken
  connection loses any part of what is in flight for that service, and the rest
  arrives, possibly after the next hello.
* The key of a callback in the core is `caller#identity` (`Profiles.hpp:59`),
  the key in a service is the identity alone. Identities are drawn by `rand()`
  seeded with the time (`utility.hpp:518`): they are unique in a process
  (`IdentityAssumption`) and *equal* in two processes started in one second,
  which is what the instance has.
* `sendMessage` of a call with a session makes a call of its own to the user
  manager and spins. `routing` holds the calls between the stored callback and
  the send.
* Locks: an error handler writes `data`, `set`, `isException` (or in the core
  `set`, then `data`) under MtxIdList (and MTXCallback); the spin reads without
  it. `writing` holds the handlers between the two writes, `IdListFree` and
  `CallbackFree` keep out whoever needs the lock. In a service the erase needs
  it, which keeps the frame alive (`FrameIsAlive`). In the core nothing is
  erased from idList and `WriteErrorText` may write to a frame that is gone:
  the model does so to `box`, which nobody reads any more, and `FrameIsAlive`
  claims nothing of the core's calls.
* `callCallbackError` throws after filling the placeholder, before it erases
  the callback: it stays, and takes a further answer.

`Calls` is the promise: a command runs at most once per call, and a maker that
gets something gets what that run produced, raised if it is an error.
`callCommandSync` may hand over nothing in place of an error (set before data).
`KeepsPromise` is the refinement: `made` are the calls not new, `outcome` is
`OutcomeOf`. Nothing times a call out, so the promise is one of safety, and
`Answered` says when a call may hang: it was refused by the core (`makeError`
puts its id where the maker does not look for it), or its maker or callee went
away or was disabled while it waited, or that happened to its permission check.

Fairness: weak, for every step of a thread that can run and for the handling of
a packet that has arrived; none for connecting, registering and calling.
Answers dropped for the reasons above are no step anybody owes.

### 2.6 TcpReceive, TcpTransmit, TcpClient, Fifo

The pools are modelled at the grain of their locks and atomics: a thread that
tests its flag and one that waits are two steps (`FindNothing`, `Wait`), since
the flag is set, and `notify_one` called, without the mutex of the wait. A
notification with no thread in the wait is lost; a woken thread that finds
`reduceRXthread` (`txRemoveThread`) ends whatever it was woken for. The manager
decides, records the size and zeroes the counters in three steps, because the
others increment them in between.

* `TcpReceive`: the queue is pushed under rxMtx and popped under ggg. A handler
  may wait for another packet (`Awaits`), as a call with a session waits for
  the user manager's answer, and occupies its thread meanwhile; the pool has to
  grow. `ClearReceived` sets `received` false after it found the queue empty;
  a packet that came between is `missed`, and `Served` excuses it.
* `TcpTransmit`: `send` takes `txReady` back, pushes, and sets it after the
  unlock; for a client that is gone `clients[]` throws in between and the flag
  stays false (`disarmed`). A packet keeps the pointer of its client: when the
  client has gone the thread that takes it may skip it or hang on a closed
  socket (`SkipWrite`, without fairness).
* `TcpClient`: the same pool with other guards (the mutex is held from the pop
  over the wait for a writable socket to `uv_write`), a queue that outlives the
  connection, a reset of the flags at every connection (`forgotten`), one more
  manager thread for every connection (none of them ends), threads that die of
  a failed `uv_write` and stay counted, and `ReconnectConfig`. A send without a
  connection throws before it changes anything and is no step. An exception
  in the event loop that nobody catches ends the process: `connection` is
  "dead" and nothing happens any more, hence CHECK_DEADLOCK FALSE.

`Fifo` is what a transmitter promises: out once and in order, or dropped when
its turn comes. `SentInOrder` is the refinement, with the packet in a thread's
hands in front of the queue (`BeingWritten`); that there is never more than one
is what the mutex is for.

Fairness: weak, for threads and the manager (100 ms, 50 ms), and for the rest
of a `send` that has begun. The mutexes are assumed to let a thread in
eventually; `std::mutex` does not promise that, schedulers do in practice.

Abstractions: the manager's count of quiet rounds (30, 15, 3) before it ends a
thread is left out, any quiet round may be the last; thread slots are bounded,
when they are used up a "new" thread is one that waits, which is what it would
become; spurious wake-ups only repeat tests. std::queue is pushed and popped
under different mutexes, and libuv is called from several threads: both are
undefined, and the model has the outcomes of the operations one after the
other. Cutting bytes into packets is not modelled.

### 2.7 UserRights

Four tables, the three caches (`usergroupCache`; `sessionList` with the
permissions and groups of each session; `activeSessions`), and per receive
thread what is left of its command. A command is cut where it waits for the
database: every query is a step. The permissions themselves do not change.

* `checkPermission` and what it calls are operators on the caches, written as
  the loops are: up the permissions for the user's own states, then group by
  group, each up its parents. A loop over a cycle of groups does not end in the
  code; `UpTheGroups` gives it up, as `Error`.
* `DecisionsMeetRule` compares them with `Granted`, which says with closures
  (`Above`, the least set with all parents) what the walks are for.
* `disturbed[x]` is history: two commands about x overlapped. For a group it is
  cleared by the next command about it that is handled alone (each refreshes
  the whole entry); for a user only by a login with no session left.
  `GroupsCurrent` and `UserRightsCurrent` are claimed where it is false.

Left out: removing a group (the refresh asks for the parent of a row that is
gone and throws; before that it erases from a vector inside a loop over it,
`UMSessionManager.cpp:62-66`, which is undefined), removing a user
(`UMCore.cpp:322` remembers the session over two queries), the temporary ban,
permissions being registered, contacts and avatars. `removeUsergroupPermission`
is commented out in `UmCHI.cpp:180-184`.

### 2.8 GuiGateway

| Variable | In the code (`executables/GUI`) |
|---|---|
| `connection[c]` | the connection in `connectionList` and its entry of `clients`: "left" once the first is erased, "gone" once both are |
| `sessionID[c]` | the session in the client's `clientData` |
| `cmdClients` | which client a pending command id belongs to; a client chooses its ids |
| `concurrentSessions` | how many clients were counted for a session |
| `closing` | the rest of `on_close` / `WSClientDisconnect` |
| `call[k]` | a client's command: its message thread (`thread`) and the answer to it (`answer`) |
| `logouts`, `usermanager` | the logouts the gateway sent by itself, the sessions at the user manager (external) |

Every message of a client has a thread, answers come in a pool, connections end
in the loop of the websocket library, and no map has a lock. A step is what one
of them does to one map, so a client may leave between any two of them: after
its command is read, before the answer's session is written, between the count
and the logout.

* `clients[clientID]` of a client that is gone makes a null entry, and using it
  ends the process (`SetSession` makes `running` false). The count of a session
  that is not listed is read from `end()`: `LeaveSession` takes any outcome.
* `disturbed` is history: the sessions for which a login's answer met a client
  leaving (or a logout of the gateway) or found its client gone, or whose
  client logged in again without logging out. The count is wrong for them,
  and `SessionsFollowClients` is claimed of the others.
* Clients are numbered as they come (`conIDCounter`); that sessions are too is a
  symmetry, no assumption about the user manager. A command other than login and
  logout does to this state what a refused login does.

Fairness: weak, for each step of a message or answer thread, and what is asked
is answered (the calls that do hang are the subject of `ServiceCalls`).
`CallsAnswered` is claimed of clients that stay and ids used once.

Left out: hooks of clients and `eventReceived`; an entry without a meaning in
`concurrentSessions` for a refused login (`GUICore.cpp:133`); sends that throw
because the core is not connected, which in `on_close` would end the websocket
loop; calls that the core refuses.

## 3. What the runs check

| Run | Instance and bounds | Checks |
|---|---|---|
| `pair` | a user manager and an application requiring it; every answer owed at most once (`MaxOwed = 1`); install info comes before installation (`LateInfo = FALSE`); install, enable, disable, uninstall and force by the operator, enabling by hello too, late callbacks, restarts at any moment | types; the table holds only what is installed; owners of nodes are connected; a lost connection leaves nothing running on it; enabling only when required services run; the end of an onEnable handler leaves nobody waiting in vain; installed services stay in the list |
| `boot` | three services in a chain, every combination of saved rows (32 initial states), no bound needed: every behaviour is finite up to stuttering | `BootConverges` |
| `cascade` | four services in a diamond, two threads, two list orders, every mix of running, waiting and disabled | the cascade ends and agrees with the closed form |
| `hooks` | three threads, two services, one event, at most two ids in the vector when an operation begins (dead ids can pile up without limit) | maps agree, no hook lost, firings complete, no deadlock |
| `calls` | services a, b and the user manager um; a calls b with a session (one permission check), b calls um; the processes draw the same identity | types; only checked calls run; no write to a dead frame; the promise of `Calls`; answered or excused |
| `receive` | two packets, the handler of the first waits for the second; three thread slots | handled once, served, the pool keeps a thread |
| `transmit` | one packet to a client that may leave, two to one that stays; two thread slots | armed, in order, transmitted |
| `client` | two packets, up to two connections and managers, two thread slots, the intervals 2 and 4 used once each | armed, in order, transmitted on a connection that stays, retries in turn |
| `rights` | one user, two permissions (one above the other), two groups, three states of the tables at the start, two threads, at most three commands | decisions meet the rule, caches follow the tables, active sessions exist |
| `gateway` | two clients, two commands with one of two ids each, two sessions | sessions live as long as they have clients; answers reach who asked |
| `withdrawn`, `membership` | the smallest instance; that of `rights` | each refutes one statement of the documents or the code, see 5 |

Why these bounds suffice: requirements relate services pairwise or by chains,
so two services show every pair of handlers overlapping, three a chain and
four a diamond where a service loses two requirements at once. One owed answer
per kind already lets a late answer meet any later state. In EventHooks each
pair of mutexes needs two threads, and a third fires while two others change
the maps. Three commands on two threads let two overlap and a third meet what
they leave; a decision looks at one session, a permission and its parent, a
group and its parent. One packet behind the one whose handler waits is the
least that makes the receive pool grow; two packets show reordering, a third
one that another client's sends disturb. The client's connections are bounded
by `Manager`: two show what a reconnection does to the first one's queue. In
`client` no interval is endless (uses 0), so that branch of `getNextInterval`
is modelled and not reached; the theorem about the retries is about any
intervals. Two clients are enough to share a session and
to share an id, two commands for a login that meets another or a logout; a
simulation with three clients and four commands found nothing more. No run has a
service in the role of the database (`DB = db` is not among the services of
`pair`): that branch of the uninstall is covered by the safety theorems, which
are for every set of services. The commands given in each instance are in its `.cfg`; `Commands` is a
bound, not an assumption about the operator.

Each property of a passing run has a mutant of the modelled code, named
"mutant" in the modules (a dropped save, an unchecked requirement, a missing
clean-up, an off-by-one in a state comparison), that the run refutes.

CHECK_DEADLOCK is off only where the system may stop: a boot that has converged,
cascades that have ended, a client or a gateway whose process has ended, and the
user manager and the gateway when the bound on their commands is reached.

## 4. What is proved

For all values of the constants (any set of services, any requirement graph
including cyclic ones, any bound), with TLAPS:

| Theorem | Statement |
|---|---|
| `ServiceLifecycle_proofs!TypeCorrect` | `Spec => []TypeOK` |
| `RowsSafety` | `Spec => []RowsAreInstalled`: no crash brings back what was uninstalled, or an old install id |
| `NodesSafety` | `Spec => []NodesHaveProfile`: the unchecked look-up of `sendMessage` finds a connected profile |
| `LossSettles` | `Spec => LostConnectionSettles` |
| `EnablingJustified` | `Spec => EnablingIsJustified`, where no service requires itself |
| `StartWakes` | `Spec => StartWakesDependents`: the end of an onEnable handler leaves nobody waiting in vain |
| `InstalledKept` | `Spec => InstalledIsKept` |
| `RecursionAgrees` | `CascadeSpec => []CascadesAgree`: the recursion of the two cascades, run by any number of threads at once over a list in any order, yields the single step that ServiceLifecycle takes |
| `DemotionsReturn` | `CascadeSpec => []DemotedIsOnStack` |
| `EventHooks_proofs!TypeCorrect`, `ListsAgree`, `HooksListed` | `Spec => []TypeOK`, `[]EventsAreListed`, `[]HooksAreListed` (EventHooks) |
| `AllAreReached` | `Spec => []FiringReachesAll`: a firing reaches all hooks that were there when it began, unless the list changed under it |
| `ServiceCalls_proofs!TypeCorrect`, `OnlyCheckedCallsRun`, `NoWriteToDeadFrame` | `Spec => []TypeOK`, `[]CheckedBeforeRun`, `[]FrameIsAlive` (ServiceCalls) |
| `CallsKeepTheirPromise` | `Spec => KeepsPromise`: ServiceCalls implements `Calls` |
| `TcpReceive_proofs!TypeCorrect`, `LastThreadStays`, `PacketsHandledOnce` | `Spec => []TypeOK`, `PoolStays` (the manager never ends the last thread), `[]HandledOnce` |
| `TcpTransmit_proofs!TypeCorrect`, `FlagNotForgotten`, `TransmitIsFifo` | `Spec => []TypeOK`, `[]TxArmed`, `SentInOrder`: TcpTransmit implements `Fifo` |
| `TcpClient_proofs!TypeCorrect`, `FlagNotForgotten`, `ClientIsFifo` | the same of TcpClient, over any number of connections |
| `IntervalsInTurn` | `Spec => []RetriesInTurn`, for intervals of any number of pairs, the last one endless or not |
| `UserRights_proofs!TypeCorrect`, `GroupCacheCurrent`, `UserCacheCurrent`, `ActiveSessionListed` | `Spec => []TypeOK`, `[]GroupsCurrent`, `[]UserRightsCurrent`, `[]ActiveIsListed` |
| `DecisionsFollowRule` | `Spec => []DecisionsMeetRule`, where no permission is above itself: the searches up the permissions and the groups decide by the rule, whatever the caches hold |
| `SessionsFollow` | `Spec => []SessionsFollowClients` (GuiGateway): no session is logged out under a client that has it, and none outlives its last client |

*Assumptions* are those of the specifications: requirements are sets of
services, the user manager is not the database, `MaxOwed` is positive, and
`Nobody` is not a service; the list of RequirementCascade has every one of
finitely many services once; identities are unique within a process; the slots
for threads of the pools are finitely many; the intervals of a client are a
non-empty list of pairs; users and groups are told apart and there are finitely
many groups and permissions; the tables of the user manager hold rows of their columns' types at
the start (`TablesAssumption`). `AbsentAssumption`, and the others on `None` and
`Error`, say that the marks for "nothing there" are none of the things
themselves. Three theorems have a hypothesis of their own; TLC refutes the first
two without theirs. `EnablingJustified` needs `NoneRequiresItself`: `enableService()`
asks whether the requirements run before it sets the state, and a service that
names itself, and is enabled already, is the answer to its own question.
`IntervalsInTurn` needs `MiddlePairsUsed`: `getNextInterval` takes 0 uses for
"without end" only in the last pair, steps past such a first pair and uses one
in the middle once. `DecisionsFollowRule` needs `NoPermissionAboveItself`: the
loop up from a permission that is above itself does not end in the code, so that
`UpThePermissions` would mean nothing.

*Arguments.* `RowsAreInstalled` is inductive together with `TypeOK`: each
handler either saves (then `SavedIsInstalled`: what `Save` writes is installed
with the id of the profile) or leaves every installed profile installed with
its id. `NodesHaveProfile` needs that a profile with a connection is in the
list (`NodesInv`): steps either keep both, or clean up exactly the services
they disconnect. `LossSettles` rests on
`DisableCascadeSettles`: the union of self-supporting sets is self-supporting
(`KeptIsSelfSupporting`), so after a cascade whoever still runs has all its
requirements in that union; every step that drops a connection ends in the
cascade, or is a restart after which nothing runs. `EnablingJustified` and `StartWakes` look at what
each handler can raise to running, and at whom `EnableCascade` wakes.

That the recursion ends in the closed form (`CascadeInv`) has two halves.
Nobody who can go on is disabled (`KeptBelieved`): a service is disabled because
a requirement does not run, and those that can go on require each other. And
nobody who cannot is forgotten (`DoomedAhead`): whoever is to be disabled is
still ahead of the index of some scan, of whatever thread, because each step
that dooms a service also starts a scan from the head of the list. When no scan
is left nobody is doomed, so that those who go on support each other and are
`Kept`. That the states are put back rests on `CalledOnce`: reqSat is cleared
before the call, so no two scans disable the same service. `ListsAgree` is not
inductive alone: a thread that is between the two maps must be the only one
that has MTXEventList. The invariant `Inv` adds which mutexes a thread has at
which place, that no two threads have the same one, and that an event being
registered is in eventList. `HooksListed` adds what each thread between
the maps still has to do to hookedEvents (`HookInv`), over what `RemoveFirst`
and `Without` leave in a vector, and `AllAreReached` that a loop whose vector
nobody has touched has the hooks it has not reached yet ahead of its index
(`LoopInv`). The theorems about ServiceCalls
rest on `Safe`: for each call, what is in flight, in its box or in its copy is
the answer of its own run (`UnderWay`, `Replied`, `Boxed`, `Taken`), and for
each check, that it was made before its call is routed (`CheckInv`). Uniqueness
of identities within a process makes the addressee of a packet unique; between
processes the core's key does. The refinement maps each step to one of `Calls`
or to a stutter.

The refinement of `Fifo` needs that one thread at most has taken a packet that
is not on the wire yet (`OneHolds`: it has txMtx from the pop to the write, in
the client also over the end of a connection), and that exactly those threads
have a job. `txThreadCounter` of the client is a natural number because it
counts at least the threads there are (`AllCounted`). `PoolStays` follows from
`SpareToEnd`: a thread is told to end only while there are two, and whoever ends
takes the order back. `HandledOnce` needs `InOnePlace`: a packet that was read
is in one place of the queue, in the hands of one thread, or handled. For the caches
of the user manager, what a command has read and not yet stored must equal
the tables for as long as no other command about the same user or group began;
`GroupFollows` and `UserFollows` say so for each step a command can be at, and
`CheckedSession` that a session a login is checking is gone or the user's.

`DecisionsFollowRule` needs of the state only the types of the caches: all of
it is about what the recursive functions compute. `UpThePermissionsIs` gives the
verdict of the search up the permissions: the closure satisfies the recursion,
and a function that does differs from it nowhere, least of all at a permission
with the fewest above it. Up the groups (`SoundGroup`, `UnsoundGroup`) a group
is sound if all above it are cached, deny nothing and are not above themselves;
a sound one has fewer groups above it than steps are left, so that giving up
after `Cardinality(Group)` steps changes no grant (`AboveLess`).

`IntervalsInTurn` says where in the list of pairs the client is, from the number
of its tries (`InPair`, `RetryInv`). `SessionsFollow` rests on a count
(`CountIsRight`): what concurrentSessions says, and the answers that have set
a session and are yet to count it, are together the number of clients that have
it and are not counted out. It is claimed of a session until a client's own
logout of it is sent or it is disturbed. With it goes that a session which is
about to be logged out has nobody and nobody is to get it (`DepartingIsLeft`),
and that one which lives has somebody (`LivingIsHeld`).

The provers cannot use the library's induction theorems. Where a proof needs
induction over data it is made as an argument about the least counterexample
(`LeastNatural`, from the well-foundedness of the natural numbers): that the
recursive function `UsesUpTo` is what its definition says (`StepsExist` is the
same for the searches of UserRights), and `Min` of a set.

*Model-checked only*: liveness (`BootConverges`, `ScansEnd`,
`Answered`, `Served`, `Transmitted`, `CallsAnswered`), which is beyond the
prover, as is ENABLED. Every invariant and every action property that the
passing runs check is a theorem.

## 5. Disagreements found

1. `withdrawn`: an onEnable answer that arrives after an uninstall makes the
   service enabled again without an install id (`Router.cpp:231`); the state
   diagram says that installation changes only by commands.
2. `membership`: `addUserUsergroup` updates the user's session inside a loop
   over the *failures* that the database returned (`UMCore.cpp:882`), and the
   SQL functions return none (`DBTableScripts.sql:200-206`): a user who is put
   into a group, or taken out, keeps the rights the session was made with, until
   the next login with no session left. The code says `//update user's cache`.

Four more have definitions in the modules and no run of their own:

3. `NotInstalledIsConnected` (ServiceLifecycle, on `ServiceLifecycle_pair.cfg`):
   uninstalling a service that is not connected leaves a profile that no
   disconnect removes and no hello can take over (`Router.cpp:762`).
4. `BootConverges` with `BootCEP <- NoneRegistered`: `registerCEP()` throws in
   the onEnable handler of a database when no user manager runs
   (`Router.cpp:235`), so the user manager waiting for it is not woken.
5. `BootConverges` with "enabling" in `BootStates`: that state is saved
   (`Router.cpp:514`) and nothing takes it further after a crash.
6. `HookedOnce` (EventHooks): `registerEvent` reads hookList without its mutex
   (`CommunicationManager.cpp:57`); a hook registered at the same time gets into
   the vector twice.

Met while modelling, with no document to hold against the code: a call that the
core refuses hangs for ever (`makeError` puts the id under `data`,
`errorReceive` looks for it at the top); a send to a client that is gone leaves
`txReady` false; a new connection of a service forgets that packets are queued.
They are the excuses in `Answered`, `TxArmed` and `Transmitted`.

## 6. Not modelled, and what would come next

* *Framing* (`TCPServer.cpp:303-337`): one `rxBuff` and `_lastPacketLen` for
  all clients, so a packet in two parts with another client's data between is
  mixed up; bytes that are no header advance nothing and the event loop spins.
  Both are plain from the lines and contradict no document; a model would have
  to carry bytes.
* *GUI gateway*: hooks and events of clients. `eventReceived` returns after the
  first client (`GUICore.cpp:160`), so the others get nothing; that is plain from
  the line.
* *PostgreSQL service*: the pool of connections and the transactions on them; the
  pool is searched and extended without a lock (`ConnectionManager.cpp:65`).
* A handler that throws because a send fails is in EventHooks and TcpTransmit,
  not composed with ServiceLifecycle. The profile list is a plain map that all
  receive threads use without a lock; the models take a handler as one step.
* Not planned: UDP client, data types, JSON parser, logger, BMS prototype, chat
  service (sequential conversions or pure I/O, see PROJECT.json). Most of the
  repository's lines are vendored (`library/database/sqlite3.c` and `.h`,
  `resource/subProjects`) and are no subject of this project.
