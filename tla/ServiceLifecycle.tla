-------------------------- MODULE ServiceLifecycle --------------------------
(***************************************************************************)
(* The life of a service as the _core process sees it: Router.cpp (packet  *)
(* handlers, operator commands and the two requirement cascades) over the  *)
(* profile list of ExtensionManager.hpp and the table "services" of the    *)
(* core's sqlite file.                                                     *)
(*                                                                         *)
(* A handler is one action, except where it calls callCommandSync: there   *)
(* its thread waits for the user manager (UM) to answer while the other    *)
(* receive threads go on, so the handler is cut in two and the waiting     *)
(* half is kept in "job".  Left out are the profile of _core itself, the   *)
(* texts of errors and events, the version numbers (a requirement of a     *)
(* wrong version is one that never runs) and the CLI command "upgrade",    *)
(* which compares the permissions of a service with those UM has.          *)
(***************************************************************************)
EXTENDS Naturals, FiniteSets

CONSTANTS
  Service,     \* names of the services that may connect to the core
  EnableReq,   \* EnableReq[s]: services that must run for s to be enabled
  InstallReq,  \* InstallReq[s]: services that must run for s to be installed
  UM,          \* the service whose info says it is a user manager, or no service
  DB,          \* the service whose info says it is a database, or no service
  MaxOwed,     \* bound: answers to onInstall / onEnable a service may owe at once
  LateInfo,    \* whether the operator may ask for the install info after Install too
  Commands     \* bound: the operator commands that are given

ASSUME RequirementsAssumption ==
  /\ EnableReq \in [Service -> SUBSET Service]
  /\ InstallReq \in [Service -> SUBSET Service]
ASSUME RolesAssumption == UM # DB
ASSUME MaxOwedAssumption == MaxOwed \in Nat \ {0}
ASSUME OperatorAssumption ==
  /\ LateInfo \in BOOLEAN
  /\ Commands \subseteq {"install", "enable", "disable", "uninstall", "force"}

VARIABLES
  ext,         \* the profile of each service in extManager (NoProfile: not there)
  row,         \* the row of each service in the table "services" (NoRow: none)
  registered,  \* services that have commands, events or hooks in the core's tables
  owed,        \* callbacks each service still has to send on its connection
  job          \* the handler of a service that waits inside callCommandSync

vars == <<ext, row, registered, owed, job>>

-----------------------------------------------------------------------------
(* Profiles (class ExtensionProfile) and what the core derives from them.  *)

Up == {"installed", "enabling", "enabled"}
States == {"absent", "notInstalled", "installing"} \cup Up
CEP == {"notRegistered", "registered"}

Profile == [state: States, reqSat: BOOLEAN, cep: CEP, conn: BOOLEAN,
            hasId: BOOLEAN, info: BOOLEAN]
Row == [state: {"absent"} \cup Up, cep: CEP, hasId: BOOLEAN, info: BOOLEAN]

NoProfile == [state |-> "absent", reqSat |-> FALSE, cep |-> "notRegistered",
              conn |-> FALSE, hasId |-> FALSE, info |-> FALSE]
NoRow == [state |-> "absent", cep |-> "notRegistered", hasId |-> FALSE, info |-> FALSE]

Present(e, s) == e[s].state # "absent"
Running(e, s) == e[s].state = "enabled" /\ e[s].conn /\ e[s].reqSat

\* requirements are known once the service's install info has been received
EnableRequirements(e, s) == IF e[s].info THEN EnableReq[s] ELSE {}
InstallRequirements(e, s) == IF e[s].info THEN InstallReq[s] ELSE {}
IsReqSatisfied(e, reqs) == \A r \in reqs : Running(e, r)

\* getByServiceType(UserManager), then elist[0]->isRunning()
IsUM(e, s) == s = UM /\ e[s].info
IsDB(e, s) == s = DB /\ e[s].info
UmRunning(e) == \E s \in Service : IsUM(e, s) /\ Running(e, s)

\* mutant: the filter of save() lets services through that are being installed
SaveInstalling(e) ==
  [s \in Service |->
     IF e[s].state \in Up \cup {"installing"}
     THEN [state |-> e[s].state, cep |-> e[s].cep, hasId |-> e[s].hasId, info |-> e[s].info]
     ELSE NoRow]

\* ExtensionManager::save() writes the whole list; load() reads it back
Save(e) ==
  [s \in Service |->
     IF e[s].state \in Up
     THEN [state |-> e[s].state, cep |-> e[s].cep, hasId |-> e[s].hasId, info |-> e[s].info]
     ELSE NoRow]
Load(r) ==
  [s \in Service |->
     IF r[s].state \in Up
     THEN [state |-> r[s].state, reqSat |-> FALSE, cep |-> r[s].cep,
           conn |-> FALSE, hasId |-> r[s].hasId, info |-> r[s].info]
     ELSE NoProfile]

-----------------------------------------------------------------------------
(* disableIfReqNotSatisfied() and disableService() call each other until   *)
(* every enabled service with reqSat set has all its requirements running. *)
(* What is left enabled does not depend on the order of the list: it is    *)
(* the largest set of services that can go on using each other (module     *)
(* RequirementCascade compares this with the recursion of the code).       *)

Believed(e) == {s \in Service : e[s].state = "enabled" /\ e[s].reqSat}

\* mutant: isRunning() does not look at the connection
SelfSupportingUnconnected(e, S) == \A s \in S : EnableRequirements(e, s) \subseteq S

SelfSupporting(e, S) ==
  \A s \in S : \A r \in EnableRequirements(e, s) : r \in S /\ e[r].conn

Kept(e) == UNION {S \in SUBSET Believed(e) : SelfSupporting(e, S)}

Cascaded(e) == Believed(e) \ Kept(e)

\* A cascaded service stays enabled: it now waits for its requirements.
DisableCascade(e) ==
  [s \in Service |-> IF s \in Cascaded(e) THEN [e[s] EXCEPT !.reqSat = FALSE] ELSE e[s]]

\* mutant: services are woken whatever they require
WokenUnchecked(e) == {s \in Service : e[s].state = "enabled" /\ e[s].conn /\ ~e[s].reqSat}

\* mutant: the loop looks for disabled services instead of waiting ones
WokenInstalled(e) ==
  {s \in Service : /\ e[s].state = "installed" /\ e[s].conn /\ ~e[s].reqSat
                   /\ IsReqSatisfied(e, EnableRequirements(e, s))}

\* enableIfReqSatisfied(): a woken service is enabling, hence not yet running,
\* so waking one satisfies nobody else and the loop wakes them all at once.
Woken(e) ==
  {s \in Service : /\ e[s].state = "enabled" /\ e[s].conn /\ ~e[s].reqSat
                   /\ IsReqSatisfied(e, EnableRequirements(e, s))}

EnableCascade(e) ==
  [s \in Service |->
     IF s \in Woken(e) THEN [e[s] EXCEPT !.reqSat = TRUE, !.state = "enabling"] ELSE e[s]]

-----------------------------------------------------------------------------
(* Waiting handlers.  While a job waits, its sync call is made in the name *)
(* of the service in "cur" and "left" are the services its loop has yet to *)
(* look at.  A call whose callback entry is gone is never answered: its    *)
(* thread spins for ever and takes no further step, so its job is dropped. *)

NoJob == [kind |-> "none", cur |-> {}, left |-> {}]
Job == [kind: {"none", "install", "enable", "tail"},
        cur: SUBSET Service, left: SUBSET Service]

Idle(s) == job[s].kind = "none"

\* comm.cleanup(t) erases the callbacks that t waits for and the nodes that t owns.
JobsWithout(cleaned) ==
  [s \in Service |-> IF job[s].cur \cap cleaned # {} THEN NoJob ELSE job[s]]

\* mutant: only the callbacks are erased
NodesKept(cleaned) == registered
NodesWithout(cleaned) == registered \ cleaned

NoneOwed == [onInstall |-> 0, onEnable |-> 0]
Owe(o, s, m) == [o EXCEPT ![s][m] = @ + 1]

TypeOK ==
  /\ ext \in [Service -> Profile]
  /\ row \in [Service -> Row]
  /\ registered \in SUBSET Service
  /\ owed \in [Service -> [onInstall: 0..MaxOwed, onEnable: 0..MaxOwed]]
  /\ job \in [Service -> Job]

Init ==
  /\ ext = [s \in Service |-> NoProfile]
  /\ row = [s \in Service |-> NoRow]
  /\ registered = {}
  /\ owed = [s \in Service |-> NoneOwed]
  /\ job = [s \in Service |-> NoJob]

-----------------------------------------------------------------------------
(* enableService(): called by the operator, by hello and by the cascade.   *)

\* mutant: a service that cannot be enabled yet stays disabled
MakeInstalled(e, s) == [e EXCEPT ![s].reqSat = FALSE, ![s].state = "installed"]

\* requirements not satisfied: the service waits, and nothing is saved
MakeWait(e, s) == [e EXCEPT ![s].reqSat = FALSE, ![s].state = "enabled"]
\* requirements satisfied: onEnable is sent (and dropped if s is not connected)
StartEnabling(e, s) == [e EXCEPT ![s].reqSat = TRUE, ![s].state = "enabling"]

EnableService(e, s, o) ==
  IF IsReqSatisfied(e, EnableRequirements(e, s))
  THEN /\ o[s].onEnable < MaxOwed
       /\ ext' = StartEnabling(e, s)
       /\ owed' = IF e[s].conn THEN Owe(o, s, "onEnable") ELSE o
       /\ row' = Save(StartEnabling(e, s))
  ELSE /\ ext' = MakeWait(e, s)
       /\ owed' = o
       /\ UNCHANGED row

-----------------------------------------------------------------------------
(* Connections and hello.                                                  *)

\* hello without an id, from a name the core does not know.  (If the name is
\* known the handler throws in extManager.add or refuses: no state changes.)
HelloNew(s) ==
  /\ ~Present(ext, s)
  /\ ext' = [ext EXCEPT ![s] = [NoProfile EXCEPT !.state = "notInstalled", !.conn = TRUE]]
  /\ owed' = [owed EXCEPT ![s] = NoneOwed]
  /\ UNCHANGED <<row, registered, job>>

\* hello with the right install id; it may come while an older connection of
\* the same service is still open, which from then on belongs to nobody.
HelloInstalled(s) ==
  /\ Present(ext, s) /\ ext[s].hasId
  /\ LET e == [ext EXCEPT ![s].conn = TRUE]
         o == [owed EXCEPT ![s] = NoneOwed]
     IN IF e[s].state = "enabled"
        THEN EnableService(e, s, o)
        ELSE ext' = e /\ owed' = o /\ UNCHANGED row
  /\ UNCHANGED <<registered, job>>

\* s no longer runs, which makes the profiles e: its nodes are cleaned up and the
\* cascade disables, and cleans up, whoever needed it
CascadeFrom(e, s) ==
  /\ ext' = DisableCascade(e)
  /\ registered' = NodesWithout({s} \cup Cascaded(e))
  /\ job' = JobsWithout({s} \cup Cascaded(e))

\* mutant: an installed service that is not enabled is removed too
DroppedOffByOne(p) == IF p.state \in Up \ {"installed"} THEN [p EXCEPT !.conn = FALSE] ELSE NoProfile
Dropped(p) == IF p.state \in Up THEN [p EXCEPT !.conn = FALSE] ELSE NoProfile

\* _onClientDisconnect: the peer closes, the connection breaks, or kickService.
Disconnect(s) ==
  /\ Present(ext, s) /\ ext[s].conn
  /\ LET e == [ext EXCEPT ![s] = Dropped(ext[s])]
     IN /\ CascadeFrom(e, s)
        /\ row' = IF Cascaded(e) = {} THEN row ELSE Save(ext')
  /\ owed' = [owed EXCEPT ![s] = NoneOwed]

\* The process ends (nothing deletes the Router, so nothing is saved) and starts again.
Restart ==
  /\ ext' = Load(row)
  /\ registered' = {}
  /\ owed' = [s \in Service |-> NoneOwed]
  /\ job' = [s \in Service |-> NoJob]
  /\ UNCHANGED row

\* _core.registerCommand / registerEvent / registerHook from a connected service
RegisterNodes(s) ==
  /\ ext[s].conn
  /\ registered' = registered \cup {s}
  /\ UNCHANGED <<ext, row, owed, job>>

\* callback getInstallInfo: the service says its type and its requirements.  The
\* diagram Service-States asks for them before onInstall, the code does not insist.
GotInstallInfo(s) ==
  /\ ext[s].conn
  /\ LateInfo \/ ext[s].state \notin Up
  /\ ext' = [ext EXCEPT ![s].info = TRUE]
  /\ row' = Save(ext')
  /\ UNCHANGED <<registered, owed, job>>

-----------------------------------------------------------------------------
(* Operator commands (CLI and _core.*Service).                             *)

Install(s) ==
  /\ Present(ext, s) /\ ext[s].state \notin Up
  /\ IsReqSatisfied(ext, InstallRequirements(ext, s))
  /\ owed[s].onInstall < MaxOwed
  /\ LateInfo \/ ext[s].info
  /\ ext' = [ext EXCEPT ![s].state = "installing", ![s].hasId = TRUE]
  /\ row' = Save(ext')
  /\ owed' = IF ext[s].conn THEN Owe(owed, s, "onInstall") ELSE owed
  /\ UNCHANGED <<registered, job>>

Enable(s) ==
  /\ ext[s].state \in Up
  /\ EnableService(ext, s, owed)
  /\ UNCHANGED <<registered, job>>

Disable(s) ==
  /\ ext[s].state = "enabled"
  /\ CascadeFrom([ext EXCEPT ![s].state = "installed"], s)
  /\ row' = Save(ext')
  /\ UNCHANGED owed

\* profiles after the part of uninstallService() that is about s alone
Forgotten(p) == [p EXCEPT !.state = "notInstalled", !.hasId = FALSE, !.cep = "notRegistered"]

\* A UM takes the registration of every service with it, a database their installation.
UninstalledWith(e, s) ==
  [t \in Service |->
     IF ~Present(e, t) THEN e[t]
     ELSE IF t = s \/ IsDB(e, s) THEN Forgotten(e[t])
     ELSE IF IsUM(e, s) THEN [e[t] EXCEPT !.cep = "notRegistered"]
     ELSE e[t]]

Uninstall(s) ==
  /\ ext[s].state \in Up
  /\ LET off == [ext EXCEPT ![s].state = "installed"]
         disables == ext[s].state = "enabled"
         cleaned == IF disables THEN {s} \cup Cascaded(off) ELSE {}
         e == UninstalledWith(IF disables THEN DisableCascade(off) ELSE ext, s)
     IN /\ ext' = e
        /\ row' = Save(e)
        /\ registered' = NodesWithout(cleaned)
        /\ job' = JobsWithout(cleaned)
  /\ UNCHANGED owed

\* The profile of a connected service that is not installed is deleted by the kick and
\* read once more (Router.cpp:714): the core may go down there, which Restart covers.
ForceUninstall(s) ==
  /\ Present(ext, s)
  /\ CascadeFrom([ext EXCEPT ![s] = NoProfile], s)
  /\ row' = Save(ext')
  /\ owed' = [owed EXCEPT ![s] = NoneOwed]

-----------------------------------------------------------------------------
(* Permission registration: registerCEP() and registerServiceCEPermissions. *)

Unregistered(e) == {t \in Service : e[t].state \in Up /\ e[t].cep # "registered"}

\* a sync call to "userman.registerPermission" leaves the core
CanRegister(e) == UmRunning(e) /\ UM \in registered

\* The thread of s starts to register t.  The calls of two threads for the same t
\* have the same ids (t#REG1, ...): the later may take over the earlier one's slot.
RegisterNext(s, kind, t, left) ==
  \E lost \in SUBSET {u \in Service \ {s} : job[u].cur = {t}} :
    job' = [u \in Service |->
              IF u = s THEN [kind |-> kind, cur |-> {t}, left |-> left]
              ELSE IF u \in lost THEN NoJob
              ELSE job[u]]

\* the rest of the onEnable handler: enableIfReqSatisfied(), and for a UM registerCEP() again
FinishEnable(e, s, o) ==
  LET woken == EnableCascade(e)
      tail == IsUM(woken, s) /\ Unregistered(woken) # {}
  IN /\ ext' = woken
     /\ \A t \in Woken(e) : o[t].onEnable < MaxOwed
     /\ owed' = [t \in Service |-> IF t \in Woken(e) THEN [o[t] EXCEPT !.onEnable = @ + 1]
                                                     ELSE o[t]]
     /\ IF tail /\ CanRegister(woken)
        THEN \E t \in Unregistered(woken) : RegisterNext(s, "tail", t, Service \ {t})
        ELSE job' = [job EXCEPT ![s] = NoJob]
     /\ row' = IF tail /\ Woken(e) = {} THEN row ELSE Save(woken)

\* UM has answered the last call for t, which the thread of s waits for
Registered(t) == [ext EXCEPT ![t].cep = "registered"]
Remaining(s, t) == job[s].left \cap Unregistered(Registered(t))

\* the loop of registerCEP() goes on
RegistersAnother(s, t) ==
  /\ CanRegister(Registered(t))
  /\ ext' = Registered(t)
  /\ \E u \in Remaining(s, t) : RegisterNext(s, job[s].kind, u, job[s].left \ {u})
  /\ UNCHANGED <<row, owed>>

\* UM no longer runs: registering the next one throws out of the handler
StopsRegistering(s, t) ==
  /\ Remaining(s, t) # {} /\ ~CanRegister(Registered(t))
  /\ ext' = Registered(t)
  /\ job' = [job EXCEPT ![s] = NoJob]
  /\ UNCHANGED <<row, owed>>

EndsRegistering(s, t) ==
  /\ Remaining(s, t) = {} /\ job[s].kind # "enable"
  /\ ext' = Registered(t)
  /\ row' = Save(ext')
  /\ job' = [job EXCEPT ![s] = NoJob]
  /\ UNCHANGED owed

EndsEnabling(s, t) ==
  /\ Remaining(s, t) = {} /\ job[s].kind = "enable"
  /\ FinishEnable(Registered(t), s, owed)

RegisterAnswered(s) ==
  /\ \E t \in job[s].cur :
       /\ ext[UM].conn
       /\ \/ RegistersAnother(s, t) \/ StopsRegistering(s, t)
          \/ EndsRegistering(s, t) \/ EndsEnabling(s, t)
  /\ UNCHANGED registered

\* UM answers with an error (a permission of that name exists): the answer is not a
\* number, and the exception leaves the handler without the rest of it
RegisterRefused(s) ==
  /\ job[s].cur # {} /\ ext[UM].conn
  /\ job' = [job EXCEPT ![s] = NoJob]
  /\ UNCHANGED <<ext, row, registered, owed>>

-----------------------------------------------------------------------------
(* Callbacks.  Neither handler looks at the state the service is in.       *)

Answered(s, m) == [owed EXCEPT ![s][m] = @ - 1]

OnInstallSucceeded(s) ==
  /\ ext[s].conn /\ owed[s].onInstall > 0 /\ Idle(s)
  /\ owed' = Answered(s, "onInstall")
  /\ LET e == [ext EXCEPT ![s].state = "installed"]
     IN \/ /\ CanRegister(e)                      \* s waits for UM
           /\ ext' = e /\ row' = Save(e)
           /\ RegisterNext(s, "install", s, {})
        \/ /\ UmRunning(e) /\ UM \notin registered    \* throws: no such command
           /\ ext' = e /\ row' = Save(e)
           /\ UNCHANGED job
        \/ /\ ~UmRunning(e)
           /\ ext' = [e EXCEPT ![s].cep = "notRegistered"]
           /\ row' = Save(ext')
           /\ UNCHANGED job
  /\ UNCHANGED registered

\* mutant: only a successful installation is saved
OnInstallFailedUnsaved(s) ==
  /\ ext[s].conn /\ owed[s].onInstall > 0
  /\ owed' = Answered(s, "onInstall")
  /\ ext' = [ext EXCEPT ![s].state = "notInstalled", ![s].hasId = FALSE]
  /\ UNCHANGED <<row, registered, job>>

OnInstallFailed(s) ==
  /\ ext[s].conn /\ owed[s].onInstall > 0
  /\ owed' = Answered(s, "onInstall")
  /\ ext' = [ext EXCEPT ![s].state = "notInstalled", ![s].hasId = FALSE]
  /\ row' = Save(ext')
  /\ UNCHANGED <<registered, job>>

\* permissions not registered yet, and UM there: s waits for UM
OnEnableRegisters(s) ==
  LET e == [ext EXCEPT ![s].state = "enabled"]
  IN /\ ext[s].conn /\ owed[s].onEnable > 0 /\ Idle(s)
     /\ ext[s].cep # "registered" /\ CanRegister(e)
     /\ ext' = e
     /\ owed' = Answered(s, "onEnable")
     /\ \E t \in Unregistered(e) : RegisterNext(s, "enable", t, Service \ {t})
     /\ UNCHANGED <<row, registered>>

\* permissions not registered yet, and no UM: registerCEP() throws out of the handler
OnEnableThrows(s) ==
  LET e == [ext EXCEPT ![s].state = "enabled"]
  IN /\ ext[s].conn /\ owed[s].onEnable > 0
     /\ ext[s].cep # "registered" /\ ~CanRegister(e)
     /\ ext' = e
     /\ owed' = Answered(s, "onEnable")
     /\ UNCHANGED <<row, registered, job>>

OnEnableSucceeded(s) ==
  LET e == [ext EXCEPT ![s].state = "enabled"]
  IN /\ ext[s].conn /\ owed[s].onEnable > 0 /\ Idle(s)
     /\ ext[s].cep = "registered"
     /\ FinishEnable(e, s, Answered(s, "onEnable"))
     /\ UNCHANGED registered

\* registerCEP() of a UM that is not enabled throws if anything is left to register
OnEnableFailed(s) ==
  LET e == [ext EXCEPT ![s].state = "installed"]
  IN /\ ext[s].conn /\ owed[s].onEnable > 0
     /\ ext' = e
     /\ owed' = Answered(s, "onEnable")
     /\ row' = IF IsUM(e, s) /\ Unregistered(e) # {} THEN row ELSE Save(e)
     /\ UNCHANGED <<registered, job>>

-----------------------------------------------------------------------------
Network(s) == HelloNew(s) \/ HelloInstalled(s) \/ Disconnect(s)

Operator(s) ==
  \/ "install" \in Commands /\ Install(s)
  \/ "enable" \in Commands /\ Enable(s)
  \/ "disable" \in Commands /\ Disable(s)
  \/ "uninstall" \in Commands /\ Uninstall(s)
  \/ "force" \in Commands /\ ForceUninstall(s)

Callback(s) ==
  \/ RegisterNodes(s) \/ GotInstallInfo(s)
  \/ OnInstallSucceeded(s) \/ OnInstallFailed(s)
  \/ OnEnableRegisters(s) \/ OnEnableThrows(s) \/ OnEnableSucceeded(s) \/ OnEnableFailed(s)
  \/ RegisterAnswered(s) \/ RegisterRefused(s)

Next == Restart \/ \E s \in Service : Network(s) \/ Operator(s) \/ Callback(s)

Spec == Init /\ [][Next]_vars

-----------------------------------------------------------------------------
\* What is in the table "services" is installed: after a crash no service comes
\* back that has been uninstalled, and no row carries a stale install id.  Every
\* handler that ends an installation has to reach its save (Router.cpp:225-229,
\* 750-763, 716) and the filter of ExtensionManager.hpp:135 has to match.
RowsAreInstalled ==
  \A s \in Service : row[s].state # "absent" =>
    ext[s].state \in Up /\ row[s].hasId = ext[s].hasId

\* A name in the command, event and hook tables is that of a connected profile:
\* sendMessage() (Router.cpp:327) dereferences extManager[extension] unchecked.
NodesHaveProfile == \A s \in registered : Present(ext, s) /\ ext[s].conn

\* When a connection goes away no service is left running on a requirement that
\* does not run, whatever happened before (disableIfReqNotSatisfied, Router.cpp:929).
Settled(e) == \A s \in Service : Running(e, s) => IsReqSatisfied(e, EnableRequirements(e, s))
LostConnectionSettles ==
  [][(\E s \in Service : ext[s].conn /\ ~ext'[s].conn) => Settled(ext')]_vars

\* A service begins to be enabled only in a state where its requirements run
\* (enableService after hello, after a cascade or by command, Router.cpp:486-517).
EnablingIsJustified ==
  [][\/ Restart
     \/ \A s \in Service : ext'[s].state = "enabling" /\ ext[s].state # "enabling"
           => IsReqSatisfied(ext', EnableRequirements(ext', s))]_vars

\* a service that waits although it could be enabled, with no request on its way
Missed(e, s) ==
  /\ e[s].state = "enabled" /\ e[s].conn /\ ~e[s].reqSat
  /\ IsReqSatisfied(e, EnableRequirements(e, s))

\* When the onEnable handler of a registered service runs to its end, every connected
\* service that was waiting for it is woken (enableIfReqSatisfied, Router.cpp:917).
StartWakesDependents ==
  [][\A s \in Service : ~Running(ext, s) /\ Running(ext', s) /\ ext[s].cep = "registered"
        => \A t \in Service : ~Missed(ext', t)]_vars

\* An installed service leaves the profile list only by force (the diagram
\* Service-States keeps installed services when they disconnect) or by a crash
\* between a change and its save.
InstalledIsKept ==
  [][\A s \in Service : ext[s].state \in Up /\ ~Present(ext', s)
        => ForceUninstall(s) \/ (Restart /\ row[s].state = "absent")]_vars

\* What the diagram Service-States says of state 1, "changes only with commands
\* (Install,Uninstall)" (line 855): a service whose install id has been withdrawn stays
\* uninstalled.  The callbacks onInstall and onEnable do not look (Router.cpp:205-244).
InstalledHasId == \A s \in Service : ext[s].state \in Up => ext[s].hasId

\* "NotInstalled & Installing services are removed on exit" (Service-States, line 869):
\* such a profile belongs to a connection, and a later hello of that name may add it anew.
NotInstalledIsConnected ==
  \A s \in Service : ext[s].state \in {"notInstalled", "installing"} => ext[s].conn
=============================================================================
