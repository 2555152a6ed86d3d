----------------------- MODULE ServiceLifecycle_proofs -----------------------
(***************************************************************************)
(* Theorems about ServiceLifecycle, for every set of services and every    *)
(* requirement graph, and about RequirementCascade, for every number of    *)
(* threads and every order of the list as well.                            *)
(***************************************************************************)
EXTENDS RequirementCascade, FiniteSetTheorems, FunctionTheorems, SequenceTheorems, TLAPS

-----------------------------------------------------------------------------
(* What the operators of the model yield.                                  *)

Profiles == [Service -> Profile]
Rows == [Service -> Row]

\* save() writes rows of the table's type, whatever the profiles
LEMMA SaveType == ASSUME NEW e \in Profiles PROVE Save(e) \in Rows
BY DEF Save, NoRow, Profiles, Rows, Profile, Row, Up, CEP, States

\* load() makes profiles of what save() wrote
LEMMA LoadType == ASSUME NEW r \in Rows PROVE Load(r) \in Profiles
BY DEF Load, NoProfile, Profiles, Rows, Profile, Row, Up, CEP, States

\* a saved row has an installed service and its install id (ExtensionManager.hpp:135-143)
LEMMA SavedIsInstalled ==
  ASSUME NEW e \in Profiles, NEW s \in Service, Save(e)[s].state # "absent"
  PROVE e[s].state \in Up /\ Save(e)[s].hasId = e[s].hasId
BY DEF Save, NoRow, Profiles, Profile

\* the cascade changes nothing but reqSat
LEMMA DisableCascadeKeeps ==
  ASSUME NEW e \in Profiles
  PROVE /\ DisableCascade(e) \in Profiles
        /\ \A s \in Service : /\ DisableCascade(e)[s].state = e[s].state
                              /\ DisableCascade(e)[s].cep = e[s].cep
                              /\ DisableCascade(e)[s].conn = e[s].conn
                              /\ DisableCascade(e)[s].hasId = e[s].hasId
                              /\ DisableCascade(e)[s].info = e[s].info
BY DEF DisableCascade, Profiles, Profile

\* waking changes nothing but reqSat and the state of what was enabled
LEMMA EnableCascadeKeeps ==
  ASSUME NEW e \in Profiles
  PROVE /\ EnableCascade(e) \in Profiles
        /\ \A s \in Service : /\ (e[s].state \in Up => EnableCascade(e)[s].state \in Up)
                              /\ (e[s].state \notin Up => EnableCascade(e)[s].state = e[s].state)
                              /\ EnableCascade(e)[s].conn = e[s].conn
                              /\ EnableCascade(e)[s].hasId = e[s].hasId
BY DEF EnableCascade, Woken, Profiles, Profile, States, Up

\* What is kept keeps itself: the union of self-supporting sets is self-supporting.
LEMMA KeptIsSelfSupporting ==
  ASSUME NEW e \in Profiles
  PROVE Kept(e) \subseteq Believed(e) /\ SelfSupporting(e, Kept(e))
<1>1. Kept(e) \subseteq Believed(e)
  BY DEF Kept
<1>2. ASSUME NEW s \in Kept(e), NEW r \in EnableRequirements(e, s)
      PROVE r \in Kept(e) /\ e[r].conn
  <2>1. PICK S \in SUBSET Believed(e) : SelfSupporting(e, S) /\ s \in S
    BY <1>2 DEF Kept
  <2>2. r \in S /\ e[r].conn
    BY <1>2, <2>1 DEF SelfSupporting
  <2> QED
    BY <2>1, <2>2 DEF Kept
<1> QED
  BY <1>1, <1>2 DEF SelfSupporting

\* After disableIfReqNotSatisfied() whatever runs has its requirements running, in any
\* state it may be called in (Router.cpp:929-942).
LEMMA DisableCascadeSettles ==
  ASSUME NEW e \in Profiles
  PROVE Settled(DisableCascade(e))
<1> DEFINE d == DisableCascade(e)
<1>1. ASSUME NEW s \in Service PROVE /\ s \in Cascaded(e) => ~d[s].reqSat
                                     /\ s \notin Cascaded(e) => d[s] = e[s]
  BY DEF DisableCascade, Profiles, Profile
<1>2. ASSUME NEW s \in Service, Running(d, s), NEW r \in EnableRequirements(d, s)
      PROVE Running(d, r)
  <2>1. s \in Kept(e)
    BY <1>1, <1>2 DEF Running, Cascaded, Believed
  <2>2. r \in EnableRequirements(e, s)
    BY <1>2, DisableCascadeKeeps DEF EnableRequirements
  <2>3. r \in Kept(e) /\ e[r].conn
    BY <2>1, <2>2, KeptIsSelfSupporting DEF SelfSupporting
  <2>4. r \in Service /\ e[r].state = "enabled" /\ e[r].reqSat
    BY <2>3, KeptIsSelfSupporting DEF Believed
  <2>5. d[r] = e[r]
    BY <1>1, <2>3, <2>4 DEF Cascaded
  <2> QED
    BY <2>3, <2>4, <2>5 DEF Running
<1> QED
  BY <1>2 DEF Settled, IsReqSatisfied

-----------------------------------------------------------------------------
(* Type correctness.                                                       *)

Owes == [Service -> [onInstall: 0..MaxOwed, onEnable: 0..MaxOwed]]
Jobs == [Service -> Job]

LEMMA OweType ==
  ASSUME NEW o \in Owes, NEW s \in Service
  PROVE /\ [o EXCEPT ![s] = NoneOwed] \in Owes
        /\ o[s].onInstall < MaxOwed => Owe(o, s, "onInstall") \in Owes
        /\ o[s].onEnable < MaxOwed => Owe(o, s, "onEnable") \in Owes
<1> USE MaxOwedAssumption DEF Owes, NoneOwed, Owe
<1>1. [o EXCEPT ![s] = NoneOwed] \in Owes
  OBVIOUS
<1>2. ASSUME o[s].onInstall < MaxOwed PROVE Owe(o, s, "onInstall") \in Owes
  BY <1>2
<1>3. ASSUME o[s].onEnable < MaxOwed PROVE Owe(o, s, "onEnable") \in Owes
  BY <1>3
<1> QED
  BY <1>1, <1>2, <1>3

LEMMA AnsweredType ==
  ASSUME owed \in Owes, NEW s \in Service
  PROVE /\ owed[s].onInstall > 0 => Answered(s, "onInstall") \in Owes
        /\ owed[s].onEnable > 0 => Answered(s, "onEnable") \in Owes
<1> USE MaxOwedAssumption DEF Owes, Answered
<1>1. ASSUME owed[s].onInstall > 0 PROVE Answered(s, "onInstall") \in Owes
  BY <1>1
<1>2. ASSUME owed[s].onEnable > 0 PROVE Answered(s, "onEnable") \in Owes
  BY <1>2
<1> QED
  BY <1>1, <1>2

\* _onClientDisconnect leaves a profile without a connection, or none
LEMMA DroppedType ==
  ASSUME ext \in Profiles, NEW s \in Service
  PROVE  /\ [ext EXCEPT ![s] = Dropped(ext[s])] \in Profiles
         /\ ~Dropped(ext[s]).conn
         /\ ext[s].state \in Up => /\ Dropped(ext[s]).state = ext[s].state
                                   /\ Dropped(ext[s]).hasId = ext[s].hasId
<1>1. NoProfile \in Profile
  BY DEF NoProfile, Profile, States, CEP
<1>2. [ext[s] EXCEPT !.conn = FALSE] \in Profile
  BY DEF Profiles, Profile
<1>3. Dropped(ext[s]) \in Profile
  BY <1>1, <1>2 DEF Dropped
<1>4. [ext EXCEPT ![s] = Dropped(ext[s])] \in Profiles
  BY <1>3 DEF Profiles
<1>5. ~Dropped(ext[s]).conn
  BY DEF Dropped, NoProfile, Profiles, Profile
<1>6. ext[s].state \in Up => /\ Dropped(ext[s]).state = ext[s].state
                             /\ Dropped(ext[s]).hasId = ext[s].hasId
  BY DEF Dropped, Profiles, Profile
<1> QED
  BY <1>4, <1>5, <1>6

LEMMA EnableServiceType ==
  ASSUME TypeOK, NEW e \in Profiles, NEW s \in Service, NEW o \in Owes, EnableService(e, s, o)
  PROVE ext' \in Profiles /\ owed' \in Owes /\ row' \in Rows
<1>0. [e[s] EXCEPT !.reqSat = FALSE, !.state = "enabled"] \in Profile
      /\ [e[s] EXCEPT !.reqSat = TRUE, !.state = "enabling"] \in Profile
  BY DEF Profiles, Profile, States, Up
<1>1. MakeWait(e, s) \in Profiles /\ StartEnabling(e, s) \in Profiles
  BY <1>0 DEF MakeWait, StartEnabling, Profiles
<1>2. CASE IsReqSatisfied(e, EnableRequirements(e, s))
  BY <1>1, <1>2, SaveType, OweType DEF EnableService
<1>3. CASE ~IsReqSatisfied(e, EnableRequirements(e, s))
  BY <1>1, <1>3 DEF EnableService, TypeOK, Rows
<1> QED
  BY <1>2, <1>3

LEMMA JobsWithoutType ==
  ASSUME job \in Jobs, NEW cleaned PROVE JobsWithout(cleaned) \in Jobs
BY DEF JobsWithout, Jobs, Job, NoJob

LEMMA RegisterNextType ==
  ASSUME job \in Jobs, NEW s \in Service, NEW kind \in {"none", "install", "enable", "tail"},
         NEW t \in Service, NEW left \in SUBSET Service, RegisterNext(s, kind, t, left)
  PROVE job' \in Jobs
BY DEF RegisterNext, Jobs, Job, NoJob

LEMMA FinishEnableType ==
  ASSUME TypeOK, NEW e \in Profiles, NEW s \in Service, NEW o \in Owes, FinishEnable(e, s, o)
  PROVE ext' \in Profiles /\ owed' \in Owes /\ row' \in Rows /\ job' \in Jobs
<1>1. ext' \in Profiles
  BY EnableCascadeKeeps DEF FinishEnable
<1>2. row' \in Rows
  BY SaveType, EnableCascadeKeeps DEF FinishEnable, TypeOK, Rows
<1>3. owed' \in Owes
  <2>1. \A t \in Woken(e) : o[t].onEnable < MaxOwed
    BY DEF FinishEnable
  <2>2. owed' = [t \in Service |-> IF t \in Woken(e) THEN [o[t] EXCEPT !.onEnable = @ + 1]
                                                     ELSE o[t]]
    BY DEF FinishEnable
  <2> QED
    BY <2>1, <2>2, MaxOwedAssumption DEF Owes
<1>4. job' \in Jobs
  <2>1. job \in Jobs
    BY DEF TypeOK, Jobs
  <2>2. CASE job' = [job EXCEPT ![s] = NoJob]
    BY <2>1, <2>2 DEF Jobs, Job, NoJob
  <2>3. ASSUME NEW t \in Unregistered(EnableCascade(e)),
               RegisterNext(s, "tail", t, Service \ {t})
        PROVE job' \in Jobs
    BY <2>1, <2>3, RegisterNextType DEF Unregistered
  <2> QED
    BY <2>2, <2>3 DEF FinishEnable
<1> QED
  BY <1>1, <1>2, <1>3, <1>4

LEMMA InitType == Init => TypeOK
BY MaxOwedAssumption DEF Init, TypeOK, NoProfile, NoRow, NoneOwed, NoJob, Profile, Row, Job,
                         States, CEP, Up

LEMMA StepType == TypeOK /\ [Next]_vars => TypeOK'
<1> SUFFICES ASSUME TypeOK, [Next]_vars PROVE TypeOK'
  OBVIOUS
<1> USE DEF Profiles, Rows, Owes, Jobs
<1>t. ext \in Profiles /\ row \in Rows /\ registered \in SUBSET Service /\ owed \in Owes /\ job \in Jobs
  BY DEF TypeOK
<1>g. ASSUME ext' \in Profiles, row' \in Rows, registered' \in SUBSET Service,
             owed' \in Owes, job' \in Jobs
      PROVE TypeOK'
  BY <1>g DEF TypeOK
<1>1. CASE Restart
  <2>1. owed' \in Owes /\ job' \in Jobs
    BY <1>1, MaxOwedAssumption DEF Restart, NoneOwed, NoJob, Job
  <2> QED
    BY <1>1, <1>t, <1>g, <2>1, LoadType DEF Restart
<1>2. ASSUME NEW s \in Service, HelloNew(s) PROVE TypeOK'
  <2>1. ext' \in Profiles
    <3>1. NoProfile \in Profile
      BY DEF NoProfile, Profile, States, CEP
    <3>2. [NoProfile EXCEPT !.state = "notInstalled", !.conn = TRUE] \in Profile
      BY <3>1 DEF Profile, States
    <3> QED
      BY <1>2, <1>t, <3>2 DEF HelloNew
  <2> QED
    BY <1>2, <1>t, <1>g, <2>1, OweType DEF HelloNew
<1>3. ASSUME NEW s \in Service, HelloInstalled(s) PROVE TypeOK'
  <2> DEFINE e == [ext EXCEPT ![s].conn = TRUE]
             o == [owed EXCEPT ![s] = NoneOwed]
  <2>1. e \in Profiles /\ o \in Owes
    <3>1. e \in Profiles
      BY <1>t DEF Profile
    <3>2. o \in Owes
      BY <1>t, OweType
    <3> QED
      BY <3>1, <3>2
  <2>2. CASE EnableService(e, s, o)
    BY <1>3, <1>t, <1>g, <2>1, <2>2, EnableServiceType DEF HelloInstalled
  <2>3. CASE ext' = e /\ owed' = o /\ UNCHANGED row
    BY <1>3, <1>t, <1>g, <2>1, <2>3 DEF HelloInstalled
  <2> QED
    BY <1>3, <2>2, <2>3 DEF HelloInstalled
<1>4. ASSUME NEW s \in Service, Disconnect(s) PROVE TypeOK'
  <2> DEFINE e == [ext EXCEPT ![s] = Dropped(ext[s])]
  <2>1. e \in Profiles
    BY <1>t, DroppedType
  <2>2. DisableCascade(e) \in Profiles /\ Save(DisableCascade(e)) \in Rows
    BY <2>1, DisableCascadeKeeps, SaveType
  <2> QED
    BY <1>4, <1>t, <1>g, <2>2, OweType, JobsWithoutType DEF Disconnect, CascadeFrom, NodesWithout
<1>5. ASSUME NEW s \in Service, RegisterNodes(s) PROVE TypeOK'
  BY <1>5, <1>t, <1>g DEF RegisterNodes
<1>6. ASSUME NEW s \in Service, GotInstallInfo(s) PROVE TypeOK'
  <2>1. ext' \in Profiles
    BY <1>6, <1>t DEF GotInstallInfo, Profile
  <2> QED
    BY <1>6, <1>t, <1>g, <2>1, SaveType DEF GotInstallInfo
<1>7. ASSUME NEW s \in Service, Install(s) PROVE TypeOK'
  <2>1. ext' \in Profiles
    BY <1>7, <1>t DEF Install, Profile, States
  <2> QED
    BY <1>7, <1>t, <1>g, <2>1, SaveType, OweType DEF Install
<1>8. ASSUME NEW s \in Service, Enable(s) PROVE TypeOK'
  BY <1>8, <1>t, <1>g, EnableServiceType DEF Enable
<1>9. ASSUME NEW s \in Service, Disable(s) PROVE TypeOK'
  <2> DEFINE e == [ext EXCEPT ![s].state = "installed"]
  <2>1. e \in Profiles
    BY <1>t DEF Profile, States, Up
  <2>2. DisableCascade(e) \in Profiles /\ Save(DisableCascade(e)) \in Rows
    BY <2>1, DisableCascadeKeeps, SaveType
  <2> QED
    BY <1>9, <1>t, <1>g, <2>2, JobsWithoutType DEF Disable, CascadeFrom, NodesWithout
<1>10. ASSUME NEW s \in Service, Uninstall(s) PROVE TypeOK'
  <2> DEFINE off == [ext EXCEPT ![s].state = "installed"]
             cleaned == IF ext[s].state = "enabled" THEN {s} \cup Cascaded(off) ELSE {}
             e == IF ext[s].state = "enabled" THEN DisableCascade(off) ELSE ext
  <2>1. off \in Profiles
    BY <1>t DEF Profile, States, Up
  <2>2. e \in Profiles
    BY <1>t, <2>1, DisableCascadeKeeps
  <2>3. UninstalledWith(e, s) \in Profiles
    BY <2>2 DEF UninstalledWith, Forgotten, Profile, States, CEP
  <2>4. /\ ext' = UninstalledWith(e, s) /\ row' = Save(UninstalledWith(e, s))
        /\ registered' = registered \ cleaned /\ job' = JobsWithout(cleaned)
        /\ owed' = owed
    BY <1>10 DEF Uninstall, NodesWithout
  <2> HIDE DEF e, cleaned
  <2> QED
    BY <1>t, <1>g, <2>3, <2>4, SaveType, JobsWithoutType
<1>11. ASSUME NEW s \in Service, ForceUninstall(s) PROVE TypeOK'
  <2> DEFINE e == [ext EXCEPT ![s] = NoProfile]
  <2>1. e \in Profiles
    BY <1>t DEF Profile, NoProfile, States, CEP
  <2>2. DisableCascade(e) \in Profiles /\ Save(DisableCascade(e)) \in Rows
    BY <2>1, DisableCascadeKeeps, SaveType
  <2> QED
    BY <1>11, <1>t, <1>g, <2>2, OweType, JobsWithoutType DEF ForceUninstall, CascadeFrom, NodesWithout
<1>12. ASSUME NEW s \in Service, OnInstallSucceeded(s) PROVE TypeOK'
  <2> DEFINE e == [ext EXCEPT ![s].state = "installed"]
  <2>0. e \in Profiles
    BY <1>t DEF Profile, States, Up
  <2>1. e \in Profiles /\ [e EXCEPT ![s].cep = "notRegistered"] \in Profiles
    <3> HIDE DEF e
    <3> QED
      BY <2>0 DEF Profiles, Profile, CEP
  <2>2. ext' \in Profiles /\ row' \in Rows
    <3>1. ext' \in {e, [e EXCEPT ![s].cep = "notRegistered"]} /\ row' = Save(ext')
      BY <1>12 DEF OnInstallSucceeded
    <3> QED
      BY <2>1, <3>1, SaveType
  <2>3. job' \in Jobs
    BY <1>12, <1>t, RegisterNextType DEF OnInstallSucceeded
  <2>4. owed' \in Owes /\ registered' = registered
    BY <1>12, <1>t, AnsweredType DEF OnInstallSucceeded
  <2> QED
    BY <1>t, <1>g, <2>2, <2>3, <2>4
<1>13. ASSUME NEW s \in Service, OnInstallFailed(s) PROVE TypeOK'
  <2>1. ext' \in Profiles
    BY <1>13, <1>t DEF OnInstallFailed, Profile, States
  <2> QED
    BY <1>13, <1>t, <1>g, <2>1, SaveType, AnsweredType DEF OnInstallFailed
<1>14. ASSUME NEW s \in Service, OnEnableRegisters(s) PROVE TypeOK'
  <2>1. ext' \in Profiles
    BY <1>14, <1>t DEF OnEnableRegisters, Profile, States, Up
  <2>2. job' \in Jobs
    BY <1>14, <1>t, RegisterNextType DEF OnEnableRegisters, Unregistered
  <2> QED
    BY <1>14, <1>t, <1>g, <2>1, <2>2, AnsweredType DEF OnEnableRegisters
<1>15. ASSUME NEW s \in Service, OnEnableThrows(s) PROVE TypeOK'
  <2>1. ext' \in Profiles
    BY <1>15, <1>t DEF OnEnableThrows, Profile, States, Up
  <2> QED
    BY <1>15, <1>t, <1>g, <2>1, AnsweredType DEF OnEnableThrows
<1>16. ASSUME NEW s \in Service, OnEnableSucceeded(s) PROVE TypeOK'
  <2> DEFINE e == [ext EXCEPT ![s].state = "enabled"]
  <2>1. e \in Profiles
    BY <1>t DEF Profile, States, Up
  <2>2. Answered(s, "onEnable") \in Owes
    BY <1>16, <1>t, AnsweredType DEF OnEnableSucceeded
  <2>3. FinishEnable(e, s, Answered(s, "onEnable")) /\ registered' = registered
    BY <1>16 DEF OnEnableSucceeded
  <2> HIDE DEF e
  <2> QED
    BY <1>t, <1>g, <2>1, <2>2, <2>3, FinishEnableType
<1>17. ASSUME NEW s \in Service, OnEnableFailed(s) PROVE TypeOK'
  <2> DEFINE e == [ext EXCEPT ![s].state = "installed"]
  <2>1. e \in Profiles
    BY <1>t DEF Profile, States, Up
  <2> QED
    BY <1>17, <1>t, <1>g, <2>1, SaveType, AnsweredType DEF OnEnableFailed
<1>18. ASSUME NEW s \in Service, RegisterAnswered(s) PROVE TypeOK'
  <2>1. PICK t \in job[s].cur : \/ RegistersAnother(s, t) \/ StopsRegistering(s, t)
                                \/ EndsRegistering(s, t) \/ EndsEnabling(s, t)
    BY <1>18 DEF RegisterAnswered
  <2>2. t \in Service /\ job[s] \in Job
    BY <1>t, <2>1 DEF Job
  <2>3. Registered(t) \in Profiles /\ registered' = registered
    BY <1>18, <1>t, <2>2 DEF Registered, RegisterAnswered, Profile, CEP
  <2>4. CASE RegistersAnother(s, t)
    <3>1. PICK u \in Remaining(s, t) : RegisterNext(s, job[s].kind, u, job[s].left \ {u})
      BY <2>4 DEF RegistersAnother
    <3>2. u \in Service /\ job[s].left \ {u} \in SUBSET Service
          /\ job[s].kind \in {"none", "install", "enable", "tail"}
      BY <2>2 DEF Remaining, Job
    <3>3. job' \in Jobs
      BY <1>t, <3>1, <3>2, RegisterNextType
    <3> QED
      BY <1>t, <1>g, <2>3, <2>4, <3>3 DEF RegistersAnother
  <2>5. CASE StopsRegistering(s, t)
    BY <1>t, <1>g, <2>3, <2>5 DEF StopsRegistering, Job, NoJob
  <2>6. CASE EndsRegistering(s, t)
    BY <1>t, <1>g, <2>3, <2>6, SaveType DEF EndsRegistering, Job, NoJob
  <2>7. CASE EndsEnabling(s, t)
    BY <1>t, <1>g, <2>3, <2>7, FinishEnableType DEF EndsEnabling
  <2> QED
    BY <2>1, <2>4, <2>5, <2>6, <2>7
<1>19. ASSUME NEW s \in Service, RegisterRefused(s) PROVE TypeOK'
  BY <1>19, <1>t, <1>g DEF RegisterRefused, Job, NoJob
<1>20. CASE UNCHANGED vars
  BY <1>20, <1>t, <1>g DEF vars
<1> QED
  BY <1>1, <1>2, <1>3, <1>4, <1>5, <1>6, <1>7, <1>8, <1>9, <1>10, <1>11, <1>12, <1>13, <1>14,
     <1>15, <1>16, <1>17, <1>18, <1>19, <1>20 DEF Next, Network, Operator, Callback

\* Every variable keeps its type, for every set of services and every requirement graph.
THEOREM TypeCorrect == Spec => []TypeOK
BY InitType, StepType, PTL DEF Spec

-----------------------------------------------------------------------------
(* The table "services" holds installed services only.                     *)

\* the services installed in e are so in f, with the same install id
KeepsInstalled(e, f) ==
  \A s \in Service : e[s].state \in Up => f[s].state \in Up /\ f[s].hasId = e[s].hasId

\* a handler either saves the profiles it leaves behind, or withdraws no installation
LEMMA RowsStep ==
  ASSUME TypeOK, TypeOK', RowsAreInstalled,
         \/ row' = Save(ext')
         \/ row' = row /\ KeepsInstalled(ext, ext')
  PROVE  RowsAreInstalled'
<1>1. CASE row' = Save(ext')
  BY <1>1, SavedIsInstalled DEF RowsAreInstalled, TypeOK, Profiles
<1>2. CASE row' = row /\ KeepsInstalled(ext, ext')
  BY <1>2 DEF RowsAreInstalled, KeepsInstalled
<1> QED
  BY <1>1, <1>2

LEMMA EnableServiceRows ==
  ASSUME NEW e \in Profiles, NEW s \in Service, NEW o, EnableService(e, s, o),
         e[s].state \in Up
  PROVE  row' = Save(ext') \/ (row' = row /\ KeepsInstalled(e, ext'))
<1>1. CASE IsReqSatisfied(e, EnableRequirements(e, s))
  BY <1>1 DEF EnableService
<1>2. CASE ~IsReqSatisfied(e, EnableRequirements(e, s))
  BY <1>2 DEF EnableService, MakeWait, KeepsInstalled, Profiles, Profile, Up
<1> QED
  BY <1>1, <1>2

LEMMA FinishEnableRows ==
  ASSUME NEW e \in Profiles, NEW s \in Service, NEW o, FinishEnable(e, s, o)
  PROVE  row' = Save(ext') \/ (row' = row /\ KeepsInstalled(e, ext'))
BY EnableCascadeKeeps DEF FinishEnable, KeepsInstalled

LEMMA InitRows == Init => RowsAreInstalled
BY DEF Init, RowsAreInstalled, NoRow

LEMMA StepRows == TypeOK /\ TypeOK' /\ RowsAreInstalled /\ [Next]_vars => RowsAreInstalled'
<1> SUFFICES ASSUME TypeOK, TypeOK', RowsAreInstalled, [Next]_vars PROVE RowsAreInstalled'
  OBVIOUS
<1>t. ext \in Profiles /\ ext' \in Profiles /\ row \in Rows
  BY DEF TypeOK, Profiles, Rows
<1>1. CASE Restart
  BY <1>1, <1>t DEF Restart, Load, RowsAreInstalled, Rows, Row
<1>2. ASSUME NEW s \in Service, HelloNew(s) PROVE RowsAreInstalled'
  BY <1>2, <1>t, RowsStep DEF HelloNew, Present, KeepsInstalled, Profiles, Profile, Up
<1>3. ASSUME NEW s \in Service, HelloInstalled(s) PROVE RowsAreInstalled'
  <2> DEFINE e == [ext EXCEPT ![s].conn = TRUE]
  <2>1. e \in Profiles /\ KeepsInstalled(ext, e)
    <3>1. e \in Profiles
      BY <1>t DEF Profiles, Profile
    <3>2. \A t \in Service : e[t].state = ext[t].state /\ e[t].hasId = ext[t].hasId
      BY <1>t DEF Profiles, Profile
    <3> QED
      BY <3>1, <3>2 DEF KeepsInstalled
  <2>2. CASE e[s].state = "enabled" /\ EnableService(e, s, [owed EXCEPT ![s] = NoneOwed])
    <3>1. row' = Save(ext') \/ (row' = row /\ KeepsInstalled(e, ext'))
      BY <2>1, <2>2, EnableServiceRows DEF Up
    <3> QED
      BY <2>1, <3>1, RowsStep DEF KeepsInstalled
  <2>3. CASE ext' = e /\ row' = row
    BY <2>1, <2>3, RowsStep
  <2> QED
    BY <1>3, <2>2, <2>3 DEF HelloInstalled
<1>4. ASSUME NEW s \in Service, Disconnect(s) PROVE RowsAreInstalled'
  <2> DEFINE e == [ext EXCEPT ![s] = Dropped(ext[s])]
  <2>1. /\ ext' = DisableCascade(e)
        /\ row' = IF Cascaded(e) = {} THEN row ELSE Save(DisableCascade(e))
    BY <1>4 DEF Disconnect, CascadeFrom, NodesWithout
  <2>2. e \in Profiles
    BY <1>t, DroppedType
  <2>3. KeepsInstalled(ext, e)
    BY <1>t, DroppedType DEF KeepsInstalled, Profiles
  <2>4. KeepsInstalled(ext, ext')
    <3> HIDE DEF e
    <3> QED
      BY <2>1, <2>2, <2>3, DisableCascadeKeeps DEF KeepsInstalled
  <2> QED
    BY <2>1, <2>4, RowsStep
<1>5. ASSUME NEW s \in Service, RegisterNodes(s) PROVE RowsAreInstalled'
  BY <1>5, RowsStep DEF RegisterNodes, KeepsInstalled
<1>6. ASSUME NEW s \in Service, GotInstallInfo(s) PROVE RowsAreInstalled'
  BY <1>6, RowsStep DEF GotInstallInfo
<1>7. ASSUME NEW s \in Service, Install(s) PROVE RowsAreInstalled'
  BY <1>7, RowsStep DEF Install
<1>8. ASSUME NEW s \in Service, Enable(s) PROVE RowsAreInstalled'
  BY <1>8, <1>t, EnableServiceRows, RowsStep DEF Enable
<1>9. ASSUME NEW s \in Service, Disable(s) PROVE RowsAreInstalled'
  BY <1>9, RowsStep DEF Disable, CascadeFrom, NodesWithout
<1>10. ASSUME NEW s \in Service, Uninstall(s) PROVE RowsAreInstalled'
  BY <1>10, RowsStep DEF Uninstall, NodesWithout
<1>11. ASSUME NEW s \in Service, ForceUninstall(s) PROVE RowsAreInstalled'
  BY <1>11, RowsStep DEF ForceUninstall, CascadeFrom, NodesWithout
<1>12. ASSUME NEW s \in Service, OnInstallSucceeded(s) PROVE RowsAreInstalled'
  BY <1>12, RowsStep DEF OnInstallSucceeded
<1>13. ASSUME NEW s \in Service, OnInstallFailed(s) PROVE RowsAreInstalled'
  BY <1>13, RowsStep DEF OnInstallFailed
<1>14. ASSUME NEW s \in Service, OnEnableRegisters(s) PROVE RowsAreInstalled'
  BY <1>14, <1>t, RowsStep DEF OnEnableRegisters, KeepsInstalled, Profiles, Profile, Up
<1>15. ASSUME NEW s \in Service, OnEnableThrows(s) PROVE RowsAreInstalled'
  BY <1>15, <1>t, RowsStep DEF OnEnableThrows, KeepsInstalled, Profiles, Profile, Up
<1>16. ASSUME NEW s \in Service, OnEnableSucceeded(s) PROVE RowsAreInstalled'
  <2> DEFINE e == [ext EXCEPT ![s].state = "enabled"]
  <2>1. e \in Profiles /\ KeepsInstalled(ext, e)
    BY <1>t DEF Profiles, Profile, KeepsInstalled, States, Up
  <2>2. row' = Save(ext') \/ (row' = row /\ KeepsInstalled(e, ext'))
    BY <1>16, <2>1, FinishEnableRows DEF OnEnableSucceeded
  <2> QED
    BY <2>1, <2>2, RowsStep DEF KeepsInstalled
<1>17. ASSUME NEW s \in Service, OnEnableFailed(s) PROVE RowsAreInstalled'
  BY <1>17, <1>t, RowsStep DEF OnEnableFailed, KeepsInstalled, Profiles, Profile, Up
<1>18. ASSUME NEW s \in Service, RegisterAnswered(s) PROVE RowsAreInstalled'
  <2>1. PICK t \in job[s].cur : \/ RegistersAnother(s, t) \/ StopsRegistering(s, t)
                                \/ EndsRegistering(s, t) \/ EndsEnabling(s, t)
    BY <1>18 DEF RegisterAnswered
  <2>0. \A u \in Service : [ext[u] EXCEPT !.cep = "registered"] \in Profile
    BY <1>t DEF Profiles, Profile, CEP
  <2>2. Registered(t) \in Profiles /\ KeepsInstalled(ext, Registered(t))
    <3>1. Registered(t) \in Profiles
      BY <1>t, <2>0 DEF Registered, Profiles
    <3>2. KeepsInstalled(ext, Registered(t))
      BY <1>t DEF Registered, KeepsInstalled, Profiles, Profile
    <3> QED
      BY <3>1, <3>2
  <2>3. row' = Save(ext') \/ (row' = row /\ KeepsInstalled(Registered(t), ext'))
    BY <2>1, <2>2, FinishEnableRows
    DEF RegistersAnother, StopsRegistering, EndsRegistering, EndsEnabling, KeepsInstalled
  <2> QED
    BY <2>2, <2>3, RowsStep DEF KeepsInstalled
<1>19. ASSUME NEW s \in Service, RegisterRefused(s) PROVE RowsAreInstalled'
  BY <1>19, RowsStep DEF RegisterRefused, KeepsInstalled
<1>20. CASE UNCHANGED vars
  BY <1>20, RowsStep DEF vars, KeepsInstalled
<1> QED
  BY <1>1, <1>2, <1>3, <1>4, <1>5, <1>6, <1>7, <1>8, <1>9, <1>10, <1>11, <1>12, <1>13, <1>14,
     <1>15, <1>16, <1>17, <1>18, <1>19, <1>20 DEF Next, Network, Operator, Callback

\* After any crash the table "services" brings back installed services only, with the
\* install ids they have: whatever ends an installation reaches its save().
THEOREM RowsSafety == Spec => []RowsAreInstalled
BY InitRows, StepRows, TypeCorrect, PTL DEF Spec

-----------------------------------------------------------------------------
(* Whoever owns commands, events or hooks is in the profile list.          *)

\* A connected profile is in the list, and its owner of nodes is connected: inductive.
NodesInv ==
  /\ \A s \in Service : ext[s].conn => Present(ext, s)
  /\ \A s \in registered : ext[s].conn

\* no profile of e leaves the list or changes its connection on the way to f
Stays(e, f) == \A t \in Service : f[t].conn = e[t].conn /\ (Present(e, t) => Present(f, t))

LEMMA StaysStep ==
  ASSUME TypeOK, NodesInv, Stays(ext, ext'), registered' \subseteq registered
  PROVE  NodesInv'
BY DEF NodesInv, Stays, TypeOK

LEMMA EnableServiceStays ==
  ASSUME NEW e \in Profiles, NEW s \in Service, NEW o, EnableService(e, s, o)
  PROVE  Stays(e, ext')
BY DEF EnableService, MakeWait, StartEnabling, Stays, Present, Profiles, Profile

LEMMA FinishEnableStays ==
  ASSUME NEW e \in Profiles, NEW s \in Service, NEW o, FinishEnable(e, s, o)
  PROVE  Stays(e, ext')
BY EnableCascadeKeeps DEF FinishEnable, Stays, Present, Up

LEMMA DisableCascadeStays ==
  ASSUME NEW e \in Profiles PROVE Stays(e, DisableCascade(e))
BY DisableCascadeKeeps DEF Stays, Present

LEMMA InitNodes == Init => NodesInv
BY DEF Init, NodesInv, NoProfile

\* No command but force, and no callback, closes a connection or removes a profile.
LEMMA HandlersStay ==
  ASSUME TypeOK, NEW s \in Service,
         Install(s) \/ Enable(s) \/ Disable(s) \/ Uninstall(s) \/ Callback(s)
  PROVE  Stays(ext, ext')
<1>t. ext \in Profiles
  BY DEF TypeOK, Profiles
<1>1. CASE GotInstallInfo(s)
  BY <1>1, <1>t DEF GotInstallInfo, Stays, Present, Profiles, Profile
<1>2. CASE Install(s)
  BY <1>2, <1>t DEF Install, Stays, Present, Profiles, Profile
<1>3. CASE Enable(s)
  BY <1>3, <1>t, EnableServiceStays DEF Enable
<1>4. CASE Disable(s)
  <2> DEFINE e == [ext EXCEPT ![s].state = "installed"]
  <2>1. e \in Profiles /\ Stays(ext, e)
    BY <1>t DEF Profiles, Profile, States, Up, Stays, Present
  <2>2. Stays(e, ext')
    BY <1>4, <2>1, DisableCascadeStays DEF Disable, CascadeFrom, NodesWithout
  <2> QED
    BY <2>1, <2>2 DEF Stays
<1>5. CASE Uninstall(s)
  <2> DEFINE off == [ext EXCEPT ![s].state = "installed"]
             e == IF ext[s].state = "enabled" THEN DisableCascade(off) ELSE ext
  <2>1. off \in Profiles /\ Stays(ext, off)
    BY <1>t DEF Profiles, Profile, States, Up, Stays, Present
  <2>2. e \in Profiles /\ Stays(ext, e)
    BY <1>t, <2>1, DisableCascadeKeeps, DisableCascadeStays DEF Stays
  <2>3. ext' = UninstalledWith(e, s) /\ registered' \subseteq registered
    BY <1>5 DEF Uninstall, NodesWithout
  <2> HIDE DEF e
  <2>4. Stays(e, ext')
    BY <2>2, <2>3 DEF UninstalledWith, Forgotten, Stays, Present, Profiles, Profile
  <2> QED
    BY <2>2, <2>4 DEF Stays
<1>6. CASE OnInstallSucceeded(s)
  <2> DEFINE e == [ext EXCEPT ![s].state = "installed"]
  <2>1. ext' \in {e, [e EXCEPT ![s].cep = "notRegistered"]} /\ registered' = registered
    BY <1>6 DEF OnInstallSucceeded
  <2> QED
    BY <1>t, <2>1 DEF Stays, Present, Profiles, Profile
<1>7. CASE OnInstallFailed(s)
  BY <1>7, <1>t DEF OnInstallFailed, Stays, Present, Profiles, Profile
<1>8. CASE OnEnableRegisters(s)
  BY <1>8, <1>t DEF OnEnableRegisters, Stays, Present, Profiles, Profile
<1>9. CASE OnEnableThrows(s)
  BY <1>9, <1>t DEF OnEnableThrows, Stays, Present, Profiles, Profile
<1>10. CASE OnEnableSucceeded(s)
  <2> DEFINE e == [ext EXCEPT ![s].state = "enabled"]
  <2>1. e \in Profiles /\ Stays(ext, e)
    BY <1>t DEF Profiles, Profile, States, Up, Stays, Present
  <2>2. Stays(e, ext')
    BY <1>10, <2>1, FinishEnableStays DEF OnEnableSucceeded
  <2> QED
    BY <2>1, <2>2 DEF Stays
<1>11. CASE OnEnableFailed(s)
  BY <1>11, <1>t DEF OnEnableFailed, Stays, Present, Profiles, Profile
<1>12. CASE RegisterAnswered(s)
  <2>1. PICK t \in job[s].cur : \/ RegistersAnother(s, t) \/ StopsRegistering(s, t)
                                \/ EndsRegistering(s, t) \/ EndsEnabling(s, t)
    BY <1>12 DEF RegisterAnswered
  <2>2. Registered(t) \in Profiles /\ Stays(ext, Registered(t))
    BY <1>t DEF Registered, Stays, Present, Profiles, Profile, CEP
  <2>3. Stays(Registered(t), ext')
    <3>1. CASE ext' = Registered(t)
      BY <3>1 DEF Stays
    <3> QED
      BY <2>1, <2>2, <3>1, FinishEnableStays
      DEF RegistersAnother, StopsRegistering, EndsRegistering, EndsEnabling
  <2> QED
    BY <2>2, <2>3 DEF Stays
<1>13. CASE RegisterNodes(s)
  BY <1>13 DEF RegisterNodes, Stays
<1>14. CASE RegisterRefused(s)
  BY <1>14 DEF RegisterRefused, Stays
<1> QED
  BY <1>1, <1>2, <1>3, <1>4, <1>5, <1>6, <1>7, <1>8, <1>9, <1>10, <1>11, <1>12, <1>13, <1>14
  DEF Callback

LEMMA StepNodes == TypeOK /\ NodesInv /\ [Next]_vars => NodesInv'
<1> SUFFICES ASSUME TypeOK, NodesInv, [Next]_vars PROVE NodesInv'
  OBVIOUS
<1>t. ext \in Profiles /\ registered \in SUBSET Service
  BY DEF TypeOK, Profiles
<1>1. CASE Restart
  BY <1>1, <1>t DEF Restart, Load, NoProfile, NodesInv
<1>2. ASSUME NEW s \in Service, HelloNew(s) PROVE NodesInv'
  <2>1. \A t \in Service \ {s} : ext'[t] = ext[t]
    BY <1>2, <1>t DEF HelloNew, Profiles
  <2>2. ext'[s].conn /\ ext'[s].state = "notInstalled"
    BY <1>2, <1>t DEF HelloNew, NoProfile, Profiles
  <2>3. registered' = registered
    BY <1>2 DEF HelloNew
  <2> QED
    BY <1>t, <2>1, <2>2, <2>3 DEF NodesInv, Present
<1>3. ASSUME NEW s \in Service, HelloInstalled(s) PROVE NodesInv'
  <2> DEFINE e == [ext EXCEPT ![s].conn = TRUE]
  <2>1. e \in Profiles
    BY <1>t DEF Profiles, Profile
  <2>2. ext' = e \/ Stays(e, ext')
    BY <1>3, <2>1, EnableServiceStays DEF HelloInstalled
  <2>3. Stays(e, ext')
    BY <2>2 DEF Stays
  <2>4. \A t \in Service : e[t].conn => Present(e, t)
    BY <1>3, <1>t DEF HelloInstalled, Present, NodesInv, Profiles, Profile
  <2>5. \A t \in registered : e[t].conn
    BY <1>t DEF NodesInv, Profiles, Profile
  <2>6. registered' = registered
    BY <1>3 DEF HelloInstalled
  <2> HIDE DEF e
  <2> QED
    BY <1>t, <2>3, <2>4, <2>5, <2>6 DEF NodesInv, Stays
<1>4. ASSUME NEW s \in Service, Disconnect(s) PROVE NodesInv'
  <2> DEFINE e == [ext EXCEPT ![s] = Dropped(ext[s])]
  <2>1. e \in Profiles
    BY <1>t, DroppedType
  <2>2. \A t \in Service \ {s} : e[t] = ext[t]
    BY <1>t DEF Profiles
  <2>3. ~e[s].conn
    BY <1>t, DroppedType DEF Profiles
  <2>4. ext' = DisableCascade(e) /\ registered' \subseteq registered \ {s}
    BY <1>4 DEF Disconnect, CascadeFrom, NodesWithout
  <2> HIDE DEF e
  <2>5. Stays(e, ext')
    BY <2>1, <2>4, DisableCascadeStays
  <2> QED
    BY <1>t, <2>2, <2>3, <2>4, <2>5 DEF NodesInv, Stays, Present
<1>5. ASSUME NEW s \in Service, RegisterNodes(s) PROVE NodesInv'
  BY <1>5 DEF RegisterNodes, NodesInv, Present
<1>6. ASSUME NEW s \in Service, ForceUninstall(s) PROVE NodesInv'
  <2> DEFINE e == [ext EXCEPT ![s] = NoProfile]
  <2>1. e \in Profiles
    BY <1>t DEF NoProfile, Profiles, Profile, States, CEP
  <2>2. (\A t \in Service \ {s} : e[t] = ext[t]) /\ ~e[s].conn
    BY <1>t DEF Profiles, NoProfile
  <2>3. ext' = DisableCascade(e) /\ registered' \subseteq registered \ {s}
    BY <1>6 DEF ForceUninstall, CascadeFrom, NodesWithout
  <2> HIDE DEF e
  <2>4. Stays(e, ext')
    BY <2>1, <2>3, DisableCascadeStays
  <2> QED
    BY <1>t, <2>2, <2>3, <2>4 DEF NodesInv, Stays, Present
<1>7. ASSUME NEW s \in Service,
             \/ Install(s) \/ Enable(s) \/ Disable(s) \/ Uninstall(s)
             \/ Callback(s) /\ ~RegisterNodes(s)
      PROVE NodesInv'
  <2>1. registered' \subseteq registered
    BY <1>7 DEF Install, Enable, Disable, Uninstall, Callback, GotInstallInfo, OnInstallSucceeded,
       OnInstallFailed, OnEnableRegisters, OnEnableThrows, OnEnableSucceeded, OnEnableFailed,
       RegisterAnswered, RegisterRefused, CascadeFrom, NodesWithout
  <2> QED
    BY <1>7, <2>1, HandlersStay, StaysStep
<1>8. CASE UNCHANGED vars
  BY <1>8 DEF vars, NodesInv, Present
<1> QED
  BY <1>1, <1>2, <1>3, <1>4, <1>5, <1>6, <1>7, <1>8 DEF Next, Network, Operator

\* The name of an owner of commands, events or hooks is always found in the profile list,
\* so the unchecked look-up of sendMessage() (Router.cpp:327) finds a profile.
THEOREM NodesSafety == Spec => []NodesHaveProfile
<1>1. TypeOK /\ NodesInv => NodesHaveProfile
  BY DEF NodesInv, NodesHaveProfile, TypeOK
<1> QED
  BY <1>1, InitNodes, StepNodes, TypeCorrect, PTL DEF Spec

-----------------------------------------------------------------------------
(* Losing a connection leaves nobody running on what does not run.         *)

\* An invariant could not say it: enableService() makes a running service "enabling" and
\* tells its dependents nothing.  It holds right after each step that drops a connection.
THEOREM LossSettles == Spec => LostConnectionSettles
<1>1. ASSUME TypeOK, [Next]_vars, NEW s \in Service, ext[s].conn, ~ext'[s].conn
      PROVE Settled(ext')
  <2>t. ext \in Profiles /\ row \in Rows
    BY <1>1 DEF TypeOK, Profiles, Rows
  <2>1. CASE Restart
    BY <2>1, <2>t DEF Restart, Load, NoProfile, Settled, Running
  <2>2. ASSUME NEW t \in Service, Disconnect(t) PROVE Settled(ext')
    <3> DEFINE e == [ext EXCEPT ![t] = Dropped(ext[t])]
    <3>2. e \in Profiles
      BY <2>t, DroppedType
    <3>3. ext' = DisableCascade(e)
      BY <2>2 DEF Disconnect, CascadeFrom, NodesWithout
    <3> QED
      BY <3>2, <3>3, DisableCascadeSettles
  <2>3. ASSUME NEW t \in Service, ForceUninstall(t) PROVE Settled(ext')
    <3>1. [ext EXCEPT ![t] = NoProfile] \in Profiles
      BY <2>t DEF NoProfile, Profiles, Profile, States, CEP
    <3> QED
      BY <2>3, <3>1, DisableCascadeSettles DEF ForceUninstall, CascadeFrom, NodesWithout
  <2>4. ASSUME NEW t \in Service, HelloNew(t) \/ HelloInstalled(t) PROVE FALSE
    <3>1. CASE HelloNew(t)
      BY <1>1, <2>t, <3>1 DEF HelloNew, NoProfile, Profiles
    <3>2. CASE HelloInstalled(t)
      <4> DEFINE e == [ext EXCEPT ![t].conn = TRUE]
      <4>1. e \in Profiles /\ e[s].conn
        BY <1>1, <2>t DEF Profiles, Profile
      <4>2. ext' = e \/ Stays(e, ext')
        BY <3>2, <4>1, EnableServiceStays DEF HelloInstalled
      <4> QED
        BY <1>1, <4>1, <4>2 DEF Stays
    <3> QED
      BY <2>4, <3>1, <3>2
  <2>5. ASSUME NEW t \in Service,
               Install(t) \/ Enable(t) \/ Disable(t) \/ Uninstall(t) \/ Callback(t)
        PROVE FALSE
    BY <1>1, <2>5, HandlersStay DEF Stays
  <2>6. CASE UNCHANGED vars
    BY <1>1, <2>6 DEF vars
  <2> QED
    BY <1>1, <2>1, <2>2, <2>3, <2>4, <2>5, <2>6 DEF Next, Network, Operator
<1>2. TypeOK /\ [Next]_vars =>
        [(\E s \in Service : ext[s].conn /\ ~ext'[s].conn) => Settled(ext')]_vars
  BY <1>1
<1> QED
  BY <1>2, TypeCorrect, PTL DEF Spec, LostConnectionSettles
-----------------------------------------------------------------------------
(* Who begins to be enabled, and who is woken.                             *)

\* from e to f nobody begins to be enabled or to run
Quiet(e, f) ==
  \A s \in Service : /\ f[s].state = "enabling" => e[s].state = "enabling"
                     /\ Running(f, s) => Running(e, s)

\* who is enabling in f and was not in e has its requirements running in f
JustifiedSince(e, f) ==
  \A s \in Service : f[s].state = "enabling" /\ e[s].state # "enabling"
                       => IsReqSatisfied(f, EnableRequirements(f, s))

NoneMissed(e) == \A s \in Service : ~Missed(e, s)

LEMMA DisableCascadeQuiet ==
  ASSUME NEW e \in Profiles PROVE Quiet(e, DisableCascade(e))
<1>1. \A s \in Service : DisableCascade(e)[s].reqSat => e[s].reqSat
  BY DEF DisableCascade, Profiles, Profile
<1> QED
  BY <1>1, DisableCascadeKeeps DEF Quiet, Running

\* enableService() leaves s enabling, with its requirements running, or waiting.  To be its
\* own requirement s would have to go on running, which being enabled again ends.
LEMMA EnableServiceJustified ==
  ASSUME NEW e \in Profiles, NEW s \in Service, NEW o, EnableService(e, s, o)
  PROVE  /\ s \notin EnableReq[s] => JustifiedSince(e, ext')
         /\ \A t \in Service : Running(ext', t) => t # s /\ Running(e, t)
<1>1. /\ \A t \in Service \ {s} : ext'[t] = e[t]
      /\ \/ /\ IsReqSatisfied(e, EnableRequirements(e, s))
            /\ ext'[s].state = "enabling" /\ ext'[s].info = e[s].info
         \/ ext'[s].state = "enabled" /\ ~ext'[s].reqSat
  <2>1. CASE IsReqSatisfied(e, EnableRequirements(e, s))
    BY <2>1 DEF EnableService, StartEnabling, Profiles, Profile
  <2>2. CASE ~IsReqSatisfied(e, EnableRequirements(e, s))
    BY <2>2 DEF EnableService, MakeWait, Profiles, Profile
  <2> QED
    BY <2>1, <2>2
<1>2. ASSUME s \notin EnableReq[s] PROVE JustifiedSince(e, ext')
  <2> SUFFICES ASSUME NEW t \in Service, ext'[t].state = "enabling", e[t].state # "enabling",
                      NEW r \in EnableRequirements(ext', t)
               PROVE  Running(ext', r)
    BY DEF JustifiedSince, IsReqSatisfied
  <2>1. t = s
    BY <1>1
  <2>2. /\ IsReqSatisfied(e, EnableRequirements(e, s))
        /\ ext'[s].info = e[s].info
    BY <1>1, <2>1
  <2>3. r \in EnableRequirements(e, s)
    BY <2>1, <2>2 DEF EnableRequirements
  <2>4. r \in Service \ {s}
    BY <1>2, <2>3, RequirementsAssumption DEF EnableRequirements
  <2>5. Running(e, r)
    BY <2>2, <2>3 DEF IsReqSatisfied
  <2> QED
    BY <1>1, <2>4, <2>5 DEF Running
<1>3. \A t \in Service : Running(ext', t) => t # s /\ Running(e, t)
  BY <1>1 DEF Running
<1> QED
  BY <1>2, <1>3

\* enableIfReqSatisfied() wakes everybody it can, and nobody else: who is woken waited, so it
\* was not running and no requirement of another.
LEMMA EnableCascadeWakes ==
  ASSUME NEW e \in Profiles
  PROVE  /\ JustifiedSince(e, EnableCascade(e))
         /\ NoneMissed(EnableCascade(e))
<1> DEFINE f == EnableCascade(e)
<1>1. ASSUME NEW s \in Service
      PROVE  /\ s \in Woken(e) => f[s].state = "enabling" /\ f[s].info = e[s].info
             /\ s \notin Woken(e) => f[s] = e[s]
  BY DEF EnableCascade, Profiles, Profile
<1>2. ASSUME NEW s \in Service PROVE Running(f, s) <=> Running(e, s)
  BY <1>1 DEF Woken, Running
<1>3. ASSUME NEW s \in Service PROVE EnableRequirements(f, s) = EnableRequirements(e, s)
  BY <1>1 DEF EnableRequirements
<1>4. ASSUME NEW s \in Service
      PROVE  /\ EnableRequirements(e, s) \subseteq Service
             /\ IsReqSatisfied(f, EnableRequirements(f, s)) <=> IsReqSatisfied(e, EnableRequirements(e, s))
  <2>1. EnableRequirements(e, s) \subseteq Service
    BY RequirementsAssumption DEF EnableRequirements
  <2> QED
    BY <1>2, <1>3, <2>1 DEF IsReqSatisfied
<1> HIDE DEF f
<1>5. JustifiedSince(e, f)
  BY <1>1, <1>4 DEF JustifiedSince, Woken
<1>6. NoneMissed(f)
  BY <1>1, <1>4 DEF NoneMissed, Missed, Woken
<1> QED
  BY <1>5, <1>6 DEF f

LEMMA FinishEnableWakes ==
  ASSUME NEW e \in Profiles, NEW s \in Service, NEW o, FinishEnable(e, s, o)
  PROVE  JustifiedSince(e, ext') /\ NoneMissed(ext')
BY EnableCascadeWakes DEF FinishEnable

\* Most handlers make nobody enabling or running.
LEMMA HandlersQuiet ==
  ASSUME TypeOK, NEW s \in Service,
         \/ HelloNew(s) \/ Disconnect(s)
         \/ Install(s) \/ Disable(s) \/ Uninstall(s) \/ ForceUninstall(s)
         \/ RegisterNodes(s) \/ GotInstallInfo(s) \/ OnInstallSucceeded(s) \/ OnInstallFailed(s)
         \/ OnEnableFailed(s) \/ RegisterRefused(s)
  PROVE  Quiet(ext, ext')
<1>t. ext \in Profiles
  BY DEF TypeOK, Profiles
<1>1. CASE HelloNew(s)
  <2>1. ext'[s].state = "notInstalled" /\ \A t \in Service \ {s} : ext'[t] = ext[t]
    BY <1>1, <1>t DEF HelloNew, NoProfile, Profiles
  <2> QED
    BY <2>1 DEF Quiet, Running
<1>2. CASE Disconnect(s)
  <2> DEFINE e == [ext EXCEPT ![s] = Dropped(ext[s])]
  <2>1. e \in Profiles
    BY <1>t, DroppedType
  <2>2. e[s].state \in {"absent", ext[s].state} /\ ~e[s].conn
    BY <1>t, DroppedType DEF Dropped, NoProfile, Profiles
  <2>3. \A t \in Service \ {s} : e[t] = ext[t]
    BY <1>t DEF Profiles
  <2>4. Quiet(ext, e)
    BY <2>2, <2>3 DEF Quiet, Running
  <2>5. ext' = DisableCascade(e)
    BY <1>2 DEF Disconnect, CascadeFrom, NodesWithout
  <2> HIDE DEF e
  <2>6. Quiet(e, ext')
    BY <2>1, <2>5, DisableCascadeQuiet
  <2> QED
    BY <2>4, <2>6 DEF Quiet
<1>3. CASE Install(s)
  BY <1>3, <1>t DEF Install, Quiet, Running, Profiles, Profile
<1>d. [ext EXCEPT ![s].state = "installed"] \in Profiles /\ Quiet(ext, [ext EXCEPT ![s].state = "installed"])
  BY <1>t DEF Profiles, Profile, States, Up, Quiet, Running
<1>4. CASE Disable(s)
  <2> DEFINE e == [ext EXCEPT ![s].state = "installed"]
  <2>1. ext' = DisableCascade(e)
    BY <1>4 DEF Disable, CascadeFrom, NodesWithout
  <2> HIDE DEF e
  <2>2. Quiet(e, ext')
    BY <1>d, <2>1, DisableCascadeQuiet DEF e
  <2> QED
    BY <1>d, <2>2 DEF Quiet, e
<1>5. CASE Uninstall(s)
  <2> DEFINE off == [ext EXCEPT ![s].state = "installed"]
             e == IF ext[s].state = "enabled" THEN DisableCascade(off) ELSE ext
  <2>1. off \in Profiles /\ Quiet(ext, off)
    BY <1>d
  <2> HIDE DEF off
  <2>2. DisableCascade(off) \in Profiles /\ Quiet(off, DisableCascade(off))
    BY <2>1, DisableCascadeKeeps, DisableCascadeQuiet
  <2>3. e \in Profiles /\ Quiet(ext, e)
    BY <1>t, <2>1, <2>2 DEF Quiet
  <2>4. ext' = UninstalledWith(e, s)
    BY <1>5 DEF Uninstall, NodesWithout, off
  <2> HIDE DEF e
  <2>5. Quiet(e, ext')
    BY <2>3, <2>4 DEF UninstalledWith, Forgotten, Quiet, Running, Profiles, Profile
  <2> QED
    BY <2>3, <2>5 DEF Quiet
<1>6. CASE ForceUninstall(s)
  <2> DEFINE e == [ext EXCEPT ![s] = NoProfile]
  <2>1. e \in Profiles
    BY <1>t DEF NoProfile, Profiles, Profile, States, CEP
  <2>2. Quiet(ext, e)
    BY <1>t DEF NoProfile, Profiles, Quiet, Running
  <2>3. ext' = DisableCascade(e)
    BY <1>6 DEF ForceUninstall, CascadeFrom, NodesWithout
  <2> HIDE DEF e
  <2>4. Quiet(e, ext')
    BY <2>1, <2>3, DisableCascadeQuiet
  <2> QED
    BY <2>2, <2>4 DEF Quiet
<1>7. CASE RegisterNodes(s) \/ RegisterRefused(s)
  BY <1>7 DEF RegisterNodes, RegisterRefused, Quiet, Running
<1>8. CASE GotInstallInfo(s)
  BY <1>8, <1>t DEF GotInstallInfo, Quiet, Running, Profiles, Profile
<1>9. CASE OnInstallSucceeded(s)
  <2> DEFINE e == [ext EXCEPT ![s].state = "installed"]
  <2>1. ext' \in {e, [e EXCEPT ![s].cep = "notRegistered"]}
    BY <1>9 DEF OnInstallSucceeded
  <2> QED
    BY <1>t, <2>1 DEF Quiet, Running, Profiles, Profile
<1>10. CASE OnInstallFailed(s)
  BY <1>10, <1>t DEF OnInstallFailed, Quiet, Running, Profiles, Profile
<1>11. CASE OnEnableFailed(s)
  BY <1>11, <1>d DEF OnEnableFailed
<1> QED
  BY <1>1, <1>2, <1>3, <1>4, <1>5, <1>6, <1>7, <1>8, <1>9, <1>10, <1>11

\* When UM answers, the handler goes on without a change, or ends with the whole cascade.
LEMMA RegisterAnsweredWakes ==
  ASSUME TypeOK, NEW s \in Service, RegisterAnswered(s)
  PROVE  JustifiedSince(ext, ext') /\ (Quiet(ext, ext') \/ NoneMissed(ext'))
<1>t. ext \in Profiles
  BY DEF TypeOK, Profiles
<1>1. PICK t \in job[s].cur : \/ RegistersAnother(s, t) \/ StopsRegistering(s, t)
                              \/ EndsRegistering(s, t) \/ EndsEnabling(s, t)
  BY DEF RegisterAnswered
<1>2. Registered(t) \in Profiles
  BY <1>t DEF Registered, Profiles, Profile, CEP
<1>3. /\ \A u \in Service : Registered(t)[u].state = ext[u].state
      /\ Quiet(ext, Registered(t))
  BY <1>t DEF Registered, Quiet, Running, Profiles, Profile
<1>4. CASE ext' = Registered(t)
  BY <1>3, <1>4 DEF JustifiedSince, Quiet
<1>5. CASE EndsEnabling(s, t)
  <2>1. JustifiedSince(Registered(t), ext') /\ NoneMissed(ext')
    BY <1>2, <1>5, FinishEnableWakes DEF EndsEnabling
  <2> QED
    BY <1>3, <2>1 DEF JustifiedSince
<1> QED
  BY <1>1, <1>4, <1>5 DEF RegistersAnother, StopsRegistering, EndsRegistering

LEMMA OnEnableSucceededWakes ==
  ASSUME TypeOK, NEW s \in Service, OnEnableSucceeded(s)
  PROVE  JustifiedSince(ext, ext') /\ NoneMissed(ext')
<1> DEFINE e == [ext EXCEPT ![s].state = "enabled"]
<1>1. e \in Profiles /\ \A t \in Service : e[t].state = "enabling" => ext[t].state = "enabling"
  BY DEF TypeOK, Profiles, Profile, States, Up
<1>2. \A t \in Service : ext[t].state # "enabling" => e[t].state # "enabling"
  BY <1>1
<1>3. FinishEnable(e, s, Answered(s, "onEnable"))
  BY DEF OnEnableSucceeded
<1> HIDE DEF e
<1>4. JustifiedSince(e, ext') /\ NoneMissed(ext')
  BY <1>1, <1>3, FinishEnableWakes
<1> QED
  BY <1>2, <1>4 DEF JustifiedSince

\* A service whose permissions are not registered is enabled without the rest of the handler.
LEMMA OnEnableUnfinished ==
  ASSUME TypeOK, NEW s \in Service, OnEnableRegisters(s) \/ OnEnableThrows(s)
  PROVE  /\ JustifiedSince(ext, ext')
         /\ ext[s].cep # "registered" /\ \A t \in Service \ {s} : ext'[t] = ext[t]
<1>1. ext' = [ext EXCEPT ![s].state = "enabled"] /\ ext[s].cep # "registered"
  BY DEF OnEnableRegisters, OnEnableThrows
<1> QED
  BY <1>1 DEF TypeOK, Profile, JustifiedSince

\* Nobody requires itself. A service that did could be enabled only before its requirements are
\* known, and would then keep running for its own sake.
NoneRequiresItself == \A s \in Service : s \notin EnableReq[s]

\* A service begins to be enabled only in a state where all its requirements run, through
\* hello, by command or by a cascade, provided that none names itself as a requirement.
THEOREM EnablingJustified ==
  ASSUME NoneRequiresItself
  PROVE  Spec => EnablingIsJustified
<1>1. ASSUME TypeOK, [Next]_vars
      PROVE  Restart \/ JustifiedSince(ext, ext')
  <2>t. ext \in Profiles
    BY <1>1 DEF TypeOK, Profiles
  <2>1. ASSUME NEW s \in Service, HelloInstalled(s) PROVE JustifiedSince(ext, ext')
    <3> DEFINE e == [ext EXCEPT ![s].conn = TRUE]
    <3>1. e \in Profiles /\ \A t \in Service : e[t].state = ext[t].state
      BY <2>t DEF Profiles, Profile
    <3>2. CASE ext' = e
      BY <3>1, <3>2 DEF JustifiedSince
    <3>3. CASE EnableService(e, s, [owed EXCEPT ![s] = NoneOwed])
      <4>1. JustifiedSince(e, ext')
        BY <3>1, <3>3, EnableServiceJustified DEF NoneRequiresItself
      <4> QED
        BY <3>1, <4>1 DEF JustifiedSince
    <3> QED
      BY <2>1, <3>2, <3>3 DEF HelloInstalled
  <2>2. ASSUME NEW s \in Service, Enable(s) PROVE JustifiedSince(ext, ext')
    BY <2>t, <2>2, EnableServiceJustified DEF Enable, NoneRequiresItself
  <2>3. ASSUME Quiet(ext, ext') PROVE JustifiedSince(ext, ext')
    BY <2>3 DEF Quiet, JustifiedSince
  <2>4. CASE UNCHANGED vars
    BY <2>4 DEF vars, JustifiedSince
  <2> QED
    BY <1>1, <2>1, <2>2, <2>3, <2>4, HandlersQuiet, RegisterAnsweredWakes, OnEnableSucceededWakes,
       OnEnableUnfinished DEF Next, Network, Operator, Callback
<1>2. TypeOK /\ [Next]_vars =>
        [\/ Restart
         \/ \A s \in Service : ext'[s].state = "enabling" /\ ext[s].state # "enabling"
              => IsReqSatisfied(ext', EnableRequirements(ext', s))]_vars
  BY <1>1 DEF JustifiedSince
<1> QED
  BY <1>2, TypeCorrect, PTL DEF Spec, EnablingIsJustified

\* Whoever waits for a service is woken when the onEnable handler of that service runs to its
\* end: no state leaves a waiting service behind whose requirements run.
THEOREM StartWakes == Spec => StartWakesDependents
<1>1. ASSUME TypeOK, [Next]_vars, NEW s \in Service,
             ~Running(ext, s), Running(ext', s), ext[s].cep = "registered"
      PROVE  NoneMissed(ext')
  <2>t. ext \in Profiles /\ row \in Rows
    BY <1>1 DEF TypeOK, Profiles, Rows
  <2>1. ~Quiet(ext, ext')
    BY <1>1 DEF Quiet
  <2>2. CASE Restart
    BY <1>1, <2>2, <2>t DEF Restart, Load, NoProfile, Running
  <2>3. ASSUME NEW t \in Service, HelloInstalled(t) PROVE FALSE
    <3> DEFINE e == [ext EXCEPT ![t].conn = TRUE]
    <3>1. /\ e \in Profiles /\ \A u \in Service \ {t} : e[u] = ext[u]
          /\ e[t].state = ext[t].state
      BY <2>t DEF Profiles, Profile
    <3>2. CASE e[t].state = "enabled" /\ EnableService(e, t, [owed EXCEPT ![t] = NoneOwed])
      <4> HIDE DEF e
      <4>1. s # t /\ Running(e, s)
        BY <1>1, <3>1, <3>2, EnableServiceJustified
      <4> QED
        BY <1>1, <3>1, <4>1 DEF Running
    <3>3. CASE e[t].state # "enabled" /\ ext' = e
      <4> HIDE DEF e
      <4> QED
        BY <1>1, <3>1, <3>3 DEF Running
    <3> QED
      BY <2>3, <3>2, <3>3 DEF HelloInstalled
  <2>4. ASSUME NEW t \in Service, Enable(t) PROVE FALSE
    BY <1>1, <2>t, <2>4, EnableServiceJustified DEF Enable
  <2>5. ASSUME NEW t \in Service, OnEnableRegisters(t) \/ OnEnableThrows(t) PROVE FALSE
    BY <1>1, <2>5, OnEnableUnfinished DEF Running
  <2>6. CASE UNCHANGED vars
    BY <1>1, <2>6 DEF vars
  <2> QED
    BY <1>1, <2>1, <2>2, <2>3, <2>4, <2>5, <2>6, HandlersQuiet, RegisterAnsweredWakes,
       OnEnableSucceededWakes DEF Next, Network, Operator, Callback
<1>2. TypeOK /\ [Next]_vars =>
        [\A s \in Service : ~Running(ext, s) /\ Running(ext', s) /\ ext[s].cep = "registered"
           => \A t \in Service : ~Missed(ext', t)]_vars
  BY <1>1 DEF NoneMissed
<1> QED
  BY <1>2, TypeCorrect, PTL DEF Spec, StartWakesDependents

\* An installed service leaves the profile list only by force, or by a crash before the
\* table "services" had it: disconnecting, uninstalling and the cascades keep its profile.
THEOREM InstalledKept == Spec => InstalledIsKept
<1>1. ASSUME TypeOK, [Next]_vars, NEW s \in Service, ext[s].state \in Up, ~Present(ext', s)
      PROVE  ForceUninstall(s) \/ (Restart /\ row[s].state = "absent")
  <2>t. ext \in Profiles /\ row \in Rows
    BY <1>1 DEF TypeOK, Profiles, Rows
  <2>0. ext[s].state # "absent"
    BY <1>1 DEF Up
  <2>1. CASE Restart
    <3>1. row[s].state \notin Up
      BY <1>1, <2>1 DEF Restart, Load, Present, Up
    <3> QED
      BY <2>1, <2>t, <3>1 DEF Rows, Row
  <2>2. ASSUME NEW t \in Service, HelloNew(t) PROVE FALSE
    BY <1>1, <2>0, <2>2, <2>t DEF HelloNew, Present, NoProfile, Profiles
  <2>3. ASSUME NEW t \in Service, HelloInstalled(t) PROVE FALSE
    <3> DEFINE e == [ext EXCEPT ![t].conn = TRUE]
    <3>1. e \in Profiles /\ e[s].state = ext[s].state
      BY <2>t DEF Profiles, Profile
    <3>2. Stays(e, ext') \/ ext' = e
      BY <2>3, <3>1, EnableServiceStays DEF HelloInstalled
    <3> HIDE DEF e
    <3> QED
      BY <1>1, <2>0, <3>1, <3>2 DEF Stays, Present
  <2>4. ASSUME NEW t \in Service, Disconnect(t) PROVE FALSE
    <3> DEFINE e == [ext EXCEPT ![t] = Dropped(ext[t])]
    <3>1. e \in Profiles
      BY <2>t, DroppedType
    <3>2. e[s].state = ext[s].state
      <4>1. CASE s = t
        BY <1>1, <2>t, <4>1, DroppedType DEF Profiles
      <4>2. CASE s # t
        BY <2>t, <4>2 DEF Profiles
      <4> QED
        BY <4>1, <4>2
    <3>3. ext' = DisableCascade(e)
      BY <2>4 DEF Disconnect, CascadeFrom, NodesWithout
    <3> HIDE DEF e
    <3> QED
      BY <1>1, <2>0, <3>1, <3>2, <3>3, DisableCascadeKeeps DEF Present
  <2>5. ASSUME NEW t \in Service, ForceUninstall(t) PROVE t = s
    <3> SUFFICES ASSUME t # s PROVE FALSE
      OBVIOUS
    <3> DEFINE e == [ext EXCEPT ![t] = NoProfile]
    <3>1. e \in Profiles /\ e[s] = ext[s]
      BY <2>t DEF NoProfile, Profiles, Profile, States, CEP
    <3>2. ext' = DisableCascade(e)
      BY <2>5 DEF ForceUninstall, CascadeFrom, NodesWithout
    <3> HIDE DEF e
    <3> QED
      BY <1>1, <2>0, <3>1, <3>2, DisableCascadeKeeps DEF Present
  <2>6. ASSUME NEW t \in Service,
               Install(t) \/ Enable(t) \/ Disable(t) \/ Uninstall(t) \/ Callback(t)
        PROVE FALSE
    BY <1>1, <2>0, <2>6, HandlersStay DEF Stays, Present
  <2>7. CASE UNCHANGED vars
    BY <1>1, <2>0, <2>7 DEF vars, Present
  <2> QED
    BY <1>1, <2>1, <2>2, <2>3, <2>4, <2>5, <2>6, <2>7 DEF Next, Network, Operator
<1>2. TypeOK /\ [Next]_vars =>
        [\A s \in Service : ext[s].state \in Up /\ ~Present(ext', s)
           => ForceUninstall(s) \/ (Restart /\ row[s].state = "absent")]_vars
  BY <1>1
<1> QED
  BY <1>2, TypeCorrect, PTL DEF Spec, InstalledIsKept
-----------------------------------------------------------------------------
(***************************************************************************)
(* RequirementCascade: the recursion of the code, by any number of threads *)
(* over any list, against the single step of ServiceLifecycle.             *)
(***************************************************************************)

\* the profiles of the cascades, all of them registered and known
KnownProfile == [state: {"installed", "enabled"}, reqSat: BOOLEAN, cep: {"registered"},
                 conn: BOOLEAN, hasId: {TRUE}, info: {TRUE}]
Known == [Service -> KnownProfile]
N == Cardinality(Service)

\* scan d of thread t has called disableService() for s
InCall(t, d) == d \in 1..Len(stack[t]) - 1
Calling(t, d, s) == InCall(t, d) /\ list[stack[t][d]] = s

CascadeTyped ==
  /\ ext \in Known /\ asked \in Known
  /\ list \in Lists
  /\ stack \in [Thread -> Seq(Nat \ {0})]

\* The profiles differ from those that were asked for in what the cascades took from them: the
\* state, for as long as the call lasts, and reqSat, with the nodes, for good.
Alike ==
  \A s \in Service :
    /\ ext[s].conn = asked[s].conn
    /\ ext[s].reqSat => asked[s].reqSat
    /\ asked[s].reqSat /\ ~ext[s].reqSat => s \notin registered
    /\ ext[s].state # asked[s].state => \E t \in Thread : \E d \in Nat : Calling(t, d, s)

CallsForListed == \A t \in Thread, d \in Nat : InCall(t, d) => \E s \in Service : Calling(t, d, s)

CallersDemoted ==
  \A t \in Thread, d \in Nat, s \in Service :
    Calling(t, d, s) => ext[s].state = "installed" /\ asked[s].state = "enabled" /\ ~ext[s].reqSat

\* reqSat is cleared before the call, so that no service is disabled twice
CalledOnce ==
  \A t, u \in Thread, d, c \in Nat, s \in Service :
    Calling(t, d, s) /\ Calling(u, c, s) => t = u /\ d = c

\* who can go on is left alone
KeptBelieved == Kept(asked) \subseteq Believed(ext)

\* who cannot is ahead of some scan
Ahead(s) == \E t \in Thread : \E d \in 1..Len(stack[t]) : \E n \in stack[t][d]..N : list[n] = s
DoomedAhead == \A s \in Service : Doomed(s) => Ahead(s)

CascadeInv ==
  /\ CascadeTyped /\ CallsForListed /\ Alike /\ CallersDemoted /\ CalledOnce
  /\ KeptBelieved /\ DoomedAhead
  /\ row = Save(ext)

LEMMA KnownAreProfiles == Known \subseteq Profiles
BY DEF Known, KnownProfile, Profiles, Profile, States, Up, CEP

\* What the steps do to a profile.
LEMMA ConnectionGone ==
  ASSUME NEW e \in Known, NEW s \in Service, NEW f, f = [e EXCEPT ![s].conn = FALSE]
  PROVE  /\ f \in Known /\ \A u \in Service \ {s} : f[u] = e[u]
         /\ f[s].state = e[s].state /\ f[s].reqSat = e[s].reqSat /\ ~f[s].conn
         /\ f[s].cep = e[s].cep /\ f[s].hasId = e[s].hasId /\ f[s].info = e[s].info
<1> DEFINE p == [e[s] EXCEPT !.conn = FALSE]
<1>1. e[s] \in KnownProfile
  BY DEF Known
<1>2. /\ p \in KnownProfile /\ p.state = e[s].state /\ p.reqSat = e[s].reqSat /\ ~p.conn
      /\ p.cep = e[s].cep /\ p.hasId = e[s].hasId /\ p.info = e[s].info
  BY <1>1 DEF KnownProfile
<1>3. f = [e EXCEPT ![s] = p]
  OBVIOUS
<1> HIDE DEF p
<1>4. f \in Known /\ f[s] = p /\ \A u \in Service \ {s} : f[u] = e[u]
  BY <1>2, <1>3 DEF Known
<1> QED
  BY <1>2, <1>4

LEMMA StateChanges ==
  ASSUME NEW e \in Known, NEW s \in Service, NEW st \in {"installed", "enabled"}
  PROVE  LET f == [e EXCEPT ![s].state = st]
         IN  /\ f \in Known /\ \A u \in Service \ {s} : f[u] = e[u]
             /\ f[s].state = st /\ f[s].reqSat = e[s].reqSat /\ f[s].conn = e[s].conn
<1> DEFINE f == [e EXCEPT ![s].state = st]
<1> DEFINE p == [e[s] EXCEPT !.state = st]
<1>1. e[s] \in KnownProfile
  BY DEF Known
<1>2. p \in KnownProfile /\ p.state = st /\ p.reqSat = e[s].reqSat /\ p.conn = e[s].conn
  BY <1>1 DEF KnownProfile
<1>3. f = [e EXCEPT ![s] = p]
  OBVIOUS
<1> HIDE DEF p, f
<1>4. f \in Known /\ f[s] = p /\ \A u \in Service \ {s} : f[u] = e[u]
  BY <1>2, <1>3 DEF Known
<1> QED
  BY <1>2, <1>4 DEF f

\* Every service is in the list once.
LEMMA ListComplete ==
  ASSUME NEW l \in Lists
  PROVE  /\ N \in Nat /\ l \in [1..N -> Service]
         /\ \A i, j \in 1..N : l[i] = l[j] => i = j
         /\ \A s \in Service : \E n \in 1..N : l[n] = s
<1>1. IsFiniteSet(Service) /\ N \in Nat
  BY ListsAssumption, FS_CardinalityType DEF N
<1>2. l \in [1..N -> Service] /\ \A i, j \in 1..N : l[i] = l[j] => i = j
  BY ListsAssumption DEF N
<1>3. l \in Injection(1..N, Service)
  BY <1>2 DEF Injection, IsInjective
<1>4. IsFiniteSet(1..N) /\ Cardinality(1..N) = N
  <2>1. 1 \in Int /\ N \in Int /\ (IF 1 > N THEN 0 ELSE N - 1 + 1) = N
    BY <1>1
  <2> QED
    BY <2>1, FS_Interval
<1>5. l \in Surjection(1..N, Service)
  BY <1>1, <1>3, <1>4, FS_Injection DEF N
<1> QED
  BY <1>1, <1>2, <1>5 DEF Surjection

\* Losing connections and believed services, one can only keep fewer.
LEMMA KeptShrinks ==
  ASSUME NEW e \in Known, NEW f \in Known, Believed(f) \subseteq Believed(e),
         \A s \in Service : f[s].conn => e[s].conn
  PROVE  Kept(f) \subseteq Kept(e)
<1>1. \A s \in Service : EnableRequirements(f, s) = EnableRequirements(e, s)
  BY DEF Known, KnownProfile, EnableRequirements
<1>2. \A s \in Service : EnableRequirements(f, s) \subseteq Service
  BY RequirementsAssumption DEF EnableRequirements
<1>3. ASSUME NEW S \in SUBSET Believed(f), SelfSupporting(f, S)
      PROVE  S \in SUBSET Believed(e) /\ SelfSupporting(e, S)
  <2>1. S \subseteq Service
    BY DEF Believed
  <2> QED
    BY <1>1, <1>2, <1>3, <2>1 DEF SelfSupporting
<1> QED
  BY <1>3 DEF Kept

\* What a scan may do to its stack: go on, call, return.
LEMMA ScanMoves ==
  ASSUME NEW z \in Seq(Nat \ {0}), z # <<>>
  PROVE  LET r == [z EXCEPT ![Len(z)] = @ + 1]
         IN  /\ r \in Seq(Nat \ {0}) /\ Len(r) = Len(z)
             /\ \A d \in 1..Len(z) : r[d] = IF d = Len(z) THEN z[d] + 1 ELSE z[d]
<1>1. Len(z) \in 1..Len(z) /\ z[Len(z)] \in Nat \ {0} /\ z[Len(z)] + 1 \in Nat \ {0}
  BY EmptySeq, LenProperties, ElementOfSeq
<1> QED
  BY <1>1, ExceptSeq

LEMMA ScanCalls ==
  ASSUME NEW z \in Seq(Nat \ {0})
  PROVE  LET r == Append(z, 1)
         IN  /\ r \in Seq(Nat \ {0}) /\ Len(r) = Len(z) + 1
             /\ \A d \in 1..Len(z) + 1 : r[d] = IF d = Len(z) + 1 THEN 1 ELSE z[d]
<1>1. Len(z) \in Nat
  BY LenProperties
<1> QED
  BY <1>1, AppendProperties

LEMMA ScanReturns ==
  ASSUME NEW z \in Seq(Nat \ {0}), Len(z) > 1
  PROVE  LET outer == SubSeq(z, 1, Len(z) - 1)
             r == [outer EXCEPT ![Len(z) - 1] = outer[Len(z) - 1] + 1]
         IN  /\ r \in Seq(Nat \ {0}) /\ Len(r) = Len(z) - 1
             /\ outer[Len(z) - 1] = z[Len(z) - 1]
             /\ \A d \in 1..Len(z) - 1 : r[d] = IF d = Len(z) - 1 THEN z[d] + 1 ELSE z[d]
<1> DEFINE outer == SubSeq(z, 1, Len(z) - 1)
<1>1. Len(z) \in Nat /\ \A d \in 1..Len(z) : z[d] \in Nat \ {0}
  BY LenProperties, ElementOfSeq
<1>2. /\ outer \in Seq(Nat \ {0}) /\ Len(outer) = Len(z) - 1
      /\ \A d \in 1..Len(z) - 1 : outer[d] = z[d]
  <2>1. 1 \in Int /\ Len(z) - 1 \in Int /\ \A d \in 1..Len(z) - 1 : z[d] \in Nat \ {0}
    BY <1>1
  <2>2. Len(z) - 1 - 1 + 1 = Len(z) - 1 /\ 1 <= Len(z) - 1
    BY <1>1
  <2>3. \A d \in 1..Len(z) - 1 : 1 + d - 1 = d
    BY <1>1
  <2> HIDE DEF outer
  <2>4. /\ outer \in Seq(Nat \ {0})
        /\ Len(outer) = Len(z) - 1 - 1 + 1
        /\ \A d \in 1..Len(z) - 1 - 1 + 1 : outer[d] = z[1 + d - 1]
    BY <2>1, <2>2, SubSeqProperties DEF outer
  <2> QED
    BY <2>2, <2>3, <2>4
<1>3. Len(z) - 1 \in 1..Len(z) - 1 /\ z[Len(z) - 1] + 1 \in Nat \ {0}
  BY <1>1
<1> HIDE DEF outer
<1>4. outer[Len(z) - 1] = z[Len(z) - 1] /\ Len(z) - 1 \in 1..Len(outer)
  BY <1>2, <1>3
<1>5. LET r == [outer EXCEPT ![Len(z) - 1] = outer[Len(z) - 1] + 1]
      IN  /\ r \in Seq(Nat \ {0}) /\ Len(r) = Len(outer)
          /\ \A d \in 1..Len(outer) : r[d] = IF d = Len(z) - 1 THEN outer[Len(z) - 1] + 1 ELSE outer[d]
  BY <1>2, <1>3, <1>4, ExceptSeq
<1> QED
  BY <1>2, <1>4, <1>5 DEF outer

-----------------------------------------------------------------------------
\* a step that begins and ends no call
CallsSame ==
  \A t \in Thread, d \in Nat : /\ InCall(t, d)' <=> InCall(t, d)
                               /\ \A s \in Service : Calling(t, d, s)' <=> Calling(t, d, s)

\* A thread whose stack is empty starts a scan at the head of the list: it calls nobody yet, and
\* has everybody ahead.
LEMMA ScanStarts ==
  ASSUME CascadeTyped, NEW t \in Thread, stack[t] = <<>>,
         stack' = [stack EXCEPT ![t] = << 1 >>], UNCHANGED list
  PROVE  /\ stack' \in [Thread -> Seq(Nat \ {0})]
         /\ CallsSame
         /\ \A s \in Service : Ahead(s)'
<1>1. stack'[t] = <<1>> /\ \A u \in Thread \ {t} : stack'[u] = stack[u]
  BY DEF CascadeTyped
<1>2. stack' \in [Thread -> Seq(Nat \ {0})]
  BY <1>1 DEF CascadeTyped
<1>3. ASSUME NEW u \in Thread, NEW d \in Nat
      PROVE  /\ InCall(u, d)' <=> InCall(u, d)
             /\ \A s \in Service : Calling(u, d, s)' <=> Calling(u, d, s)
  <2>1. CASE u = t
    <3>1. Len(stack[t]) = 0 /\ Len(stack'[t]) = 1
      BY <1>1
    <3> QED
      BY <2>1, <3>1 DEF Calling, InCall
  <2>2. CASE u # t
    BY <1>1, <2>2 DEF Calling, InCall
  <2> QED
    BY <2>1, <2>2
<1>4. ASSUME NEW s \in Service PROVE Ahead(s)'
  <2>1. 1 \in 1..Len(stack'[t]) /\ stack'[t][1] = 1
    BY <1>1
  <2>2. \E n \in 1..N : list[n] = s
    BY ListComplete DEF CascadeTyped
  <2> QED
    BY <2>1, <2>2 DEF Ahead
<1> QED
  BY <1>2, <1>3, <1>4 DEF CallsSame

LEMMA LoseConnectionKeeps ==
  ASSUME CascadeInv, NEW t \in Thread, NEW s \in Service, LoseConnection(t, s)
  PROVE  CascadeInv'
<1>1. /\ ext \in Known /\ asked \in Known
      /\ ext' = [ext EXCEPT ![s].conn = FALSE] /\ asked' = [asked EXCEPT ![s].conn = FALSE]
  BY DEF CascadeInv, CascadeTyped, LoseConnection
<1>2. ext' \in Known /\ asked' \in Known
  BY <1>1, ConnectionGone
<1>3. \A u \in Service : /\ ext'[u].state = ext[u].state /\ asked'[u].state = asked[u].state
                         /\ ext'[u].reqSat = ext[u].reqSat /\ asked'[u].reqSat = asked[u].reqSat
                         /\ ext'[u].cep = ext[u].cep /\ ext'[u].hasId = ext[u].hasId
                         /\ ext'[u].info = ext[u].info
  BY <1>1, ConnectionGone
<1>c. \A u \in Service : /\ u = s => ~ext'[u].conn /\ ~asked'[u].conn
                         /\ u # s => ext'[u].conn = ext[u].conn /\ asked'[u].conn = asked[u].conn
                         /\ asked'[u].conn => asked[u].conn
                         /\ ext'[u].conn \in BOOLEAN /\ asked'[u].conn \in BOOLEAN
  <2>1. \A u \in Service : ext'[u].conn \in BOOLEAN /\ asked'[u].conn \in BOOLEAN
    BY <1>2 DEF Known, KnownProfile
  <2> QED
    <3>1. ~ext'[s].conn /\ ~asked'[s].conn
      BY <1>1, ConnectionGone
    <3>2. \A u \in Service \ {s} : ext'[u] = ext[u] /\ asked'[u] = asked[u]
      BY <1>1, ConnectionGone
    <3> QED
      BY <2>1, <3>1, <3>2
<1>4. /\ stack' \in [Thread -> Seq(Nat \ {0})]
      /\ CallsSame
      /\ \A v \in Service : Ahead(v)'
  BY ScanStarts DEF CascadeInv, LoseConnection
<1>5. CascadeTyped' /\ DoomedAhead'
  BY <1>2, <1>4 DEF CascadeInv, CascadeTyped, DoomedAhead, LoseConnection
<1>6. Alike' /\ CallsForListed'
  <2>1. ASSUME NEW u \in Service
        PROVE  /\ ext'[u].conn = asked'[u].conn
               /\ ext'[u].reqSat => asked'[u].reqSat
               /\ asked'[u].reqSat /\ ~ext'[u].reqSat => u \notin registered'
    <3>1. /\ ext[u].conn = asked[u].conn
          /\ ext[u].reqSat => asked[u].reqSat
          /\ asked[u].reqSat /\ ~ext[u].reqSat => u \notin registered
      BY DEF CascadeInv, Alike
    <3>2. registered' \subseteq registered
      BY DEF LoseConnection
    <3>3. ext'[u].conn = asked'[u].conn
      BY <1>c, <3>1
    <3> QED
      BY <1>3, <3>1, <3>2, <3>3
  <2>2. ASSUME NEW u \in Service, ext'[u].state # asked'[u].state
        PROVE  \E v \in Thread : \E d \in Nat : Calling(v, d, u)'
    BY <1>3, <1>4, <2>2 DEF CascadeInv, Alike, CallsSame
  <2>3. CallsForListed'
    BY <1>4 DEF CascadeInv, CallsForListed, CallsSame
  <2> QED
    BY <2>1, <2>2, <2>3 DEF Alike
<1>7. CallersDemoted' /\ CalledOnce'
  <2>1. CallersDemoted'
    <3> SUFFICES ASSUME NEW v \in Thread, NEW d \in Nat, NEW u \in Service, Calling(v, d, u)'
                 PROVE  ext'[u].state = "installed" /\ asked'[u].state = "enabled" /\ ~ext'[u].reqSat
      BY DEF CallersDemoted
    <3>1. Calling(v, d, u)
      BY <1>4 DEF CallsSame
    <3> QED
      BY <1>3, <3>1 DEF CascadeInv, CallersDemoted
  <2>2. CalledOnce'
    BY <1>4 DEF CascadeInv, CalledOnce, CallsSame
  <2> QED
    BY <2>1, <2>2
<1>8. KeptBelieved'
  <2>1. Believed(asked') = Believed(asked) /\ Believed(ext') = Believed(ext)
    BY <1>3 DEF Believed
  <2>2. Kept(asked') \subseteq Kept(asked)
    BY <1>1, <1>2, <1>c, <2>1, KeptShrinks
  <2> QED
    BY <2>1, <2>2 DEF CascadeInv, KeptBelieved
<1>9. row' = Save(ext')
  <2>1. Save(ext') = Save(ext)
    BY <1>3 DEF Save
  <2> QED
    BY <2>1 DEF CascadeInv, LoseConnection
<1> QED
  BY <1>5, <1>6, <1>7, <1>8, <1>9 DEF CascadeInv

LEMMA DisableByCommandKeeps ==
  ASSUME CascadeInv, NEW t \in Thread, NEW s \in Service, DisableByCommand(t, s)
  PROVE  CascadeInv'
<1>1. /\ ext \in Known /\ asked \in Known /\ ext[s].state = "enabled"
      /\ ext' = [ext EXCEPT ![s].state = "installed"]
      /\ asked' = [asked EXCEPT ![s].state = "installed"]
  BY DEF CascadeInv, CascadeTyped, DisableByCommand
<1>2. ext' \in Known /\ asked' \in Known
  <2>1. "installed" \in {"installed", "enabled"}
    OBVIOUS
  <2> QED
    BY <1>1, <2>1, StateChanges
<1>e. /\ ext'[s].state = "installed" /\ asked'[s].state = "installed"
      /\ ext'[s].reqSat = ext[s].reqSat /\ asked'[s].reqSat = asked[s].reqSat
      /\ ext'[s].conn = ext[s].conn /\ asked'[s].conn = asked[s].conn
      /\ \A u \in Service \ {s} : ext'[u] = ext[u] /\ asked'[u] = asked[u]
  BY <1>1, StateChanges
<1>3. \A u \in Service : /\ ext'[u].state = IF u = s THEN "installed" ELSE ext[u].state
                         /\ asked'[u].state = IF u = s THEN "installed" ELSE asked[u].state
                         /\ ext'[u].reqSat = ext[u].reqSat /\ asked'[u].reqSat = asked[u].reqSat
                         /\ ext'[u].conn = ext[u].conn /\ asked'[u].conn = asked[u].conn
  BY <1>e
<1>4. /\ stack' \in [Thread -> Seq(Nat \ {0})]
      /\ CallsSame
      /\ \A v \in Service : Ahead(v)'
  BY ScanStarts DEF CascadeInv, DisableByCommand
<1>5. CascadeTyped' /\ DoomedAhead'
  BY <1>2, <1>4 DEF CascadeInv, CascadeTyped, DoomedAhead, DisableByCommand
<1>6. Alike' /\ CallsForListed'
  BY <1>3, <1>4 DEF CascadeInv, Alike, CallsForListed, CallsSame, DisableByCommand
<1>7. CallersDemoted' /\ CalledOnce'
  <2>1. \A u \in Thread, d \in Nat : ~Calling(u, d, s)
    BY <1>1 DEF CascadeInv, CallersDemoted
  <2>2. ASSUME NEW u \in Thread, NEW d \in Nat, NEW v \in Service, Calling(u, d, v)'
        PROVE  (ext[v].state = "installed" /\ asked[v].state = "enabled" /\ ~ext[v].reqSat)'
    <3>1. Calling(u, d, v)
      BY <1>4, <2>2 DEF CallsSame
    <3>2. ext[v].state = "installed" /\ asked[v].state = "enabled" /\ ~ext[v].reqSat
      BY <3>1 DEF CascadeInv, CallersDemoted
    <3>3. v # s
      BY <2>1, <3>1
    <3> QED
      BY <1>3, <3>2, <3>3
  <2>3. CallersDemoted'
    BY <2>2 DEF CallersDemoted
  <2>4. CalledOnce'
    BY <1>4 DEF CascadeInv, CalledOnce, CallsSame
  <2> QED
    BY <2>3, <2>4
<1>8. KeptBelieved'
  <2>1. Believed(asked') = Believed(asked) \ {s} /\ Believed(ext') = Believed(ext) \ {s}
    BY <1>3 DEF Believed
  <2>2. Kept(asked') \subseteq Kept(asked)
    BY <1>1, <1>2, <1>3, <2>1, KeptShrinks
  <2>3. Kept(asked') \subseteq Believed(asked')
    BY DEF Kept
  <2> QED
    BY <2>1, <2>2, <2>3 DEF CascadeInv, KeptBelieved
<1>9. row' = Save(ext')
  BY DEF DisableByCommand
<1> QED
  BY <1>5, <1>6, <1>7, <1>8, <1>9 DEF CascadeInv

\* Steps that leave the profiles alone, call nobody, return from no call and put nobody behind.
LEMMA OnlyStackMoves ==
  ASSUME CascadeInv, UNCHANGED <<ext, row, registered, list, asked>>,
         stack' \in [Thread -> Seq(Nat \ {0})],
         CallsSame,
         \A s \in Service : Doomed(s) /\ Ahead(s) => Ahead(s)'
  PROVE  CascadeInv'
<1>1. CascadeTyped'
  BY DEF CascadeInv, CascadeTyped
<1>2. Alike' /\ CallsForListed'
  BY DEF CascadeInv, Alike, CallsForListed, CallsSame
<1>3. CallersDemoted' /\ CalledOnce'
  BY DEF CascadeInv, CallersDemoted, CalledOnce, CallsSame
<1>4. KeptBelieved' /\ row' = Save(ext')
  BY DEF CascadeInv, KeptBelieved
<1>5. DoomedAhead'
  BY DEF CascadeInv, DoomedAhead, Doomed
<1> QED
  BY <1>1, <1>2, <1>3, <1>4, <1>5 DEF CascadeInv

LEMMA PassKeeps ==
  ASSUME CascadeInv, NEW t \in Thread, Pass(t)
  PROVE  CascadeInv'
<1> DEFINE z == stack[t]
<1>1. z \in Seq(Nat \ {0}) /\ z # <<>> /\ Len(z) \in Nat /\ stack \in [Thread -> Seq(Nat \ {0})]
  BY LenProperties DEF CascadeInv, CascadeTyped, Pass, Scanning
<1>2. stack' = [stack EXCEPT ![t] = [z EXCEPT ![Len(z)] = @ + 1]]
  BY DEF Pass, Depth
<1>3. \A u \in Thread \ {t} : stack'[u] = stack[u]
  BY <1>1, <1>2
<1>4. /\ stack'[t] \in Seq(Nat \ {0}) /\ Len(stack'[t]) = Len(z)
      /\ \A d \in 1..Len(z) : stack'[t][d] = IF d = Len(z) THEN z[d] + 1 ELSE z[d]
  BY <1>1, <1>2, ScanMoves
<1>5. UNCHANGED <<ext, row, registered, list, asked>> /\ ~Doomed(list[z[Len(z)]])
  BY DEF Pass, Looked, Index, Depth
<1> HIDE DEF z
<1>6. stack' \in [Thread -> Seq(Nat \ {0})]
  BY <1>1, <1>2, <1>4
<1>7. ASSUME NEW u \in Thread, NEW d \in Nat
      PROVE  /\ InCall(u, d)' <=> InCall(u, d)
             /\ \A s \in Service : Calling(u, d, s)' <=> Calling(u, d, s)
  <2>1. CASE u = t
    <3>1. ASSUME NEW c \in 1..Len(z) - 1 PROVE stack'[t][c] = z[c]
      <4>1. c \in 1..Len(z) /\ c # Len(z)
        BY <1>1
      <4> QED
        BY <1>4, <4>1
    <3> QED
      <4>1. InCall(t, d)' <=> InCall(t, d)
        BY <1>4 DEF InCall, z
      <4>2. InCall(t, d) => stack'[t][d] = stack[t][d]
        BY <3>1 DEF InCall, z
      <4> QED
        BY <1>5, <2>1, <4>1, <4>2 DEF Calling
  <2>2. CASE u # t
    BY <1>3, <1>5, <2>2 DEF Calling, InCall
  <2> QED
    BY <2>1, <2>2
<1>8. ASSUME NEW s \in Service, Doomed(s), Ahead(s) PROVE Ahead(s)'
  <2>1. PICK u \in Thread : \E d \in 1..Len(stack[u]) : \E n \in stack[u][d]..N : list[n] = s
    BY <1>8 DEF Ahead
  <2>2. PICK d \in 1..Len(stack[u]) : \E n \in stack[u][d]..N : list[n] = s
    BY <2>1
  <2>3. PICK n \in stack[u][d]..N : list[n] = s
    BY <2>2
  <2>4. CASE u = t /\ d = Len(z)
    <3>1. n # z[Len(z)] /\ z[Len(z)] \in Nat /\ N \in Nat
      BY <1>1, <1>5, <1>8, <2>3, <2>4, ElementOfSeq, ListComplete DEF CascadeInv, CascadeTyped, z
    <3>2. n \in z[Len(z)] + 1..N
      BY <2>3, <2>4, <3>1 DEF z
    <3>3. d \in 1..Len(stack'[t]) /\ n \in stack'[t][d]..N
      BY <1>1, <1>4, <2>2, <2>4, <3>2 DEF z
    <3> QED
      BY <1>5, <2>3, <3>3 DEF Ahead
  <2>5. CASE ~(u = t /\ d = Len(z))
    <3>1. Len(stack'[u]) = Len(stack[u]) /\ stack'[u][d] = stack[u][d]
      BY <1>3, <1>4, <2>2, <2>5 DEF z
    <3> QED
      BY <1>5, <2>2, <2>3, <3>1 DEF Ahead
  <2> QED
    BY <2>4, <2>5
<1> QED
  BY <1>5, <1>6, <1>7, <1>8, OnlyStackMoves DEF CallsSame

LEMMA EndScanKeeps ==
  ASSUME CascadeInv, NEW t \in Thread, EndScan(t)
  PROVE  CascadeInv'
<1>1. /\ stack[t] \in Seq(Nat \ {0}) /\ Len(stack[t]) = 1 /\ stack \in [Thread -> Seq(Nat \ {0})]
      /\ stack[t][1] \in Nat \ {0} /\ stack[t][1] \notin DOMAIN list
  BY ElementOfSeq DEF CascadeInv, CascadeTyped, EndScan, Depth, Scanning, Index
<1>2. stack'[t] = <<>> /\ \A u \in Thread \ {t} : stack'[u] = stack[u]
  BY <1>1 DEF EndScan
<1>3. UNCHANGED <<ext, row, registered, list, asked>>
  BY DEF EndScan
<1>4. stack' \in [Thread -> Seq(Nat \ {0})]
  BY <1>1 DEF EndScan
<1>5. ASSUME NEW u \in Thread, NEW d \in Nat
      PROVE  /\ InCall(u, d)' <=> InCall(u, d)
             /\ \A s \in Service : Calling(u, d, s)' <=> Calling(u, d, s)
  <2>1. CASE u = t
    <3>1. Len(stack'[t]) = 0
      BY <1>2
    <3>2. ~InCall(t, d)' /\ ~InCall(t, d)
      BY <1>1, <3>1 DEF InCall
    <3> QED
      BY <2>1, <3>2 DEF Calling
  <2>2. CASE u # t
    BY <1>2, <1>3, <2>2 DEF Calling, InCall
  <2> QED
    BY <2>1, <2>2
<1>6. ASSUME NEW s \in Service, Ahead(s) PROVE Ahead(s)'
  <2>1. PICK u \in Thread : \E d \in 1..Len(stack[u]) : \E n \in stack[u][d]..N : list[n] = s
    BY <1>6 DEF Ahead
  <2>2. u # t
    <3>1. DOMAIN list = 1..N /\ N \in Nat
      BY ListComplete DEF CascadeInv, CascadeTyped
    <3>2. stack[t][1]..N = {}
      BY <1>1, <3>1
    <3> QED
      BY <1>1, <2>1, <3>2
  <2> QED
    BY <1>2, <1>3, <2>1, <2>2 DEF Ahead
<1> QED
  BY <1>3, <1>4, <1>5, <1>6, OnlyStackMoves DEF CallsSame

\* A service is disabled because it cannot go on: it is none of those that are kept, and nobody's
\* caller.  The new scan has everybody ahead.
LEMMA DisableLookedKeeps ==
  ASSUME CascadeInv, NEW t \in Thread, DisableLooked(t)
  PROVE  CascadeInv'
<1>z. PICK z : z = stack[t]
  OBVIOUS
<1>s. PICK s : s = Looked(t)
  OBVIOUS
<1>1. z \in Seq(Nat \ {0}) /\ z # <<>> /\ Len(z) \in Nat \ {0} /\ stack \in [Thread -> Seq(Nat \ {0})]
  BY <1>z, LenProperties, EmptySeq DEF CascadeInv, CascadeTyped, DisableLooked, Scanning
<1>2. s \in Service /\ s = list[z[Len(z)]]
  BY <1>z, <1>s, ListComplete
  DEF CascadeInv, CascadeTyped, DisableLooked, Scanning, Looked, Index, Depth
<1>3. ext \in Known /\ asked \in Known /\ s \in Believed(ext) /\ UNCHANGED <<list, asked>>
  BY <1>s DEF CascadeInv, CascadeTyped, DisableLooked, Doomed
<1>4. /\ ext' \in Known /\ \A u \in Service \ {s} : ext'[u] = ext[u]
      /\ ext'[s].state = "installed" /\ ~ext'[s].reqSat /\ ext'[s].conn = ext[s].conn
  <2>1. ext' = [ext EXCEPT ![s].reqSat = FALSE, ![s].state = "installed"]
    BY <1>s DEF DisableLooked
  <2>2. ext[s] \in KnownProfile
    BY <1>2, <1>3 DEF Known
  <2>3. PICK p \in KnownProfile :
          /\ p.state = "installed" /\ ~p.reqSat /\ p.conn = ext[s].conn
          /\ ext' = [ext EXCEPT ![s] = p]
    <3>1. [ext[s] EXCEPT !.reqSat = FALSE, !.state = "installed"] \in KnownProfile
      BY <2>2 DEF KnownProfile
    <3>2. ext' = [ext EXCEPT ![s] = [ext[s] EXCEPT !.reqSat = FALSE, !.state = "installed"]]
      BY <1>2, <1>3, <2>1 DEF Known
    <3> QED
      BY <2>2, <3>1, <3>2 DEF KnownProfile
  <2> QED
    BY <1>2, <1>3, <2>3 DEF Known
<1>5. stack' = [stack EXCEPT ![t] = Append(z, 1)]
  BY <1>z DEF DisableLooked
<1>6. registered' = registered \ {s} /\ row' = Save(ext')
  BY <1>s DEF DisableLooked
<1>7. s \notin Kept(asked)
  <2> SUFFICES ASSUME s \in Kept(asked) PROVE FALSE
    OBVIOUS
  <2>1. PICK r \in EnableRequirements(ext, s) : ~Running(ext, r)
    BY <1>s DEF DisableLooked, Doomed, IsReqSatisfied
  <2>2. r \in EnableRequirements(asked, s)
    BY <1>2, <1>3, <2>1 DEF Known, KnownProfile, EnableRequirements
  <2>3. r \in Kept(asked) /\ asked[r].conn
    <3>1. SelfSupporting(asked, Kept(asked))
      BY <1>3, KnownAreProfiles, KeptIsSelfSupporting
    <3> QED
      BY <2>2, <3>1 DEF SelfSupporting
  <2>4. r \in Service /\ r \in Believed(ext)
    BY <2>3 DEF CascadeInv, KeptBelieved, Believed
  <2>5. ext[r].conn = asked[r].conn
    BY <2>4 DEF CascadeInv, Alike
  <2> QED
    BY <2>1, <2>3, <2>4, <2>5 DEF Running, Believed
<1>8. ext[s].state = "enabled" /\ ext[s].reqSat
  BY <1>3 DEF Believed
<1>9. \A u \in Thread, d \in Nat : ~Calling(u, d, s)
  BY <1>2, <1>8 DEF CascadeInv, CallersDemoted
<1>10. asked[s].state = "enabled" /\ asked[s].reqSat
  BY <1>2, <1>8, <1>9 DEF CascadeInv, Alike
<1>11. /\ stack'[t] \in Seq(Nat \ {0}) /\ Len(stack'[t]) = Len(z) + 1
       /\ \A d \in 1..Len(z) + 1 : stack'[t][d] = IF d = Len(z) + 1 THEN 1 ELSE z[d]
       /\ \A u \in Thread \ {t} : stack'[u] = stack[u]
       /\ stack' \in [Thread -> Seq(Nat \ {0})]
  BY <1>1, <1>5, ScanCalls
<1>12. ASSUME NEW u \in Thread, NEW d \in Nat
       PROVE  /\ InCall(u, d)' <=> InCall(u, d) \/ (u = t /\ d = Len(z))
              /\ \A v \in Service : Calling(u, d, v)' <=>
                                      Calling(u, d, v) \/ (u = t /\ d = Len(z) /\ v = s)
  <2>1. CASE u = t
    <3>1. InCall(t, d)' <=> InCall(t, d) \/ d = Len(z)
      BY <1>z, <1>1, <1>11 DEF InCall
    <3>2. InCall(t, d)' => stack'[t][d] = z[d]
      <4> SUFFICES ASSUME InCall(t, d)' PROVE stack'[t][d] = z[d]
        OBVIOUS
      <4>1. d \in 1..Len(z) + 1 /\ d # Len(z) + 1
        BY <1>1, <1>11 DEF InCall
      <4> QED
        BY <1>11, <4>1
    <3>3. ~InCall(t, Len(z))
      BY <1>z, <1>1 DEF InCall
    <3>4. ASSUME NEW v \in Service
          PROVE  Calling(t, d, v)' <=> Calling(t, d, v) \/ (d = Len(z) /\ v = s)
      <4>1. CASE d = Len(z)
        BY <1>2, <1>3, <3>1, <3>2, <3>3, <4>1 DEF Calling
      <4>2. CASE d # Len(z)
        BY <1>z, <1>3, <3>1, <3>2, <4>2 DEF Calling
      <4> QED
        BY <4>1, <4>2
    <3> QED
      BY <2>1, <3>1, <3>4
  <2>2. CASE u # t
    <3>1. stack'[u] = stack[u] /\ list' = list
      BY <1>3, <1>11, <2>2
    <3> QED
      BY <2>2, <3>1 DEF Calling, InCall
  <2> QED
    BY <2>1, <2>2
<1>13. CascadeTyped' /\ CallsForListed'
  <2>1. CascadeTyped'
    BY <1>3, <1>4, <1>11 DEF CascadeInv, CascadeTyped
  <2>2. CallsForListed'
    BY <1>2, <1>12 DEF CascadeInv, CallsForListed
  <2> QED
    BY <2>1, <2>2
<1>14. Alike'
  <2> SUFFICES ASSUME NEW v \in Service
               PROVE  /\ ext'[v].conn = asked[v].conn
                      /\ ext'[v].reqSat => asked[v].reqSat
                      /\ asked[v].reqSat /\ ~ext'[v].reqSat => v \notin registered'
                      /\ ext'[v].state # asked[v].state =>
                           \E u \in Thread : \E d \in Nat : Calling(u, d, v)'
    BY <1>3 DEF Alike
  <2>1. CASE v = s
    <3>1. Calling(t, Len(z), s)'
      <4>1. Len(z) \in Nat /\ s \in Service
        BY <1>1, <1>2
      <4> QED
        BY <1>12, <4>1
    <3>2. ext'[s].conn = asked[s].conn
      BY <1>2, <1>4 DEF CascadeInv, Alike
    <3>3. Len(z) \in Nat
      BY <1>1
    <3> QED
      BY <1>4, <1>6, <2>1, <3>1, <3>2, <3>3
  <2>2. CASE v # s
    <3>1. ext'[v] = ext[v] /\ (v \in registered' => v \in registered)
      BY <1>4, <1>6, <2>2
    <3> QED
      BY <1>12, <3>1 DEF CascadeInv, Alike
  <2> QED
    BY <2>1, <2>2
<1>15. CallersDemoted'
  <2> SUFFICES ASSUME NEW u \in Thread, NEW d \in Nat, NEW v \in Service, Calling(u, d, v)'
               PROVE  ext'[v].state = "installed" /\ asked[v].state = "enabled" /\ ~ext'[v].reqSat
    BY <1>3 DEF CallersDemoted
  <2>1. CASE v = s
    BY <1>4, <1>10, <2>1
  <2>2. CASE v # s
    <3>1. Calling(u, d, v) /\ ext'[v] = ext[v]
      BY <1>4, <1>12, <2>2
    <3> QED
      BY <3>1 DEF CascadeInv, CallersDemoted
  <2> QED
    BY <2>1, <2>2
<1>16. CalledOnce'
  <2> SUFFICES ASSUME NEW u \in Thread, NEW w \in Thread, NEW d \in Nat, NEW c \in Nat,
                      NEW v \in Service, Calling(u, d, v)', Calling(w, c, v)'
               PROVE  u = w /\ d = c
    BY DEF CalledOnce
  <2>1. CASE v = s
    BY <1>9, <1>12, <2>1
  <2>2. CASE v # s
    <3>1. Calling(u, d, v) /\ Calling(w, c, v)
      BY <1>12, <2>2
    <3> QED
      BY <3>1 DEF CascadeInv, CalledOnce
  <2> QED
    BY <2>1, <2>2
<1>17. KeptBelieved'
  <2>1. Believed(ext) \ {s} \subseteq Believed(ext')
    BY <1>4 DEF Believed
  <2> QED
    BY <1>3, <1>7, <2>1 DEF CascadeInv, KeptBelieved
<1>18. DoomedAhead'
  <2>1. Len(z) + 1 \in 1..Len(stack'[t]) /\ stack'[t][Len(z) + 1] = 1
    BY <1>1, <1>11
  <2>2. \A v \in Service : \E n \in 1..N : list'[n] = v
    BY <1>3, ListComplete DEF CascadeInv, CascadeTyped
  <2>3. \A v \in Service : Ahead(v)'
    BY <2>1, <2>2 DEF Ahead
  <2> QED
    BY <2>3 DEF DoomedAhead
<1> QED
  BY <1>6, <1>13, <1>14, <1>15, <1>16, <1>17, <1>18 DEF CascadeInv

\* disableService() returns: its service is what was asked for again, and runs no more than
\* before, so that nobody's requirements change.
LEMMA RestoreDisabledKeeps ==
  ASSUME CascadeInv, NEW t \in Thread, RestoreDisabled(t)
  PROVE  CascadeInv'
<1>z. PICK z : z = stack[t]
  OBVIOUS
<1>k. PICK k : k = Len(z) - 1
  OBVIOUS
<1>s. PICK s : s = list[z[k]]
  OBVIOUS
<1>1. /\ z \in Seq(Nat \ {0}) /\ Len(z) \in Nat /\ Len(z) > 1 /\ stack \in [Thread -> Seq(Nat \ {0})]
      /\ k \in Nat \ {0}
      /\ \A d \in 1..Len(z) : z[d] \in Nat \ {0}
  <2>1. stack \in [Thread -> Seq(Nat \ {0})] /\ z \in Seq(Nat \ {0}) /\ Len(z) > 1
    BY <1>z DEF CascadeInv, CascadeTyped, RestoreDisabled, Depth
  <2>2. Len(z) \in Nat
    BY <2>1, LenProperties
  <2>3. \A d \in 1..Len(z) : z[d] \in Nat \ {0}
    BY <2>1, ElementOfSeq
  <2>4. k \in Nat \ {0}
    BY <1>k, <2>1, <2>2
  <2> QED
    BY <2>1, <2>2, <2>3, <2>4
<1>2. SubSeq(z, 1, Len(z) - 1)[k] = z[k]
  BY <1>k, <1>1, ScanReturns
<1>3. /\ ext' = [ext EXCEPT ![s].state = "enabled"] /\ row' = Save(ext')
      /\ stack' = [stack EXCEPT ![t] = [SubSeq(z, 1, Len(z) - 1) EXCEPT
                                          ![Len(z) - 1] = SubSeq(z, 1, Len(z) - 1)[Len(z) - 1] + 1]]
      /\ UNCHANGED <<registered, list, asked>>
  BY <1>z, <1>k, <1>s, <1>2 DEF RestoreDisabled, Depth
<1>4. z[Len(z)] \notin DOMAIN list
  BY <1>z, <1>1, EmptySeq DEF RestoreDisabled, Scanning, Index, Depth
<1>5. Calling(t, k, s) /\ s \in Service
  <2>1. InCall(t, k)
    BY <1>z, <1>k, <1>1 DEF InCall
  <2>2. PICK v \in Service : Calling(t, k, v)
    BY <1>1, <2>1 DEF CascadeInv, CallsForListed
  <2> QED
    BY <1>z, <1>s, <2>2 DEF Calling
<1>6. ext[s].state = "installed" /\ asked[s].state = "enabled" /\ ~ext[s].reqSat
  BY <1>1, <1>5 DEF CascadeInv, CallersDemoted
<1>7. /\ ext' \in Known /\ \A u \in Service \ {s} : ext'[u] = ext[u]
      /\ ext'[s].state = "enabled" /\ ext'[s].reqSat = ext[s].reqSat /\ ext'[s].conn = ext[s].conn
  <2>1. ext \in Known /\ ext[s] \in KnownProfile
    BY <1>5 DEF CascadeInv, CascadeTyped, Known
  <2>2. PICK p \in KnownProfile :
          /\ p.state = "enabled" /\ p.reqSat = ext[s].reqSat /\ p.conn = ext[s].conn
          /\ ext' = [ext EXCEPT ![s] = p]
    <3>1. [ext[s] EXCEPT !.state = "enabled"] \in KnownProfile
      BY <2>1 DEF KnownProfile
    <3> QED
      BY <1>3, <2>1, <3>1 DEF KnownProfile
  <2> QED
    BY <1>5, <2>1, <2>2 DEF Known
<1>8. /\ stack'[t] \in Seq(Nat \ {0}) /\ Len(stack'[t]) = k
      /\ \A d \in 1..k : stack'[t][d] = IF d = k THEN z[d] + 1 ELSE z[d]
      /\ \A u \in Thread \ {t} : stack'[u] = stack[u]
      /\ stack' \in [Thread -> Seq(Nat \ {0})]
  <2>1. LET outer == SubSeq(z, 1, Len(z) - 1)
            r == [outer EXCEPT ![Len(z) - 1] = outer[Len(z) - 1] + 1]
        IN  /\ r \in Seq(Nat \ {0}) /\ Len(r) = Len(z) - 1
            /\ \A d \in 1..Len(z) - 1 : r[d] = IF d = Len(z) - 1 THEN z[d] + 1 ELSE z[d]
    BY <1>1, ScanReturns
  <2>2. PICK r : /\ r \in Seq(Nat \ {0}) /\ Len(r) = k
                 /\ \A d \in 1..k : r[d] = IF d = k THEN z[d] + 1 ELSE z[d]
                 /\ stack' = [stack EXCEPT ![t] = r]
    BY <1>k, <1>3, <2>1
  <2> QED
    BY <1>1, <2>2
<1>9. ASSUME NEW u \in Thread, NEW d \in Nat
      PROVE  /\ InCall(u, d)' <=> InCall(u, d) /\ ~(u = t /\ d = k)
             /\ \A v \in Service : Calling(u, d, v)' <=> Calling(u, d, v) /\ ~(u = t /\ d = k)
  <2>1. CASE u = t
    <3>1. InCall(t, d)' <=> InCall(t, d) /\ d # k
      BY <1>z, <1>k, <1>1, <1>8 DEF InCall
    <3>2. InCall(t, d)' => stack'[t][d] = stack[t][d]
      <4> SUFFICES ASSUME InCall(t, d)' PROVE stack'[t][d] = z[d]
        BY <1>z
      <4>1. d \in 1..k /\ d # k
        BY <1>1, <1>8 DEF InCall
      <4> QED
        BY <1>8, <4>1
    <3> QED
      BY <1>3, <2>1, <3>1, <3>2 DEF Calling
  <2>2. CASE u # t
    <3>1. stack'[u] = stack[u] /\ list' = list
      BY <1>3, <1>8, <2>2
    <3> QED
      BY <2>2, <3>1 DEF Calling, InCall
  <2> QED
    BY <2>1, <2>2
<1>10. \A u \in Thread, d \in Nat : ~Calling(u, d, s)'
  <2> SUFFICES ASSUME NEW u \in Thread, NEW d \in Nat, Calling(u, d, s)' PROVE FALSE
    OBVIOUS
  <2>1. Calling(u, d, s) /\ ~(u = t /\ d = k)
    BY <1>5, <1>9
  <2>2. k \in Nat
    BY <1>1
  <2> QED
    BY <1>5, <2>1, <2>2 DEF CascadeInv, CalledOnce
<1>11. CascadeTyped' /\ CallsForListed'
  <2>1. CascadeTyped'
    BY <1>3, <1>7, <1>8 DEF CascadeInv, CascadeTyped
  <2>2. CallsForListed'
    BY <1>9 DEF CascadeInv, CallsForListed
  <2> QED
    BY <2>1, <2>2
<1>12. Alike'
  <2> SUFFICES ASSUME NEW v \in Service
               PROVE  /\ ext'[v].conn = asked[v].conn
                      /\ ext'[v].reqSat => asked[v].reqSat
                      /\ asked[v].reqSat /\ ~ext'[v].reqSat => v \notin registered
                      /\ ext'[v].state # asked[v].state =>
                           \E u \in Thread : \E d \in Nat : Calling(u, d, v)'
    BY <1>3 DEF Alike
  <2>1. CASE v = s
    BY <1>6, <1>7, <2>1 DEF CascadeInv, Alike
  <2>2. CASE v # s
    <3>1. ext'[v] = ext[v]
      BY <1>7, <2>2
    <3>2. ASSUME NEW u \in Thread, NEW d \in Nat, Calling(u, d, v) PROVE Calling(u, d, v)'
      <4>1. ~(u = t /\ d = k)
        BY <1>5, <2>2, <3>2 DEF Calling
      <4> QED
        BY <1>9, <3>2, <4>1
    <3> QED
      BY <3>1, <3>2 DEF CascadeInv, Alike
  <2> QED
    BY <2>1, <2>2
<1>13. CallersDemoted' /\ CalledOnce'
  <2>1. CallersDemoted'
    <3> SUFFICES ASSUME NEW u \in Thread, NEW d \in Nat, NEW v \in Service, Calling(u, d, v)'
                 PROVE  ext'[v].state = "installed" /\ asked[v].state = "enabled" /\ ~ext'[v].reqSat
      BY <1>3 DEF CallersDemoted
    <3>1. Calling(u, d, v)'
      OBVIOUS
    <3>2. Calling(u, d, v) /\ v # s
      BY <1>9, <1>10, <3>1
    <3>3. ext'[v] = ext[v]
      BY <1>7, <3>2
    <3> QED
      BY <3>2, <3>3 DEF CascadeInv, CallersDemoted
  <2>2. CalledOnce'
    BY <1>9 DEF CascadeInv, CalledOnce
  <2> QED
    BY <2>1, <2>2
<1>14. Believed(ext') = Believed(ext)
  BY <1>6, <1>7 DEF Believed
<1>15. KeptBelieved'
  BY <1>3, <1>14 DEF CascadeInv, KeptBelieved
<1>16. DoomedAhead'
  <2> SUFFICES ASSUME NEW v \in Service, Doomed(v)' PROVE Ahead(v)'
    BY DEF DoomedAhead
  <2>1. \A u \in Service : Running(ext', u) <=> Running(ext, u)
    BY <1>6, <1>7 DEF Running
  <2>2. \A u \in Service : EnableRequirements(ext', u) = EnableRequirements(ext, u)
    <3>1. ext \in Known
      BY DEF CascadeInv, CascadeTyped
    <3> QED
      BY <1>7, <3>1 DEF Known, KnownProfile, EnableRequirements
  <2>3. EnableRequirements(ext, v) \subseteq Service
    BY RequirementsAssumption DEF EnableRequirements
  <2>4. Doomed(v) /\ v # s
    <3>1. v \in Believed(ext)
      BY <1>14 DEF Doomed
    <3>2. ~IsReqSatisfied(ext, EnableRequirements(ext, v))
      BY <2>1, <2>2, <2>3 DEF Doomed, IsReqSatisfied
    <3> QED
      BY <1>6, <3>1, <3>2 DEF Doomed, Believed
  <2>5. PICK u \in Thread : \E d \in 1..Len(stack[u]) : \E n \in stack[u][d]..N : list[n] = v
    BY <2>4 DEF CascadeInv, DoomedAhead, Ahead
  <2>6. PICK d \in 1..Len(stack[u]) : \E n \in stack[u][d]..N : list[n] = v
    BY <2>5
  <2>7. PICK n \in stack[u][d]..N : list[n] = v
    BY <2>6
  <2>8. CASE u # t
    <3>1. stack'[u] = stack[u]
      BY <1>8, <2>8
    <3> QED
      BY <1>3, <2>6, <2>7, <3>1 DEF Ahead
  <2>9. CASE u = t /\ d = Len(z)
    <3>1. DOMAIN list = 1..N /\ N \in Nat
      BY ListComplete DEF CascadeInv, CascadeTyped
    <3>2. z[Len(z)]..N = {}
      <4>1. z[Len(z)] \in Nat \ {0}
        BY <1>1
      <4> QED
        BY <1>4, <3>1, <4>1
    <3> QED
      BY <1>z, <2>7, <2>9, <3>2
  <2>10. CASE u = t /\ d = k
    <3>1. n # z[k] /\ z[k] \in Nat /\ N \in Nat
      BY <1>z, <1>s, <1>1, <2>4, <2>6, <2>7, <2>10, ListComplete DEF CascadeInv, CascadeTyped
    <3>2. n \in z[k] + 1..N
      BY <1>z, <2>7, <2>10, <3>1
    <3>3. k \in 1..Len(stack'[t]) /\ stack'[t][k] = z[k] + 1
      BY <1>1, <1>8
    <3> QED
      BY <1>3, <2>7, <3>2, <3>3 DEF Ahead
  <2>11. CASE u = t /\ d # k /\ d # Len(z)
    <3>1. d \in 1..Len(stack'[t]) /\ stack'[t][d] = stack[t][d]
      <4>1. d \in 1..Len(z) /\ d # Len(z) - 1 /\ d # Len(z)
      BY <1>z, <1>k, <2>6, <2>11
    <4>2. d \in 1..k
      BY <1>k, <1>1, <4>1
    <4> QED
      BY <1>z, <1>8, <2>11, <4>2
    <3> QED
      BY <1>3, <2>7, <2>11, <3>1 DEF Ahead
  <2> QED
    BY <2>8, <2>9, <2>10, <2>11
<1> QED
  BY <1>3, <1>11, <1>12, <1>13, <1>15, <1>16 DEF CascadeInv

-----------------------------------------------------------------------------
LEMMA CascadeInvInitially == CascadeInit => CascadeInv
<1> SUFFICES ASSUME CascadeInit PROVE CascadeInv
  OBVIOUS
<1>1. CascadeTyped /\ asked = ext /\ row = Save(ext)
  <2>1. ext \in Known
    BY DEF CascadeInit, Before, Known, KnownProfile
  <2>2. [u \in Thread |-> <<>>] \in [Thread -> Seq(Nat \ {0})]
    BY EmptySeq
  <2> QED
    BY <2>1, <2>2 DEF CascadeInit, CascadeTyped
<1>2. \A t \in Thread, d \in Nat : ~InCall(t, d)
  BY DEF CascadeInit, InCall
<1>3. CallsForListed /\ CallersDemoted /\ CalledOnce
  BY <1>2 DEF CallsForListed, CallersDemoted, CalledOnce, Calling
<1>4. Alike
  BY <1>1 DEF Alike
<1>5. KeptBelieved
  BY <1>1 DEF KeptBelieved, Kept
<1>6. ASSUME NEW s \in Service PROVE ~Doomed(s)
  <2>1. ext \in Before
    BY DEF CascadeInit
  <2>2. s \in Believed(ext) => Running(ext, s)
    BY <2>1 DEF Before, Believed, Running
  <2> QED
    BY <2>1, <2>2 DEF Before, Settled, Doomed
<1> QED
  BY <1>1, <1>3, <1>4, <1>5, <1>6 DEF CascadeInv, DoomedAhead

LEMMA CascadeStep == CascadeInv /\ [CascadeNext]_cascadeVars => CascadeInv'
<1> SUFFICES ASSUME CascadeInv, [CascadeNext]_cascadeVars PROVE CascadeInv'
  OBVIOUS
<1>1. CASE UNCHANGED cascadeVars
  <2>1. \A t \in Thread, d \in Nat : InCall(t, d)' <=> InCall(t, d)
    BY <1>1 DEF InCall, cascadeVars
  <2>2. \A t \in Thread, d \in Nat, s \in Service : Calling(t, d, s)' <=> Calling(t, d, s)
    BY <1>1, <2>1 DEF Calling, cascadeVars
  <2>3. \A s \in Service : Ahead(s) => Ahead(s)'
    BY <1>1 DEF Ahead, cascadeVars
  <2>4. stack' \in [Thread -> Seq(Nat \ {0})]
    BY <1>1 DEF CascadeInv, CascadeTyped, cascadeVars
  <2> QED
    BY <1>1, <2>1, <2>2, <2>3, <2>4, OnlyStackMoves DEF CallsSame, cascadeVars
<1>2. CASE CascadeNext
  BY <1>2, LoseConnectionKeeps, DisableByCommandKeeps, PassKeeps, DisableLookedKeeps,
     RestoreDisabledKeeps, EndScanKeeps DEF CascadeNext, Scan
<1> QED
  BY <1>1, <1>2

\* requirementsSatisfied, where it means something
Useful(p) == p.reqSat /\ p.state = "enabled"

LEMMA SeenTheSame ==
  ASSUME NEW p \in KnownProfile, NEW q \in KnownProfile,
         q.state = p.state, q.conn = p.conn, Useful(q) <=> Useful(p)
  PROVE  [p EXCEPT !.reqSat = p.reqSat /\ p.state = "enabled"]
           = [q EXCEPT !.reqSat = q.reqSat /\ q.state = "enabled"]
<1>1. (p.reqSat /\ p.state = "enabled") = (q.reqSat /\ q.state = "enabled")
  <2>1. CASE Useful(p)
    BY <2>1, SMT DEF Useful, KnownProfile
  <2>2. CASE ~Useful(p)
    BY <2>2, SMT DEF Useful, KnownProfile
  <2> QED
    BY <2>1, <2>2
<1>2. PICK b : b = (p.reqSat /\ p.state = "enabled")
  OBVIOUS
<1>3. [p EXCEPT !.reqSat = b] = [q EXCEPT !.reqSat = b]
  BY DEF KnownProfile
<1> QED
  BY <1>1, <1>2, <1>3

\* When no scan is under way nobody is left who cannot go on, so that those who go on support
\* each other: they are those that the single step keeps.
LEMMA OverIsAgreed ==
  ASSUME CascadeInv, \A t \in Thread : stack[t] = <<>>
  PROVE  /\ Seen(ext) = Seen(DisableCascade(asked))
         /\ registered \cap Cascaded(asked) = {}
<1>1. /\ ext \in Known /\ asked \in Known
      /\ \A s \in Service : /\ ext[s] \in KnownProfile /\ asked[s] \in KnownProfile
                            /\ ext[s].conn = asked[s].conn /\ (ext[s].reqSat => asked[s].reqSat)
  BY DEF CascadeInv, CascadeTyped, Alike, Known
<1>2. \A s \in Service : ext[s].state = asked[s].state
  <2>1. \A t \in Thread, d \in Nat, s \in Service : ~Calling(t, d, s)
    <3>1. Len(<<>>) = 0
      OBVIOUS
    <3> QED
      BY <3>1 DEF Calling, InCall
  <2> QED
    BY <2>1 DEF CascadeInv, Alike
<1>3. \A s \in Service : ~Doomed(s)
  BY DEF CascadeInv, DoomedAhead, Ahead
<1>4. Believed(ext) = Kept(asked)
  <2>1. Believed(ext) \in SUBSET Believed(asked)
    BY <1>1, <1>2 DEF Believed
  <2>2. SelfSupporting(asked, Believed(ext))
    <3> SUFFICES ASSUME NEW s \in Believed(ext), NEW r \in EnableRequirements(asked, s)
                 PROVE  r \in Believed(ext) /\ asked[r].conn
      BY DEF SelfSupporting
    <3>1. s \in Service /\ ~Doomed(s)
      BY <1>3 DEF Believed
    <3>2. r \in EnableRequirements(ext, s)
      BY <1>1, <3>1 DEF KnownProfile, EnableRequirements
    <3>3. Running(ext, r) /\ r \in Service
      BY <3>1, <3>2, RequirementsAssumption DEF Doomed, IsReqSatisfied, EnableRequirements
    <3> QED
      BY <1>1, <3>3 DEF Running, Believed
  <2>3. Believed(ext) \subseteq Kept(asked)
    BY <2>1, <2>2 DEF Kept
  <2> QED
    BY <2>3 DEF CascadeInv, KeptBelieved
<1>5. ASSUME NEW s \in Service
      PROVE  /\ DisableCascade(asked)[s] \in KnownProfile
             /\ DisableCascade(asked)[s].state = ext[s].state
             /\ DisableCascade(asked)[s].conn = ext[s].conn
             /\ Useful(DisableCascade(asked)[s]) <=> Useful(ext[s])
  <2>1. CASE s \in Cascaded(asked)
    <3>1. DisableCascade(asked)[s] = [asked[s] EXCEPT !.reqSat = FALSE]
      BY <2>1 DEF DisableCascade
    <3>2. ~Useful(ext[s])
      BY <1>4, <2>1 DEF Cascaded, Believed, Useful
    <3>3. asked[s] \in KnownProfile
      BY <1>1
    <3>4. /\ DisableCascade(asked)[s] \in KnownProfile
          /\ DisableCascade(asked)[s].state = asked[s].state
          /\ DisableCascade(asked)[s].conn = asked[s].conn
          /\ ~DisableCascade(asked)[s].reqSat
      BY <3>1, <3>3 DEF KnownProfile
    <3>5. asked[s].state = ext[s].state /\ asked[s].conn = ext[s].conn
      BY <1>1, <1>2
    <3> QED
      BY <3>2, <3>4, <3>5 DEF Useful
  <2>2. CASE s \notin Cascaded(asked)
    <3>1. DisableCascade(asked)[s] = asked[s]
      BY <2>2 DEF DisableCascade
    <3>2. Kept(asked) \subseteq Believed(asked)
      BY DEF Kept
    <3>3. s \in Believed(asked) <=> s \in Believed(ext)
      BY <1>4, <2>2, <3>2 DEF Cascaded
    <3>4. Useful(asked[s]) <=> Useful(ext[s])
      BY <3>3 DEF Believed, Useful
    <3>5. /\ asked[s] \in KnownProfile
          /\ asked[s].state = ext[s].state
          /\ asked[s].conn = ext[s].conn
      BY <1>1, <1>2
    <3> QED
      BY <3>1, <3>4, <3>5
  <2> QED
    BY <2>1, <2>2
<1>6. \A s \in Service : Seen(ext)[s] = Seen(DisableCascade(asked))[s]
  <2> TAKE s \in Service
  <2>1. /\ Seen(ext)[s] = [ext[s] EXCEPT !.reqSat = ext[s].reqSat /\ ext[s].state = "enabled"]
        /\ Seen(DisableCascade(asked))[s] =
             [DisableCascade(asked)[s] EXCEPT
                !.reqSat = DisableCascade(asked)[s].reqSat
                             /\ DisableCascade(asked)[s].state = "enabled"]
    BY DEF Seen
  <2>2. ext[s] \in KnownProfile
    BY <1>1
  <2> QED
    BY <1>5, <2>1, <2>2, SeenTheSame
<1>7. Seen(ext) = Seen(DisableCascade(asked))
  BY <1>6 DEF Seen
<1>8. ASSUME NEW s \in Cascaded(asked) PROVE s \notin registered
  <2>1. s \in Service /\ asked[s].state = "enabled" /\ asked[s].reqSat /\ s \notin Believed(ext)
    BY <1>4 DEF Cascaded, Believed
  <2>2. ~ext[s].reqSat
    BY <1>2, <2>1 DEF Believed
  <2> QED
    BY <2>1, <2>2 DEF CascadeInv, Alike
<1> QED
  BY <1>7, <1>8

\* Whatever the requirements and the order of the list, and however the scans of the threads
\* interleave: once none is under way the profiles, the table and the nodes are those of the
\* one step that ServiceLifecycle takes for disableIfReqNotSatisfied().
THEOREM RecursionAgrees == CascadeSpec => []CascadesAgree
<1>1. CascadeInv => CascadesAgree
  BY OverIsAgreed DEF CascadesAgree, CascadeInv
<1> QED
  BY <1>1, CascadeInvInitially, CascadeStep, PTL DEF CascadeSpec

\* The table says of a service that it is not enabled, although nobody disabled it, only while a
\* scan has yet to return to it and write it back.
THEOREM DemotionsReturn == CascadeSpec => []DemotedIsOnStack
<1>1. CascadeInv => DemotedIsOnStack
  <2> SUFFICES ASSUME CascadeInv, NEW s \in Service, row[s].state # asked[s].state
               PROVE  \E t \in Thread : \E d \in 1..(Len(stack[t]) - 1) : list[stack[t][d]] = s
    BY DEF DemotedIsOnStack
  <2>1. row[s].state = ext[s].state
    <3>1. ext[s] \in KnownProfile /\ row = Save(ext)
      BY DEF CascadeInv, CascadeTyped, Known
    <3> QED
      BY <3>1 DEF Save, Up, KnownProfile
  <2>2. PICK t \in Thread : \E d \in Nat : Calling(t, d, s)
    BY <2>1 DEF CascadeInv, Alike
  <2> QED
    BY <2>2 DEF Calling, InCall
<1> QED
  BY <1>1, CascadeInvInitially, CascadeStep, PTL DEF CascadeSpec
=============================================================================
