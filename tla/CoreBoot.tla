------------------------------ MODULE CoreBoot ------------------------------
(***************************************************************************)
(* The core restarts with services installed: what it finds in the table   *)
(* "services" (ExtensionManager::load), how its services come back one by  *)
(* one (Router::packetReceived, "hello") and how the cascades bring each   *)
(* of them up once what it requires runs.                                  *)
(***************************************************************************)
EXTENDS ServiceLifecycle

CONSTANTS
  BootStates,   \* the states a row may hold when the core restarts
  BootCEP       \* BootCEP[s]: the registration flags the row of s may hold

ASSUME BootAssumption == BootStates \subseteq Up /\ BootCEP \in [Service -> SUBSET CEP]

BootRows == [state: BootStates, cep: CEP, hasId: {TRUE}, info: {TRUE}]

BootInit ==
  /\ row \in {r \in [Service -> BootRows] : \A s \in Service : r[s].cep \in BootCEP[s]}
  /\ ext = Load(row)
  /\ registered = {}
  /\ owed = [s \in Service |-> NoneOwed]
  /\ job = [s \in Service |-> NoJob]

\* Anything may happen after the restart.
BootSpec == BootInit /\ [][Next]_vars

\* A service connects, says hello with the id it was installed with, registers its
\* commands when it is told to enable, and only then answers.
Connects(s) == ~ext[s].conn /\ HelloInstalled(s)
RegistersNodes(s) == owed[s].onEnable > 0 /\ s \notin registered /\ RegisterNodes(s)
AnswersEnable(s) ==
  /\ s \in registered
  /\ OnEnableRegisters(s) \/ OnEnableThrows(s) \/ OnEnableSucceeded(s)

QuietNext ==
  \E s \in Service :
    Connects(s) \/ RegistersNodes(s) \/ AnswersEnable(s) \/ RegisterAnswered(s)

\* Every service keeps trying to connect (TCPClient reconnects), answers what it is
\* asked, and the threads of the core are scheduled; nothing fails and nobody gives commands.
QuietSpec ==
  /\ BootInit /\ [][QuietNext]_vars
  /\ \A s \in Service :
       /\ WF_vars(Connects(s)) /\ WF_vars(RegistersNodes(s))
       /\ WF_vars(AnswersEnable(s)) /\ WF_vars(RegisterAnswered(s))

-----------------------------------------------------------------------------
\* Services whose row asks for them to run, and so do the rows of all they require.
Wanted(r) ==
  UNION {S \in SUBSET {s \in Service : r[s].state \in {"enabling", "enabled"}} :
           \A s \in S : EnableReq[s] \subseteq S}

\* In whatever order the services of an enabled, acyclic set come back, all of them run
\* in the end (hello and enableIfReqSatisfied, Router.cpp:145-146, 917-927).
BootConverges ==
  \A W \in SUBSET Service :
    (W = Wanted(row)) => <>[](\A s \in W : Running(ext, s))
=============================================================================
