------------------------- MODULE RequirementCascade -------------------------
(***************************************************************************)
(* disableIfReqNotSatisfied() and disableService() (Router.cpp) statement  *)
(* by statement, on several receive threads at once.  The two call each    *)
(* other: a scan of the profile list that meets a service without its      *)
(* requirements disables it, which starts a scan from the head of the      *)
(* list, and puts it back to "enabled" when that scan is over.  Nothing    *)
(* locks the list.  ServiceLifecycle takes all of this for one step that   *)
(* yields DisableCascade(ext); here that is a property.                    *)
(***************************************************************************)
EXTENDS ServiceLifecycle, Sequences

CONSTANTS
  Thread,   \* threads that may run a handler
  Lists     \* orders the profile list may have

ASSUME ListsAssumption ==
  /\ IsFiniteSet(Service)
  /\ Lists \subseteq {l \in [1..Cardinality(Service) -> Service] :
                        \A i, j \in DOMAIN l : l[i] = l[j] => i = j}

VARIABLES
  list,     \* the order of extManager.extensionList
  stack,    \* stack[t]: the index of each scan that thread t is in, innermost last
  asked     \* the profiles, had the cascades not touched them

cascadeVars == <<ext, row, registered, owed, job, list, stack, asked>>

\* what is running runs on requirements that run: the state before anything is lost
Before ==
  {e \in [Service -> [state: {"installed", "enabled"}, reqSat: BOOLEAN, cep: {"registered"},
                      conn: BOOLEAN, hasId: {TRUE}, info: {TRUE}]] :
     Settled(e) /\ \A s \in Service : e[s].reqSat => e[s].state = "enabled" /\ e[s].conn}

CascadeInit ==
  /\ ext \in Before
  /\ asked = ext
  /\ row = Save(ext)
  /\ registered = {s \in Service : ext[s].conn}
  /\ owed = [s \in Service |-> NoneOwed]
  /\ job = [s \in Service |-> NoJob]
  /\ list \in Lists
  /\ stack = [t \in Thread |-> <<>>]

-----------------------------------------------------------------------------
(* What starts a scan.                                                     *)

LoseConnection(t, s) ==
  /\ stack[t] = <<>> /\ ext[s].conn
  /\ ext' = [ext EXCEPT ![s].conn = FALSE]
  /\ asked' = [asked EXCEPT ![s].conn = FALSE]
  /\ registered' = registered \ {s}
  /\ stack' = [stack EXCEPT ![t] = <<1>>]
  /\ UNCHANGED <<row, owed, job, list>>

DisableByCommand(t, s) ==
  /\ stack[t] = <<>> /\ ext[s].state = "enabled"
  /\ ext' = [ext EXCEPT ![s].state = "installed"]
  /\ asked' = [asked EXCEPT ![s].state = "installed"]
  /\ registered' = registered \ {s}
  /\ row' = Save(ext')
  /\ stack' = [stack EXCEPT ![t] = <<1>>]
  /\ UNCHANGED <<owed, job, list>>

-----------------------------------------------------------------------------
(* One turn of the innermost loop of a thread.                             *)

Depth(t) == Len(stack[t])
Index(t) == stack[t][Depth(t)]
Scanning(t) == stack[t] # <<>> /\ Index(t) \in DOMAIN list
Looked(t) == list[Index(t)]
Doomed(s) == s \in Believed(ext) /\ ~IsReqSatisfied(ext, EnableRequirements(ext, s))

\* mutant: the index moves on only over services that are enabled
PassOverEnabled(t) ==
  /\ Scanning(t) /\ ~Doomed(Looked(t))
  /\ stack' = [stack EXCEPT ![t][Depth(t)] =
                 @ + (IF ext[Looked(t)].state = "enabled" THEN 1 ELSE 0)]
  /\ UNCHANGED <<ext, row, registered, owed, job, list, asked>>

Pass(t) ==
  /\ Scanning(t) /\ ~Doomed(Looked(t))
  /\ stack' = [stack EXCEPT ![t][Depth(t)] = @ + 1]
  /\ UNCHANGED <<ext, row, registered, owed, job, list, asked>>

\* mutant: no new scan, the loop goes on after the disabled service
DisableWithoutScan(t) ==
  /\ Scanning(t) /\ Doomed(Looked(t))
  /\ ext' = [ext EXCEPT ![Looked(t)].reqSat = FALSE]
  /\ registered' = registered \ {Looked(t)}
  /\ row' = Save(ext')
  /\ stack' = [stack EXCEPT ![t][Depth(t)] = @ + 1]
  /\ UNCHANGED <<owed, job, list, asked>>

\* requirementsSatisfied is cleared, disableService() sets "installed" and scans anew
DisableLooked(t) ==
  /\ Scanning(t) /\ Doomed(Looked(t))
  /\ ext' = [ext EXCEPT ![Looked(t)].reqSat = FALSE, ![Looked(t)].state = "installed"]
  /\ registered' = registered \ {Looked(t)}
  /\ row' = Save(ext')
  /\ stack' = [stack EXCEPT ![t] = Append(@, 1)]
  /\ UNCHANGED <<owed, job, list, asked>>

\* mutant: enabled again, but not saved
RestoreUnsaved(t) ==
  /\ stack[t] # <<>> /\ ~Scanning(t) /\ Depth(t) > 1
  /\ LET outer == SubSeq(stack[t], 1, Depth(t) - 1)
         i == outer[Depth(t) - 1]
     IN /\ ext' = [ext EXCEPT ![list[i]].state = "enabled"]
        /\ stack' = [stack EXCEPT ![t] = [outer EXCEPT ![Depth(t) - 1] = i + 1]]
  /\ UNCHANGED <<row, registered, owed, job, list, asked>>

\* disableService() returns into the scan that called it: enabled again, and saved
RestoreDisabled(t) ==
  /\ stack[t] # <<>> /\ ~Scanning(t) /\ Depth(t) > 1
  /\ LET outer == SubSeq(stack[t], 1, Depth(t) - 1)
         i == outer[Depth(t) - 1]
     IN /\ ext' = [ext EXCEPT ![list[i]].state = "enabled"]
        /\ row' = Save(ext')
        /\ stack' = [stack EXCEPT ![t] = [outer EXCEPT ![Depth(t) - 1] = i + 1]]
  /\ UNCHANGED <<registered, owed, job, list, asked>>

EndScan(t) ==
  /\ stack[t] # <<>> /\ ~Scanning(t) /\ Depth(t) = 1
  /\ stack' = [stack EXCEPT ![t] = <<>>]
  /\ UNCHANGED <<ext, row, registered, owed, job, list, asked>>

Scan(t) == Pass(t) \/ DisableLooked(t) \/ RestoreDisabled(t) \/ EndScan(t)

CascadeNext ==
  \E t \in Thread :
    Scan(t) \/ \E s \in Service : LoseConnection(t, s) \/ DisableByCommand(t, s)

CascadeSpec ==
  CascadeInit /\ [][CascadeNext]_cascadeVars /\ \A t \in Thread : WF_cascadeVars(Scan(t))

-----------------------------------------------------------------------------
\* requirementsSatisfied means nothing in a service that is not enabled: enableService()
\* computes it afresh
Seen(e) == [s \in Service |-> [e[s] EXCEPT !.reqSat = @ /\ e[s].state = "enabled"]]

\* Once no scan is under way the profiles are those of the single step that
\* ServiceLifecycle takes, however the scans of the threads interleaved and in whatever
\* order the list is (Router.cpp:929-942 with 773-786), and the table agrees with them.
CascadesAgree ==
  (\A t \in Thread : stack[t] = <<>>) =>
    /\ Seen(ext) = Seen(DisableCascade(asked))
    /\ row = Save(ext)
    /\ registered \cap Cascaded(asked) = {}

\* The table may say "installed" of a service that nobody disabled, but only while the
\* scan that is to write "enabled" back has not returned: this is what a crash would
\* keep (Router.cpp:783 and 938).
DemotedIsOnStack ==
  \A s \in Service :
    row[s].state # asked[s].state =>
      \E t \in Thread : \E d \in 1..(Len(stack[t]) - 1) : list[stack[t][d]] = s

\* The recursion ends: requirementsSatisfied is cleared before disableService() scans
\* again (Router.cpp:933-936).
ScansEnd == \A t \in Thread : (stack[t] # <<>>) ~> (stack[t] = <<>>)
=============================================================================
