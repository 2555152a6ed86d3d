-------------------------------- MODULE Calls --------------------------------
(* What a synchronous call promises its maker, whatever lies in between: the *)
(* command runs at most once, and a maker that gets something gets what that *)
(* run produced.  A call may also never come back: nothing in the code times *)
(* it out, so the specification promises no progress.                        *)
(*   runCommandSync raises an error answer as an exception.  callCommandSync,*)
(* the variant the core uses for its own calls (Bare), hands it over as data *)
(* or hands over nothing at all in its place.                                *)
CONSTANTS Call, Bare, Nothing

Verdict == {"yes", "no", "error"}
Answer == [of : Call, verdict : Verdict]
Outcome == [how : {"returned", "raised", "refused"}, answer : Answer \cup {Nothing}]

VARIABLES made,      \* calls that were made
          ran,       \* what the handler of a call came to, Nothing before it ran
          outcome    \* what the maker of a call was given, Nothing while it waits
vars == <<made, ran, outcome>>

TypeOK ==
    /\ made \in SUBSET Call
    /\ ran \in [Call -> Verdict \cup {Nothing}]
    /\ outcome \in [Call -> Outcome \cup {Nothing}]

Init ==
    /\ made = {}
    /\ ran = [c \in Call |-> Nothing]
    /\ outcome = [c \in Call |-> Nothing]

Make(c) ==
    /\ c \notin made
    /\ made' = made \cup {c}
    /\ UNCHANGED <<ran, outcome>>

(* A call that does not even go out: its maker gets an exception.            *)
Refuse(c) ==
    /\ c \notin made
    /\ made' = made \cup {c}
    /\ outcome' = [outcome EXCEPT ![c] = [how |-> "refused", answer |-> Nothing]]
    /\ UNCHANGED ran

Run(c) ==
    /\ c \in made
    /\ ran[c] = Nothing
    /\ outcome[c] = Nothing
    /\ \E v \in Verdict : ran' = [ran EXCEPT ![c] = v]
    /\ UNCHANGED <<made, outcome>>

Result(c) ==
    [how |-> IF ran[c] = "error" /\ c \notin Bare THEN "raised" ELSE "returned",
     answer |-> [of |-> c, verdict |-> ran[c]]]

End(c) ==
    /\ c \in made
    /\ outcome[c] = Nothing
    /\ ran[c] # Nothing
    /\ \/ outcome' = [outcome EXCEPT ![c] = Result(c)]
       \/ /\ c \in Bare
          /\ ran[c] = "error"
          /\ outcome' = [outcome EXCEPT ![c] = [how |-> "returned", answer |-> Nothing]]
    /\ UNCHANGED <<made, ran>>

Next == \E c \in Call : Make(c) \/ Refuse(c) \/ Run(c) \/ End(c)

Spec == Init /\ [][Next]_vars
=============================================================================
