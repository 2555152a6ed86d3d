------------------------ MODULE MCRequirementCascade ------------------------
(* Instances of RequirementCascade: a service on top of two that share one. *)
EXTENDS RequirementCascade, TLC

CONSTANTS base, left, right, top

DiamondReq == [s \in Service |-> IF s = top THEN {left, right}
                                 ELSE IF s = base THEN {} ELSE {base}]

\* dependents first, and between the services they require
SomeLists == {<<top, left, right, base>>, <<left, top, base, right>>}
=============================================================================
