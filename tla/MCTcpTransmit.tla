---------------------------- MODULE MCTcpTransmit ----------------------------
(* One packet to x, which stays or goes, and two to y.                       *)
EXTENDS TcpTransmit

CONSTANTS x1, y1, y2, x, y

to == [p \in {x1, y1, y2} |-> IF p = x1 THEN x ELSE y]
=============================================================================
