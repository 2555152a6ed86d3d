---------------------------- MODULE MCTcpReceive ----------------------------
(* The handler of the first packet waits for the second, as that of a call   *)
(* with a session waits for the answer of the user manager.                  *)
EXTENDS TcpReceive

CONSTANTS first, second

awaits == [p \in {first, second} |-> IF p = first THEN {second} ELSE {}]
=============================================================================
