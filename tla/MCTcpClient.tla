----------------------------- MODULE MCTcpClient -----------------------------
(* Two packets over at most two connections; one try after two seconds,      *)
(* then one after four.                                                      *)
EXTENDS TcpClient

timing == <<2, 1, 4, 1>>
=============================================================================
