----------------------------- MODULE MCCoreBoot -----------------------------
(* Instances of CoreBoot: database <- user manager <- application. *)
EXTENDS CoreBoot, TLC

CONSTANTS db, um, app

\* the real requirements: UmCHI.cpp:665-666, GuiCHI.cpp:103-105
ChainReq == [s \in Service |-> IF s = um THEN {db} ELSE IF s = app THEN {um} ELSE {}]

\* The permissions of the database are registered, those of the others may not be.
DbRegistered == [s \in Service |-> IF s = db THEN {"registered"} ELSE CEP]
\* The database was installed before there was a UM to register its permissions at.
NoneRegistered == [s \in Service |-> {"notRegistered"}]
=============================================================================
