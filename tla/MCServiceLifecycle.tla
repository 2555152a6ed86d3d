------------------------- MODULE MCServiceLifecycle -------------------------
(* Instances of ServiceLifecycle: a database, a user manager that needs it,
   and an application that needs the user manager. *)
EXTENDS ServiceLifecycle, TLC

CONSTANTS db, um, app

\* the real requirements: UmCHI.cpp:665-666, GuiCHI.cpp:103-105
ChainReq == [s \in Service |-> IF s = um THEN {db} \cap Service
                               ELSE IF s = app THEN {um} \cap Service ELSE {}]
=============================================================================
