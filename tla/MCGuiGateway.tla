---------------------------- MODULE MCGuiGateway ----------------------------
(* Two clients, two commands with two ids, two sessions.                     *)
EXTENDS GuiGateway
=============================================================================
