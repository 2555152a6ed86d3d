-------------------------- MODULE MCServiceCalls --------------------------
(* Service a calls a command of b with a session, which the core has checked *)
(* by um; b calls um.  The processes a and b were started in the same second *)
(* and draw the same identities.                                             *)
EXTENDS ServiceCalls

CONSTANTS a, b, um, withSession, check, plain

callers == [c \in {withSession, check, plain} |->
    CASE c = withSession -> a [] c = check -> Core [] c = plain -> b]
callees == [c \in {withSession, check, plain} |->
    CASE c = withSession -> b [] c = check -> um [] c = plain -> um]
identities == [c \in {withSession, check, plain} |-> 1]
checks == [c \in {withSession, check, plain} |->
    IF c = withSession THEN check ELSE NoCheck]
=============================================================================
