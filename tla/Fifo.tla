-------------------------------- MODULE Fifo --------------------------------
(* What a transmitter promises: what was handed to it goes out once and in   *)
(* the order in which it was handed over.  The oldest packet may be dropped. *)
EXTENDS Sequences

CONSTANT Packet

VARIABLES waiting,   \* handed over, oldest first
          out        \* on the wire
vars == <<waiting, out>>

Init ==
    /\ waiting = <<>>
    /\ out = <<>>

Put(p) ==
    /\ waiting' = Append(waiting, p)
    /\ UNCHANGED out

Get ==
    /\ waiting # <<>>
    /\ waiting' = Tail(waiting)
    /\ out' = Append(out, Head(waiting))

Drop ==
    /\ waiting # <<>>
    /\ waiting' = Tail(waiting)
    /\ UNCHANGED out

Next == (\E p \in Packet : Put(p)) \/ Get \/ Drop

Spec == Init /\ [][Next]_vars
=============================================================================
