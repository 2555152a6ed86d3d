---------------------------- MODULE MCEventHooks ----------------------------
(* Instances of EventHooks. *)
EXTENDS EventHooks

Symmetric == Permutations(Thread) \cup Permutations(Service) \cup Permutations(Event)
=============================================================================
