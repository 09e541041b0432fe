---------------------------- MODULE MCJobEngine ----------------------------
(* Values of the constants of JobEngine for model checking. *)
EXTENDS JobEngine, TLC

Service == [state |-> "paused", kind |-> "service", target |-> 1]
ActiveService == [state |-> "active", kind |-> "service", target |-> 2]
Manual == [state |-> "paused", kind |-> "manual", target |-> 1]

Symmetry == Permutations(Task) \cup Permutations(Call)
=============================================================================
