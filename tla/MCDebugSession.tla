---------------------------- MODULE MCDebugSession ----------------------------
(* Symmetry of DebugSession for model checking. *)
EXTENDS DebugSession, TLC

Symmetry == Permutations(Stopper)
==============================================================================
