---------------------------- MODULE MCImportQueue ----------------------------
(* Symmetry of ImportQueue for model checking. *)
EXTENDS ImportQueue, TLC

Symmetry == Permutations(Env) \cup Permutations(Import)
==============================================================================
