---------------------------- MODULE MCModuleInstall ----------------------------
(* Symmetry of ModuleInstall for model checking. *)
EXTENDS ModuleInstall, TLC

Symmetry == Permutations(Upgraders) \cup Permutations(Jobs)
===============================================================================
