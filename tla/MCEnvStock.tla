------------------------------ MODULE MCEnvStock ------------------------------
(* Symmetry of EnvStock for model checking. *)
EXTENDS EnvStock, TLC

Symmetry == Permutations(Addr)
===============================================================================
