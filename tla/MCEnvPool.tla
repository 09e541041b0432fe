------------------------------ MODULE MCEnvPool ------------------------------
(* Symmetry of EnvPool for model checking. *)
EXTENDS EnvPool, TLC

Symmetry == Permutations(Task) \cup Permutations(Operator)
===============================================================================
