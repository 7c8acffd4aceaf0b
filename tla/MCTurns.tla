-------------------------------- MODULE MCTurns --------------------------------
(* Small instances of Turns for TLC. *)
EXTENDS Turns, TLC

Symmetry == Permutations(Jobs) \cup Permutations(Containers)
================================================================================
