------------------------------ MODULE MCAutoDeploy ------------------------------
(* Small instances of AutoDeploy for TLC. *)
EXTENDS AutoDeploy, TLC

SlotSymmetry == Permutations(Checks) \cup Permutations(JobSlots)
================================================================================
