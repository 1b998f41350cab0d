------------------------ MODULE MCExecutionRecovery -------------------------
(* Small instances of ExecutionRecovery. *)
EXTENDS ExecutionRecovery, TLC

Symmetry == Permutations(Runs) \cup Permutations(Coordinators)
=============================================================================
