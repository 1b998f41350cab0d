-------------------------- MODULE MCSemanticRepair --------------------------
(* A small instance of SemanticRepair: the first result has two validators   *)
(* and two tasks, the second one validator.                                  *)
EXTENDS SemanticRepair, TLC

CONSTANTS f1, f2

Report(status, findings) == [status |-> status, findings |-> findings]

MCReports == {Report("proven", {}), Report("unproven", {f1}), Report("unproven", {f2})}

MCAssigned == <<2, 1>>
MCTasks    == <<2, 0>>

Symmetry == Permutations(Validators) \cup Permutations(Contexts)
              \cup Permutations(Heads) \cup Permutations({f1, f2})
=============================================================================
