-------------------------- MODULE MCExecutionPlane --------------------------
EXTENDS ExecutionPlane, TLC

\* the service treats its calls alike, and a key is only compared
Symmetry == Permutations(Calls) \cup Permutations(Keys)
=============================================================================
