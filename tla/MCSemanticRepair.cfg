SPECIFICATION Spec
CONSTANTS
  MaxAssigned <- MCAssigned
  MaxTasks <- MCTasks
  MaxEscalations = 1
  Validators = {v1, v2}
  Contexts = {x1, x2, x3}
  Heads = {h1, h2}
  f1 = f1
  f2 = f2
  Reports <- MCReports
  HumanFindings = {}
  Limits = {1, 2}
  None = None
SYMMETRY Symmetry
INVARIANTS
  VerdictNamesAll
  ChainIsSound
  OneChild
CHECK_DEADLOCK FALSE
