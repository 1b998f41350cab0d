SPECIFICATION Spec
CONSTANTS
  Tasks = {t1, t2}
  Sources = {s1}
  Repos = {p1}
  Global = all
  KillScopes = {}
  Workers = {w1}
  Calls = {}
  SourceOf <- MCOneSource
  RepoOf <- MCOneRepo
  Retries <- MCOne
  RepairLimit <- MCOne
  EventLimit <- MCThree
  CostLimit <- MCOne
  Wall <- MCTwo
  Costs = {}
  LeaseLengths = {1, 2}
  HeartbeatLength = 1
  GlobalReaders = 1
  GlobalWriters = 1
  RepoReaders = 1
  MaxTime = 3
  MaxOpen = 1
INVARIANTS
  LeaseAgreement
  LeaseWithinDeadline
  RetryCanBeClaimed
  OneOpenPerSource
PROPERTIES
  PastFrozen
  ImplementsContract
CHECK_DEADLOCK FALSE
