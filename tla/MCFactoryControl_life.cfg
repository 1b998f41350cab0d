SPECIFICATION FairSpec
CONSTANTS
  Tasks = {t1}
  Sources = {s1}
  Repos = {p1}
  Global = all
  KillScopes = {p1}
  Workers = {w1}
  Calls = {c1}
  SourceOf <- MCOneSource
  RepoOf <- MCOneRepo
  Retries <- MCOne
  RepairLimit <- MCOne
  EventLimit <- MCFour
  CostLimit <- MCOne
  Wall <- MCTwo
  Costs = {0, 1, 2}
  LeaseLengths = {1}
  HeartbeatLength = 1
  GlobalReaders = 1
  GlobalWriters = 1
  RepoReaders = 1
  MaxTime = 3
  MaxOpen = 2
INVARIANTS
  AccountingSound
  ReservationsAccounted
PROPERTIES
  TaskSettles
  QuarantineSticks
  LeaseReclaimed
CHECK_DEADLOCK FALSE
