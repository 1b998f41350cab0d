SPECIFICATION KillSpec
CONSTANTS
  Tasks = {t1, t2, t3}
  Sources = {s1, s2, s3}
  Repos = {p1, p2}
  Global = all
  KillScopes = {p1}
  Workers = {w1}
  Calls = {}
  SourceOf <- MCOwnSource
  RepoOf <- MCSharedRepo
  Retries <- MCZero
  RepairLimit <- MCOne
  EventLimit <- MCTwo
  CostLimit <- MCOne
  Wall <- MCOne
  Costs = {}
  LeaseLengths = {1}
  HeartbeatLength = 1
  GlobalReaders = 2
  GlobalWriters = 1
  RepoReaders = 1
  MaxTime = 2
  MaxOpen = 1
INVARIANTS
  KillStopsNewGrants
  CapacityHolds
CHECK_DEADLOCK FALSE
