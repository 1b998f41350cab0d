SPECIFICATION FairSpec
CONSTANTS
  Capacity = 3
  Batch = 2
  FileMax = 3
  KeptFiles = 2
  BufferMax = 4
  HeartbeatSteps = 2
  MaxEvents = 6
  MaxTick = 2
INVARIANTS
  FileIsHonest
  RecordsAccounted
PROPERTIES
  LogDrains
CHECK_DEADLOCK FALSE
