SPECIFICATION Spec
CONSTANTS
  Capacity = 3
  Batch = 2
  FileMax = 3
  KeptFiles = 2
  BufferMax = 4
  HeartbeatSteps = 2
  MaxEvents = 6
  MaxTick = 2
INVARIANTS
  FailureIsTold
CHECK_DEADLOCK FALSE
