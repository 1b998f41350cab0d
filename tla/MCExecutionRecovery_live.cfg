SPECIFICATION FairSpec
CONSTANTS
  Runs = {r1, r2}
  Coordinators = {c1}
  Limit = 2
  MaxClock = 4
  MaxFaults = 1
INVARIANTS
  WatermarkHolds
PROPERTIES
  OrphansCleaned
  ExecutionsEnd
CHECK_DEADLOCK FALSE
