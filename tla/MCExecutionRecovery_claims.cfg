SPECIFICATION Spec
CONSTANTS
  Runs = {r1}
  Coordinators = {c1, c2}
  Limit = 2
  MaxClock = 4
  MaxFaults = 3
SYMMETRY Symmetry
INVARIANTS
  CleanUpSound
PROPERTIES
  LiveLeaseKept
  ImplementsContract
CHECK_DEADLOCK FALSE
