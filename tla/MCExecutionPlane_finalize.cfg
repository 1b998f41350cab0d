SPECIFICATION Spec
CHECK_DEADLOCK FALSE
CONSTANTS
  Calls = {c1, c2}
  Keys = {k1, k2}
  ClaimKeys = {}
  Kinds = {"artifact", "transient"}
  ProviderCalls = {}
  MaxEvents = 2
  LastAttempt = TRUE
  Started = TRUE
  MaxWrites = 1
  MaxFaults = 2
SYMMETRY Symmetry
INVARIANTS
  LogIsSound
  SnapshotIsNewest
  AnswersAreTrue
PROPERTIES
  EvidenceIsKept
  ImplementsContract
