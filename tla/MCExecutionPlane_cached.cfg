SPECIFICATION FairSpec
CHECK_DEADLOCK FALSE
CONSTANTS
  Calls = {c1}
  Keys = {k1, k2}
  ClaimKeys = {}
  Kinds = {"cached", "transient"}
  ProviderCalls = {1}
  MaxEvents = 2
  LastAttempt = TRUE
  Started = TRUE
  MaxWrites = 0
  MaxFaults = 0
PROPERTY TerminalIsResumable
