SPECIFICATION FairSpec
CHECK_DEADLOCK FALSE
CONSTANTS
  Calls = {c1}
  Keys = {k1, k2}
  ClaimKeys = {k1}
  Kinds = {"claim", "usage", "priced", "completed", "transient"}
  ProviderCalls = {1}
  MaxEvents = 2
  LastAttempt = FALSE
  Started = FALSE
  MaxWrites = 0
  MaxFaults = 1
INVARIANTS
  ResultIsTheLog
  AnswersAreTrue
PROPERTIES
  TerminalGetsThrough
