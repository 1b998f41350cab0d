SPECIFICATION MCSpec
CONSTANTS
  N = 3
  DeadlineSeconds = 1
  RetentionSeconds = 2
  MaxTime = 3
  ClockStepsBack = TRUE
INVARIANTS
  TypeOK
  SubmittedOnce
  AdvanceOnlyAfterFailure
  VerdictsTrue
  InputKeptInOrder
PROPERTIES
  FinalFrozen
  JobSettles
CHECK_DEADLOCK FALSE
