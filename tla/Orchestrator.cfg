SPECIFICATION MCSpec
CONSTANTS
  N = 4
  MaxParallel = 2
  StopOnError = TRUE
INVARIANTS
  NothingUnaccounted
  FailureIsReal
  AtMostJobsAlive
  NoChildLeftBehind
PROPERTIES
  KeepsContract
  Returns
  StopDoesNotWait
