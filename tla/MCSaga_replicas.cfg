SPECIFICATION Spec
CONSTANTS
  a = a
  b = b
  NoInstance = NoInstance
  Instances = {a, b}
  N = 1
  AsyncSteps = {1}
  HasTimeout = TRUE
  MaxExpiries = 0
  MaxStoreErrors = 0
  MaxRetry = 1
  LossyNetwork = FALSE
  PollMaxTimes = 1
  QueueCanFill = FALSE
  MaxLive = 2
  CanStop = FALSE
  CanCrash = FALSE
  CallerWaits = FALSE
  QueryRetryLimit = 2
SYMMETRY Symmetry
INVARIANTS
  Lawful
  SuccessIsComplete
  CompensatedIsUndone
PROPERTIES
  Refinement
CHECK_DEADLOCK FALSE
