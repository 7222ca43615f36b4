SPECIFICATION Spec
CONSTANTS
  a = a
  b = b
  NoInstance = NoInstance
  Instances = {a}
  N = 2
  AsyncSteps = {1}
  HasTimeout = TRUE
  MaxExpiries = 0
  MaxStoreErrors = 2
  MaxRetry = 1
  LossyNetwork = FALSE
  PollMaxTimes = 1
  QueueCanFill = TRUE
  MaxLive = 1
  CanStop = FALSE
  CanCrash = FALSE
  CallerWaits = TRUE
  QueryRetryLimit = 2
INVARIANTS
  NoLostWakeup
  VerdictTold
CHECK_DEADLOCK FALSE
