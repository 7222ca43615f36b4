SPECIFICATION FairSpec
CONSTANTS
  a = a
  b = b
  NoInstance = NoInstance
  Instances = {a, b}
  N = 1
  AsyncSteps = {1}
  HasTimeout = TRUE
  MaxExpiries = 0
  MaxStoreErrors = 0
  MaxRetry = 1
  LossyNetwork = FALSE
  PollMaxTimes = 0
  QueueCanFill = FALSE
  MaxLive = 1
  CanStop = TRUE
  CanCrash = TRUE
  CallerWaits = FALSE
  QueryRetryLimit = 2
PROPERTIES
  BegunIsDecided
  StopReturns
CHECK_DEADLOCK FALSE
