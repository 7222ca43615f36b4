SPECIFICATION FairSpec
CONSTANTS
  a = a
  b = b
  NoInstance = NoInstance
  Instances = {a}
  N = 2
  AsyncSteps = {1}
  HasTimeout = FALSE
  MaxExpiries = 1
  MaxStoreErrors = 0
  MaxRetry = 2
  LossyNetwork = TRUE
  PollMaxTimes = 1
  QueueCanFill = FALSE
  MaxLive = 1
  CanStop = FALSE
  CanCrash = FALSE
  CallerWaits = TRUE
  QueryRetryLimit = 2
PROPERTIES
  EventuallyDecided
  WaitReturns
CHECK_DEADLOCK FALSE
