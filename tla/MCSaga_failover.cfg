SPECIFICATION Spec
CONSTANTS
  a = a
  b = b
  NoInstance = NoInstance
  Instances = {a, b}
  N = 2
  AsyncSteps = {1}
  HasTimeout = TRUE
  MaxExpiries = 0
  MaxStoreErrors = 0
  MaxRetry = 1
  LossyNetwork = TRUE
  PollMaxTimes = 1
  QueueCanFill = FALSE
  MaxLive = 1
  CanStop = TRUE
  CanCrash = TRUE
  CallerWaits = FALSE
  QueryRetryLimit = 2
SYMMETRY Symmetry
INVARIANTS
  TypeOK
  SuccessIsRecorded
  NoRecordedEffectLeft
  PollsBounded
  RetriesBounded
PROPERTIES
  ForwardInOrder
  CompensateInReverse
  VerdictIsFinal
CHECK_DEADLOCK FALSE
