SPECIFICATION FairSpec
CONSTANTS
  a = a
  NoInstance = NoInstance
  Instances = {a}
  Gone = Gone
  NTx = 2
  Expiring = {1}
  WorkerCount = 1
  QueueSize = 1
  RecoveryLimit = 1
  ScanLimit = 1
  CanStop = TRUE
INVARIANTS
  OnePlace
  LeaseIsBacked
  NothingForgotten
PROPERTIES
  EveryoneIsServed
  ExpiredIsDecided
CHECK_DEADLOCK FALSE
