SPECIFICATION FairSpec
CONSTANTS
  a = a
  b = b
  Locks = {a, b}
  TTL = 10
  RetryCount = 2
  EnableWatchdog = TRUE
  MaxDelay = 1
  MaxErrors = 1
  MaxTokens = 2
  CanReacquire = TRUE
INVARIANTS
  WatchdogKeepsLock
PROPERTIES
  Exclusion
  CallsReturn
  AbandonedKeyGoes
