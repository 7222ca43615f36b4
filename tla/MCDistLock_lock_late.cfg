SPECIFICATION Spec
CONSTANTS
  a = a
  b = b
  Locks = {a, b}
  TTL = 2
  RetryCount = 2
  EnableWatchdog = TRUE
  MaxDelay = 2
  MaxErrors = 1
  MaxTokens = 3
  CanReacquire = TRUE
SYMMETRY Symmetry
INVARIANTS
  LostOnlyByExpiry
