SPECIFICATION Spec
CONSTANTS
  order = order
  health = health
  other = other
  h1 = h1
  h2 = h2
  old = old
  new = new
  Requests = {order, health}
  PublicRequests = {health}
  OtherNonces = {other}
  Handlers = {h1, h2}
  AccessKeys = {"ak"}
  Secrets = {old, new}
  NoCredential = NoCredential
  NotSigned = NotSigned
  TicksPerSecond = 2
  Tolerance = 1
  NonceTTL = 2
  CleanupInterval = 1
  MaxDelay = 1
  Skews = {0, 1}
  MaxSignTime = 1
  MaxTime = 7
  MaxAdds = 1
SYMMETRY Symmetry
CONSTRAINT Bound
INVARIANTS
  GrantedOnce
  
  RefusedForACause
  NoncesAreSwept
CHECK_DEADLOCK FALSE
