SPECIFICATION Spec
CONSTANTS
  Requests = {r1, r2, r3}
  MaxRetries = 1
  CacheTimeout = 1
  MaxTime = 2
  MaxCut = 1
  None = None
SYMMETRY AnyRequest
INVARIANTS
  ListsAreCurrent
  ListsNeverGoBack
  CreatedCounted
CHECK_DEADLOCK FALSE
