SPECIFICATION Spec
CONSTANTS
  Requests = {r1, r2, r3}
  FailureThreshold = 2
  MaxRetries = 1
  ResetTimeout = 2
  CacheTimeout = 1
  NoData = NoData
  MaxTime = 4
  MaxRestarts = 1
SYMMETRY AnyRequest
INVARIANTS
  TypeOK
  ClosedBelowThreshold
  FailuresAreExhaustedRequests
  AnswersExplained
CHECK_DEADLOCK FALSE
