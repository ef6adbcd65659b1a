SPECIFICATION AdminSpec
CONSTANTS
  o1 = o1
  o2 = o2
  Orders = {o1, o2}
  NoJob = NoJob
  Amount <- BothInvalid
  MaxRetries = 0
  MaxFaults = 0
  MaxBreaks = 0
  MaxExpiries = 0
  PeekLimit = 2
  MaxRequests = 1
INVARIANTS
  NotFoundMeansAbsent
CHECK_DEADLOCK FALSE
