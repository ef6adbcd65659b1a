SPECIFICATION FairAdminSpec
CONSTANTS
  o1 = o1
  o2 = o2
  Orders = {o1, o2}
  NoJob = NoJob
  Amount <- ApprovedAndInvalid
  MaxRetries = 0
  MaxFaults = 1
  MaxBreaks = 1
  MaxExpiries = 1
  PeekLimit = 2
  MaxRequests = 2
INVARIANTS
  NoAdminLoss
  ReprocessAllComplete
PROPERTIES
  ReprocessKeepsDecision
  RequestsEnd
CHECK_DEADLOCK FALSE
