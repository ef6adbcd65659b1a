SPECIFICATION FairSpec
CONSTANTS
  o1 = o1
  o2 = o2
  o3 = o3
  Orders = {o1, o2, o3}
  NoJob = NoJob
  Amount <- EachOutcome
  MaxRetries = 1
  MaxFaults = 2
  MaxBreaks = 2
  MaxExpiries = 1
INVARIANTS
  TypeOK
  OnePaymentPerOrder
  DecisionRespected
  NoSilentLoss
  DlqMeansExhausted
  RejectionIsNotFailure
  AttemptsBounded
PROPERTIES
  SettledForever
  ImplementsSettlement
  EventuallyResolved
CHECK_DEADLOCK FALSE
