SPECIFICATION Spec
CONSTANTS
  Clients = {c1, c2}
  Emails = {e1}
  MaxRetries = 2
  MaxFaults = 1
  None = None
SYMMETRY AnyClient
INVARIANTS
  OneAccountPerEmail
  AnswersAreTrue
  ConflictExplained
  RaceCostsOneAttempt
CHECK_DEADLOCK FALSE
