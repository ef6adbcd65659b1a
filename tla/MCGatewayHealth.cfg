SPECIFICATION FairSpec
CONSTANTS
  Services = {s1, s2}
  Checks = {c1, c2}
  FailureThreshold = 2
  ResetTimeout = 1
  MaxOutages = 1
INVARIANTS
  ReadyIsFresh
  NoFalseAlarm
PROPERTIES
  Recovery
  Detection
