SPECIFICATION FairFlowSpec
CONSTANTS
  p1 = p1
  Products = {p1}
  Price <- Prices
  Quantities = {1}
  NumClicks = 2
  MaxRetries = 1
  Requests <- ClickAttempts
  MaxInFlight = 2
  MaxFaults = 1
  MaxLost = 1
  None = None
INVARIANTS
  MessageMatchesOrder
  ChargedOnce
  RefusalsAreTrue
  AddsCounted
PROPERTIES
  CompletedStays
  ClicksAnswered
CHECK_DEADLOCK FALSE
