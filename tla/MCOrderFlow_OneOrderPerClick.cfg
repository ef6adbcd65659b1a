SPECIFICATION FlowSpec
CONSTANTS
  p1 = p1
  Products = {p1}
  Price <- Prices
  Quantities = {1}
  NumClicks = 2
  MaxRetries = 1
  Requests <- ClickAttempts
  MaxInFlight = 2
  MaxFaults = 0
  MaxLost = 1
  None = None
INVARIANTS
  OneOrderPerClick
CHECK_DEADLOCK FALSE
