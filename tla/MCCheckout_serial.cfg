SPECIFICATION Spec
CONSTANTS
  p1 = p1
  p2 = p2
  Products = {p1, p2}
  Price <- Prices
  Quantities = {1, 2}
  Requests = {r1, r2, r3, r4}
  MaxInFlight = 1
  MaxFaults = 1
  None = None
SYMMETRY AnyRequest
INVARIANTS
  TotalIsSum
PROPERTIES
  ImplementsShopping
CHECK_DEADLOCK FALSE
