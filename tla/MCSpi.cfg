SPECIFICATION Spec
CONSTANTS
  c1 = c1
  c2 = c2
  Controllers <- MCControllers
  Clients = {c1, c2}
  Speed <- MCSpeed
  Rates <- MCRates
  FifoSize = 2
  MaxLen = 3
  Nobody = Nobody
CHECK_DEADLOCK FALSE
INVARIANTS
  FifoHoldsOneMessage
  NeverTooFast
PROPERTIES
  EveryCallReturns
