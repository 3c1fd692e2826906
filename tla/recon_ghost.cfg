SPECIFICATION Spec
CONSTANTS
  Prices = {1}
  MaxTargets = 2
  Tolerance = 0
  Full = 2
  MaxOrders = 1
  MaxPending = 2
  MaxQueued = 2
  MaxFaults = 1
  Outside = {"place", "fill"}
  Faults = {"drop"}
  Cycles = {}
  MayStream = TRUE
CHECK_DEADLOCK FALSE
INVARIANT LedgerExact
