SPECIFICATION ReconcilerSpec
CONSTANTS
  Prices = {1}
  Tolerance = 1
  Full = 2
  MaxOrders = 1
  MaxPending = 1
  MaxQueued = 2
  MaxFaults = 2
  MaxTargets = 2
  Outside = {"place", "fill", "cancel"}
  Faults = {"drop", "malformed", "rest", "stop"}
  Cycles = {"sync"}
  MayStream = TRUE
  CyclePrices = {1, 2}
  CycleOrders = 4
  CycleMaxFaults = 1
  CycleOutside = {"fill", "modify"}
  CycleFaults = {"rest"}
  CycleKinds = {"sync", "cancelAll", "hydrate"}
CHECK_DEADLOCK FALSE
INVARIANTS
  LedgerExactAtFirst
  NoOrderForgotten
  ReplacedOrdersAreGone
PROPERTIES
  CyclesReachTargets
  StreamRecovers
