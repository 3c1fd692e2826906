SPECIFICATION Spec
CONSTANTS
  Symbols = {"btc"}
  Moving = {"btc"}
  MaxBooks = 2
  MaxUpdates = 2
  MaxPending = 2
  MaxResyncs = 1
  MaxFaults = 0
CHECK_DEADLOCK FALSE
INVARIANT ShownBookIsWhole
