SPECIFICATION MarketSpec
CONSTANTS
  Subs = {1, 2}
  MaxFrames = 2
  FrameQueue = 1
  ChanBuf = 1
  MaxFaults = 1
  Prices = {1, 2, 3}
  MaxAmount = 2
  MaxBatch = 2
  MaxUpdateID = 1
  Bad = Bad
  Calls = {c1, c2, c3}
  Variants = {v1, v2}
  NoVariant = none
  MaxLosses = 1
CHECK_DEADLOCK FALSE
INVARIANTS
  BookIsSorted
  SweepsAreSound
  IsolationHolds
  FlaggedIsBaseline
  NoSendAfterClose
PROPERTIES
  NoSilentLoss
  ClosesReturn
