SPECIFICATION Spec
CONSTANTS
  Calls = {c1, c2}
  Feeds = {f1}
  Private = {}
  Family <- NoFamily
  Kinds = {"subscribe", "request"}
  AutoReconnect = TRUE
  MaxReconnects = 1
  MayClose = FALSE
  MaxLifecycle = 3
  MaxFaults = 2
  None = None
CHECK_DEADLOCK FALSE
INVARIANT PendingOnLiveConnection
SYMMETRY CallSymmetry
