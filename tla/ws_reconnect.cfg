SPECIFICATION Spec
CONSTANTS
  Calls = {c1, c2}
  Feeds = {f1, f2}
  Private = {f1, f2}
  Family <- OneFamily
  Kinds = {"subscribe", "unsubscribe", "leave", "request"}
  AutoReconnect = TRUE
  MaxReconnects = 1
  MayClose = TRUE
  MaxLifecycle = 4
  MaxFaults = 2
  None = None
CHECK_DEADLOCK FALSE
INVARIANTS
  ConnectionOwned
  ActiveFeedsStreamed
  ReplayHonoursUnsubscribe
  RequestsStayOnTheirConnection
  ActiveMatchesTable
PROPERTIES
  FailedOnlyWhileDown
SYMMETRY CallSymmetry
