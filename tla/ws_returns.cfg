SPECIFICATION FairSpec
CONSTANTS
  Calls = {c1, c2}
  Feeds = {f1}
  Private = {}
  Family <- NoFamily
  Kinds = {"subscribe", "unsubscribe"}
  AutoReconnect = TRUE
  MaxReconnects = 1
  MayClose = TRUE
  MaxLifecycle = 5
  MaxFaults = 1
  None = None
CHECK_DEADLOCK FALSE
PROPERTIES
  CallsReturn
