SPECIFICATION TypeScriptSpec
CONSTANTS
  Subs = {s1}
  Requests = {r1}
  Ping = ping
  None = none
  HasHeaders = TRUE
  MaxReconnects = 1
  MaxAttempt = 10
  MaxFaults = 2
  Symbols = {"btc", "eth"}
  Moving = {"btc"}
  MaxBooks = 2
  MaxUpdates = 2
  MaxPending = 2
  MaxResyncs = 1
CHECK_DEADLOCK FALSE
INVARIANTS
  ServedExactly
  SocketsOwned
  StreamsTruthful
  BookIsExact
PROPERTIES
  ConnectSettles
  BooksRecover
