SPECIFICATION AuthSpec
CONSTANTS
  Callers = {c1, c2}
  NoCaller = NoCaller
  MaxCalls = 2
  MaxRetries = 1
  MaxTime = 2
  MaxClock = 3
  MaxRefreshes = 2
  MaxFaults = 1
  EarlyExpiry = 1
  Lifetimes = {0, 2, 5}
  Rotations = {TRUE, FALSE}
  Commands = {p1, p2}
  MaxLogins = 2
  MaxTokens = 5
  MaxLapses = 1
  Rotating = {TRUE, FALSE}
  Absent = absent
  Limits = {0, 1, 2, 4, absent}
  Offsets = {1, 5, absent}
  DefaultPage = 2
  MaxPage = 3
  MaxItems = 4
  MaxChanges = 1
CHECK_DEADLOCK FALSE
INVARIANTS
  RequestsAccepted
  MutatesOnce
  TokensSound
  KeyringSound
  PagesComplete
PROPERTIES
  RequestsReturn
