SPECIFICATION WatchSpec
CONSTANTS
  Bids = {1, 2}
  Asks = {3}
  MaxAmount = 1
  MaxUpdateID = 3
  MaxBufferedDiffs = 2
  Ingesters = {p1, p2}
  Listeners = {l1}
  MayReset = TRUE
  NoOne = NoOne
  N = 2
  OneShots = {2}
  Cooldown = 1
  MaxRunning = 2
  MaxTicks = 2
  MaxEvents = 2
CHECK_DEADLOCK FALSE
INVARIANTS
  BookIsHistoric
  ReplaysAreSound
  RulesWatched
PROPERTIES
  TopOfBookTracked
  CooldownHolds
