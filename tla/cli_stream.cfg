SPECIFICATION CliSpec
CONSTANTS
  Subscribers = {s1}
  Command = s1
  EventBuffer = 1
  SubBuffer = 2
  FeedBuffer = 1
  MaxEvents = 5
  MayStop = TRUE
CHECK_DEADLOCK FALSE
PROPERTIES
  SharedFeed
  PrivateFeed
  NewestArrives
  CommandEnds
