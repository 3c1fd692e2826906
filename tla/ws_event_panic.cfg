SPECIFICATION Spec
CONSTANTS
  Subscribers = {}
  EventBuffer = 1
  SubBuffer = 1
  MaxEvents = 4
  MayStop = FALSE
CHECK_DEADLOCK FALSE
INVARIANT NoSendOnClosedChannel
