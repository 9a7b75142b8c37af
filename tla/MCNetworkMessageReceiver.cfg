\* A timeout of two ticks; a queue that one message fills.
CONSTANTS
  HeartbeatTimeoutMs = 2
  InboundCapacity = 1
  Word = 64
  Skews <- MCSkews
  StartTime = 1
  MaxTime = 6
  MaxMessages = 3
SPECIFICATION ReceiverSpec
CHECK_DEADLOCK FALSE
INVARIANTS
  ReceiverTypeOK
  PushedInOrder
  NewestBeatKept
PROPERTIES
  ClosedOnlyIfSilent
  SilenceIsNoticed
