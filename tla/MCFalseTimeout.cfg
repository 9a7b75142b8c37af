\* As MCNetworkMessageReceiver.cfg; the peer may be one tick ahead.
CONSTANTS
  HeartbeatTimeoutMs = 2
  InboundCapacity = 1
  Word = 64
  Skews <- MCSkews
  StartTime = 1
  MaxTime = 6
  MaxMessages = 3
SPECIFICATION ReceiverSpec
CHECK_DEADLOCK FALSE
PROPERTY
  NoHeartbeatInOver
