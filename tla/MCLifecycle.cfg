\* Queues and a socket that one or two messages fill.
CONSTANTS
  InboundCapacity = 1
  OutboundCapacity = 1
  SocketCapacity = 1
  MaxMessages = 5
SPECIFICATION LifeSpec
CHECK_DEADLOCK FALSE
INVARIANTS
  LifeTypeOK
  NoUseOutsideLifetime
PROPERTIES
  EndOfOneEndsAll
  PressureIsRelieved
