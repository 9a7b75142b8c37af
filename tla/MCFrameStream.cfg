\* The buffer holds the longest frame and no more; the socket holds less.
CONSTANTS
  BUFFER_SIZE = 8
  HeaderSize = 2
  Frames <- MCFrames
  SocketCapacity = 7
SPECIFICATION StreamSpec
CHECK_DEADLOCK FALSE
INVARIANTS
  StreamTypeOK
  FramesIntact
  KeepsThePiece
  WireInStep
PROPERTIES
  ImplementsChannel
  FramesGetThrough
