\* No band, and a window that one tick leaves behind.
CONSTANTS
  BufferSize = 3
  VwapWindowMs = 0
  Word = 2097152
  Trades <- MCTrades
  Skews <- MCSkews
  MaxTime = 1
  MaxTrades = 3
  maxQuantity = 2
  participationCap = 3
  bandBps = 0
  BandScale = 10000
  MinQuotes = 1
  CounterMod = 3
  MaxQuotes = 1
  MaxHaltWrites = 1
  InboundCapacity = 2
  OutboundCapacity = 1
  MaxOthers = 1
SPECIFICATION CoreSpec
CHECK_DEADLOCK FALSE
INVARIANTS
  CoreTypeOK
  ExecutedIsSent
  EngineFollowsSession
PROPERTIES
  ImplementsAnswers
  
