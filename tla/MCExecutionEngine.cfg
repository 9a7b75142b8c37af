\* A band of 1%, two quotes to warm up, a counter that wraps after three.
CONSTANTS
  BufferSize = 3
  VwapWindowMs = 1
  Word = 2097152
  Trades <- MCTrades
  Skews <- MCSkews
  MaxTime = 2
  MaxTrades = 4
  maxQuantity = 3
  participationCap = 5
  bandBps = 100
  BandScale = 10000
  MinQuotes = 2
  CounterMod = 3
  MaxQuotes = 4
  MaxHaltWrites = 1
SPECIFICATION EngineSpec
CHECK_DEADLOCK FALSE
INVARIANTS
  EngineTypeOK
  BoughtWithinLimits
  NoSaleBeforePurchase
  WarmUp
  VolumeAccounted
PROPERTIES
  CrossesWithEdge
