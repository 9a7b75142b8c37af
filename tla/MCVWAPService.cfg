\* A small ring: full after three trades, overwritten by the fourth.
CONSTANTS
  BufferSize = 3
  VwapWindowMs = 1
  Word = 64
  Trades <- MCTrades
  Skews <- MCSkews
  MaxTime = 3
  MaxTrades = 4
SPECIFICATION RingSpec
CHECK_DEADLOCK FALSE
INVARIANTS
  RingTypeOK
  TotalsMatchRing
  RingIsSuffixOfFeed
  ReadIsExact
