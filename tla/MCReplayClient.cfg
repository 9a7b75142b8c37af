\* The day starts before the clock: the first row's time is later than StartTime.
CONSTANTS
  QuantityWord = 16
  Files <- MCFiles
  Symbols <- MCSymbols
  symbol = "own"
  HEARTBEAT_PER_MS = 2
  Word = 64
  StartTime = 4
  MaxTime = 9
SPECIFICATION ClientSpec
CHECK_DEADLOCK FALSE
INVARIANTS
  
  ReplaysTheRows
  BookShowsTheFile
  NeverEarly
  BeatsWhileWaiting
PROPERTIES
  ReplayEnds
