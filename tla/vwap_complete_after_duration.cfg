SPECIFICATION MCSpec
CONSTANTS
  MAX_TRADES = 3
  WindowDuration = 3
  I32Max = 8
  U64Max = 40
  MinTime = 1
  MaxTime = 9
  MaxCalls = 6
  Trades <- MCTrades
INVARIANT CompleteAfterDuration
