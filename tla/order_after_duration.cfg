SPECIFICATION MCSpec
CONSTANTS
  MAX_TRADES = 3
  WindowDuration = 3
  I32Max = 8
  U64Max = 16
  MaxOrderSize = 2
  CooldownNanos = 2
  MAX_HISTORY_SIZE = 2
  MAX_ORDER_HISTORY = 1
  LogInterval = 3
  MaxTime = 5
  MaxCalls = 6
  MaxQuotes = 3
  Trades <- MCTrades
  Quotes <- MCQuotes
PROPERTY OrderOnceTimeHasPassed
