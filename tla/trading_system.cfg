SPECIFICATION MCSpec
CONSTANTS
  MAX_TRADES = 2
  WindowDuration = 2
  I32Max = 8
  U64Max = 30
  MaxOrderSize = 2
  CooldownNanos = 1
  MAX_HISTORY_SIZE = 2
  MAX_ORDER_HISTORY = 1
  LogInterval = 3
  QUEUE_CAPACITY = 1
  BatchLimit = 2
  MaxTime = 3
  MaxTrades = 3
  MaxQuotes = 3
  Trades <- MCTrades
  Quotes <- MCQuotes
INVARIANTS
  NoOrderBeforeWindow
  NoEmptyOrder
  ReportedTotals
  SignalEndsTrading
PROPERTY
  ShutdownCompletes
CHECK_DEADLOCK FALSE
