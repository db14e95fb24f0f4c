SPECIFICATION MCSpec
CONSTANTS
  BUFFER_SIZE = 8
  QUOTE_SIZE = 3
  TRADE_SIZE = 2
  MAX_SCAN = 5
  RecvSize = 2
  RecvRounds = 2
  INITIAL_BACKOFF_MS = 1
  MAX_BACKOFF_MS = 1
  MAX_RECONNECT_ATTEMPTS = 2
  JitterDivisor = 2
  MaxMessages = 4
  MaxInflight = 3
  Messages <- MCMessages
INVARIANTS
  RingHoldsReceived
  DeliveredIntact
  NothingTwice
PROPERTY
  BadHeaderBlocks
CHECK_DEADLOCK FALSE
