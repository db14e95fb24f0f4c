SPECIFICATION MCSpec
CONSTANTS
  INITIAL_BACKOFF_MS = 1
  MAX_BACKOFF_MS = 1
  MAX_RECONNECT_ATTEMPTS = 2
  JitterDivisor = 2
  OrderSize = 3
  QUEUE_CAPACITY = 2
  MaxOrders = 4
INVARIANT OrdersFramed
CHECK_DEADLOCK FALSE
