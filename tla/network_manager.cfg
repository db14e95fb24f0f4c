SPECIFICATION Spec
CONSTANTS
  INITIAL_BACKOFF_MS = 1
  MAX_BACKOFF_MS = 5
  MAX_RECONNECT_ATTEMPTS = 3
  JitterDivisor = 2
  InitialDelay = 1
  MaxDelay = 2
  JitterLow = 50
  JitterHigh = 150
INVARIANTS
  FreshStart
PROPERTIES
  BackoffGrows
  GivesUpForGood
  OutageEnds
