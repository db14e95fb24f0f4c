SPECIFICATION MCSpec
CONSTANTS
  U64Max = 15
  I32Max = 8
  Files <- MCFiles
  Speeds <- MCSpeeds
  MIN_INTERVAL = 1
  ClockMax = 2
  Significands = 4
  Grains = {1, 2, 4, 8, 16, 32}
  Descriptors = {1, 2}
  Connections = 3
INVARIANTS
  NoStaleDescriptor
  OpenAccounted
  EveryoneServed
PROPERTIES
  StopCompletes
  ReplayGoesOn
  OlderRecordBlocks
CHECK_DEADLOCK FALSE
