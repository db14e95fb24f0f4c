SPECIFICATION MCSpec
CONSTANTS
  CAPACITY = 4
  Items = {1, 2, 3}
  Default = 1
  MaxLen = 6
  MaxTime = 4
  Windows <- MCWindows
  Cutoffs <- MCCutoffs
INVARIANTS
  EndsAgree
  SearchInvariant
  SplitsAtCutoff
PROPERTIES
  RefinesDeque
  Terminates
CHECK_DEADLOCK FALSE
