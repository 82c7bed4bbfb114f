CONSTANTS
  BufLen = 3
  MaxBytes = 8
SPECIFICATION DmaSpec
INVARIANTS
  NoTearing
  NothingLost
PROPERTIES
  ClearEatsNothing
  Pushed
CHECK_DEADLOCK FALSE
