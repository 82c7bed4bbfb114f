CONSTANTS
  Channels = {0}
  MaxRetry = 2
  CooldownCycles = 1
SPECIFICATION HistorySpec
INVARIANT NoAlarmDropped
