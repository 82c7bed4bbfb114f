CONSTANTS
  Gains <- MCGains
  AdcValues <- MCAdc
  OutMax = 2024
  IntMax = 2024
  Target = 494
  PidMax = 100
  Arr = 39
  Lap = 3
  Wide = 64
  RpmScale = 12
  RpmWidth = 8
  TachoMax = 2
  TimeoutWidth = 4
  StallCycles = 2
  CounterWidth = 4
SPECIFICATION FanSpec
INVARIANTS
  FanTypeOK
  NoFalseStall
  StallSeen
  NoStaleSpeed
  IntegralNotWound
PROPERTIES
  StallFlagReturns
