CONSTANTS
  Regs <- MCRegs
  Lap = 7
  Timeout = 5
  DelayTicks = 1
  MaxPolls = 1
  MaxCalls = 2
SPECIFICATION DriverSpec
INVARIANTS
  OkMeansHeld
  StartsAreStopped
  HonestNack
  ClockHonest
  InitMeansBoth
PROPERTIES
  BoundedUntilAddress
  ReturnsIfAnswered
