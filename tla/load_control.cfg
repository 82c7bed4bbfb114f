CONSTANTS
  Channels = {0, 4}
  MaxRetry = 5
  CooldownCycles = 3
  Currents <- MCCurrents
  Voltages <- MCVoltages
  Codes <- MCCodes
  NoField = NoField
  MaxI = 1
  MaxV = 1
SPECIFICATION LoadSpec
INVARIANTS
  LatchConsistent
  BoundedRetries
  ActiveTargetStored
PROPERTIES
  NackMeansNoEffect
  RangeChecked
  FaultIsolation
  FaultEnds
  ImplementsProtection
