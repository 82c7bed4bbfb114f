CONSTANTS
  RingLen = 3
  ChunkLen = 1
  MaxBytes = 2
  LineMax = 2
SPECIFICATION LineSpec
PROPERTY EveryLineReturned
