CONSTANTS
  RingLen = 3
  ChunkLen = 2
  MaxBytes = 5
  LineMax = 2
SPECIFICATION LineSpec
INVARIANTS
  LinesFaithful
PROPERTIES
  LineReturned
  ImplementsRing
