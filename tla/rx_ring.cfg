CONSTANTS
  RingLen = 4
  ChunkLen = 3
  MaxBytes = 10
SPECIFICATION RingSpec
INVARIANTS
  CountAccounted
  NoPhantom
PROPERTIES
  Delivered
  ImplementsFifo
