CONSTANTS
  Lines <- MCLines
  Trees <- MCTrees
  Readings <- MCReadings
  Pools <- MCRealPool
  BufLen <- MCBufLen
  Scalars <- MCScalars
  Tokens <- MCTokens
  Widths <- MCWidths
  Nested <- MCNested
SPECIFICATION LinkSpec
INVARIANT TelemetryArrives
