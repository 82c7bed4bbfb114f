CONSTANTS
  Lines <- MCLines
  Trees <- MCTrees
  Readings <- MCReadings
  Pools <- MCPools
  BufLen <- MCBufLen
  Scalars <- MCScalars
  Tokens <- MCTokens
  Widths <- MCWidths
  Nested <- MCNested
SPECIFICATION LinkSpec
INVARIANTS
  OwnLineOnly
  FitMeansAccepted
  TelemetryWhole
