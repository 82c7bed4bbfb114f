CONSTANTS
  Packet = 2
  SetupLen = 1
  DescLen <- MCDescLen
  LineLen = 2
  Lines = {"fast"}
  Line0 = "slow"
  Requests <- MCRequests
  MaxSetups = 3
  MaxLosses = 1
  MaxResets = 1
  MaxWrites = 3
  MaxWork = 5
SPECIFICATION CdcSpec
INVARIANTS
  DataExact
  Answered
  HostAgrees
  StreamHonest
  PacketsAccounted
CHECK_DEADLOCK FALSE
