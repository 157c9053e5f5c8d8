SPECIFICATION FdFairSpec
CONSTANTS
  Usarts <- MCUsarts
  Peer <- MCPeer
  Bytes <- MCProgramBytes
  Driven <- MCProgramDrives
  ConValues <- MCKeepsR
  W1cValues <- MCProgramClears
  MaxWrites = 8
  CountMod = 16
  EarlyTbuf = TRUE
  LateBus = TRUE
  IrqBound = FALSE
  Patient = TRUE
INVARIANTS OnlyTransmitBitsMissed FailuresExplained TirIsOwn
PROPERTIES SuiteReachesExit
CHECK_DEADLOCK FALSE
