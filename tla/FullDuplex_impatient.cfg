SPECIFICATION FdSpec
CONSTANTS
  Usarts <- MCUsarts
  Peer <- MCPeer
  Bytes <- MCProgramBytes
  Driven <- MCProgramDrives
  ConValues <- MCKeepsR
  W1cValues <- MCProgramClears
  MaxWrites = 8
  CountMod = 16
  EarlyTbuf = TRUE
  LateBus = TRUE
  IrqBound = FALSE
  Patient = FALSE
INVARIANTS FirstFailureIsATimeOut
CHECK_DEADLOCK FALSE
