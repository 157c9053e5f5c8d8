SPECIFICATION EvSpec
CONSTANTS
  Usarts <- MCUsarts
  Peer <- MCPeer
  Bytes <- MCOneByte
  Driven <- MCStatus
  ConValues <- MCKeepsR
  W1cValues <- MCAllTogether
  MaxWrites = 2
  CountMod = 2
  EarlyTbuf = TRUE
  LateBus = FALSE
  IrqBound = FALSE
INVARIANTS WriteReported
CHECK_DEADLOCK FALSE
