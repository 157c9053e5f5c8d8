SPECIFICATION Spec
CONSTANTS
  Usarts <- MCUsarts
  Peer <- MCPeer
  Bytes <- MCOneByte
  Driven <- MCStatus
  ConValues <- MCKeepsR
  W1cValues <- MCAnyBits
  MaxWrites = 2
  CountMod = 8
  EarlyTbuf = FALSE
  LateBus = FALSE
  IrqBound = FALSE
PROPERTIES W1cClearsOnlyWritten
CHECK_DEADLOCK FALSE
