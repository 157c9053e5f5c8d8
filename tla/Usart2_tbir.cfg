SPECIFICATION EvSpec
CONSTANTS
  Usarts <- MCUsarts
  Peer <- MCPeer
  Bytes <- MCOneByte
  Driven <- MCBothSend
  ConValues <- MCKeepsR
  W1cValues <- MCAllTogether
  MaxWrites = 3
  CountMod = 8
  EarlyTbuf = TRUE
  LateBus = FALSE
  IrqBound = FALSE
INVARIANTS WriteReported
CHECK_DEADLOCK FALSE
