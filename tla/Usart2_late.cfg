SPECIFICATION EvSpec
CONSTANTS
  Usarts <- MCUsarts
  Peer <- MCPeer
  Bytes <- MCOneByte
  Driven <- MCAccessOnly
  ConValues <- MCKeepsR
  W1cValues <- MCAllTogether
  MaxWrites = 1
  CountMod = 8
  EarlyTbuf = TRUE
  LateBus = TRUE
  IrqBound = FALSE
INVARIANTS ReceivedReported
CHECK_DEADLOCK FALSE
