SPECIFICATION EvSpec
CONSTANTS
  Usarts <- MCUsarts
  Peer <- MCPeer
  Bytes <- MCOneByte
  Driven <- MCAnswer
  ConValues <- MCKeepsR
  W1cValues <- MCAllTogether
  MaxWrites = 1
  CountMod = 8
  EarlyTbuf = TRUE
  LateBus = FALSE
  IrqBound = FALSE
INVARIANTS EventsReported
CHECK_DEADLOCK FALSE
