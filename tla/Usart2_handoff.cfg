SPECIFICATION EvFairSpec
CONSTANTS
  Usarts <- MCUsarts
  Peer <- MCPeer
  Bytes <- MCOneByte
  Driven <- MCStatus
  ConValues <- MCKeepsR
  W1cValues <- MCAllTogether
  MaxWrites = 2
  CountMod = 8
  EarlyTbuf = FALSE
  LateBus = FALSE
  IrqBound = FALSE
INVARIANTS TxHandOff EventsReported
PROPERTIES HeldByteLeaves
CHECK_DEADLOCK FALSE
