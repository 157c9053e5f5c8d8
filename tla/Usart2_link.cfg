SPECIFICATION EvFairSpec
CONSTANTS
  Usarts <- MCUsarts
  Peer <- MCPeer
  Bytes <- MCBytes
  Driven <- MCLink
  ConValues <- MCKeepsR
  W1cValues <- MCAllTogether
  MaxWrites = 3
  CountMod = 8
  EarlyTbuf = TRUE
  LateBus = FALSE
  IrqBound = FALSE
INVARIANTS ReceiverNeverStalls EventsReported
PROPERTIES ImplementsLink EveryByteArrives
CHECK_DEADLOCK FALSE
