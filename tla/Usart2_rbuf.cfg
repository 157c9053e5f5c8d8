SPECIFICATION Spec
CONSTANTS
  Usarts <- MCUsarts
  Peer <- MCPeer
  Bytes <- MCOneByte
  Driven <- MCReceiveOnce
  ConValues <- MCKeepsR
  W1cValues <- MCNoBits
  MaxWrites = 2
  CountMod = 8
  EarlyTbuf = FALSE
  LateBus = FALSE
  IrqBound = FALSE
INVARIANTS FullRbufHoldsByte
CHECK_DEADLOCK FALSE
