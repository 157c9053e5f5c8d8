SPECIFICATION TracedFairSpec
CONSTANTS
  Usarts <- MCUsarts
  Peer <- MCPeer
  Bytes <- MCOneByte
  Driven <- MCSender
  ConValues <- MCKeepsR
  W1cValues <- MCAllTogether
  MaxWrites = 2
  CountMod = 8
  EarlyTbuf = FALSE
  LateBus = FALSE
  IrqBound = FALSE
  Traced <- MCTraced
INVARIANTS TxHandOff WaveformNeverStalls
PROPERTIES HeldByteLeaves WaveformEnds
CHECK_DEADLOCK FALSE
