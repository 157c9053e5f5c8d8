SPECIFICATION SysFairSpec
CONSTANTS
  Usarts <- MCSolo
  Peer <- MCSelf
  Bytes <- MCOneByte
  Driven <- MCSoloDriven
  ConValues <- MCKeepsR
  W1cValues <- MCAllTogether
  MaxWrites = 1
  CountMod = 8
  EarlyTbuf = FALSE
  LateBus = TRUE
  IrqBound = TRUE
INVARIANTS SysTypeOK NoStrandedStatus
PROPERTIES EveryEventServed
CHECK_DEADLOCK FALSE
