SPECIFICATION FairSpec
CONSTANTS
  TxValues <- MCTxValues
  RxBytes <- MCRxBytes
  ConWrites <- MCClearsR
  BgValues <- MCBgValues
  ClkPeriods <- MCClkPeriods
  BusDelays <- MCNoDelay
  TimeSteps <- MCTimeSteps
  EarlyTbuf = FALSE
  Resets = FALSE
  MaxTime = 640
  MaxFrames = 2
PROPERTIES FrozenFrameEnds
CHECK_DEADLOCK FALSE
