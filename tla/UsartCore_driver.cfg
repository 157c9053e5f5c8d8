SPECIFICATION FairSpec
CONSTANTS
  TxValues <- MCTxValues
  RxBytes <- MCRxBytes
  ConWrites <- MCKeepsR
  BgValues <- MCBgValues
  ClkPeriods <- MCClkPeriods
  BusDelays <- MCNoDelay
  TimeSteps <- MCTimeSteps
  EarlyTbuf = FALSE
  Resets = TRUE
  MaxTime = 640
  MaxFrames = 3
INVARIANTS NothingStranded
PROPERTIES EveryFrameEnds
CHECK_DEADLOCK FALSE
