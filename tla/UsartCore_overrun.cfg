SPECIFICATION Spec
CONSTANTS
  TxValues <- MCTxValues
  RxBytes <- MCRxBytes
  ConWrites <- MCKeepsR
  BgValues <- MCBgValues
  ClkPeriods <- MCClkPeriods
  BusDelays <- MCNoDelay
  TimeSteps <- MCTimeSteps
  EarlyTbuf = FALSE
  Resets = FALSE
  MaxTime = 320
  MaxFrames = 2
INVARIANTS OverrunImpliesUnread
CHECK_DEADLOCK FALSE
