SPECIFICATION Spec
CONSTANTS
  TxValues <- MCTxValues
  RxBytes <- MCRxBytes
  ConWrites <- MCReconfigures
  BgValues <- MCBgValues
  ClkPeriods <- MCTwoClocks
  BusDelays <- MCBusDelays
  TimeSteps <- MCTimeSteps
  EarlyTbuf = TRUE
  Resets = TRUE
  MaxTime = 320
  MaxFrames = 2
INVARIANTS TypeOK PulsesEnd DoneEventBelongsToFrame
PROPERTIES UnreadByteKept ImplementsFifo
CHECK_DEADLOCK FALSE
