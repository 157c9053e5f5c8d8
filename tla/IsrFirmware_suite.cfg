SPECIFICATION FairSpec
CONSTANTS
  Masks <- MCMasks
  LogSize = 64
  WaitLimit = 40
  PastRace = FALSE
INVARIANTS FailuresNeedARace SleeperIsOwed
PROPERTIES SuiteEnds
CHECK_DEADLOCK FALSE
