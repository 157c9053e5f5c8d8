SPECIFICATION Spec
CONSTANTS
  Masks <- MCFirst
  LogSize = 64
  WaitLimit = 40
  PastRace = TRUE
INVARIANTS NoTestFails
CHECK_DEADLOCK FALSE
