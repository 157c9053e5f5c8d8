SPECIFICATION Spec
CONSTANTS
  Masks <- MCFirst
  LogSize = 64
  WaitLimit = 40
  PastRace = FALSE
INVARIANTS SleepsOnlyForEvents
CHECK_DEADLOCK FALSE
