SPECIFICATION FairSpec
CONSTANTS
  Depth = 2
  MaxBytes = 5
INVARIANTS TypeOK NothingLost IrqSettles
PROPERTIES EveryByteRead
