CONSTANTS
  TxCap = 1
  PtxCap = 1
  OutCap = 1
  MaxAttempt = 1
  MaxFrames = 1
  MaxPumps = 1
SPECIFICATION Spec
INVARIANTS OneProcess EmptyEndsAreExplained
PROPERTIES TellsTheCard ShutsDown Recovers
CHECK_DEADLOCK FALSE
