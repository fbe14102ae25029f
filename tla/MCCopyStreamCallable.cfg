CONSTANTS
  BufSize <- MCBufSize
  SrcLens <- MCSrcLens
  PutsOutcomes <- MCOutcomesCallable
SPECIFICATION Spec
INVARIANT DstInOrder
CHECK_DEADLOCK FALSE
