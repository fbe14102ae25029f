CONSTANTS
  BufSize <- MCBufSize
  SrcLens <- MCSrcLens
  PutsOutcomes <- MCOutcomesAll
SPECIFICATION Spec
INVARIANT DstInOrder
CHECK_DEADLOCK FALSE
