CONSTANTS
  BufSize <- MCBufSize
  SrcLens <- MCSrcLens
  PutsOutcomes <- MCOutcomesReliable
SPECIFICATION Spec
INVARIANT CopyComplete
CHECK_DEADLOCK FALSE
