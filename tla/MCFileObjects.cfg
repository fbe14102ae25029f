CONSTANTS
  o1 = o1
  o2 = o2
  o3 = o3
  NoObj = NoObj
  Objs <- MCObjs
  StdStreams <- MCStdStreams
  MaxFopen <- MCMaxFopen
SYMMETRY MCSymmetry
SPECIFICATION Spec
INVARIANT NoBadClose BoundHandleOpen HandlesOwned
CHECK_DEADLOCK FALSE
