CONSTANTS
  a = a
  b = b
  Nul = Nul
  Garbage = Garbage
  Bytes <- MCBytesSmall
  MinCap <- MCMinCapSmall
  SmallCap <- MCSmallCapSmall
  PutLens <- MCPutLensSmall
  MaxLen <- MCMaxLenSmall
SPECIFICATION MCUserSpec
INVARIANT NoOverrun
