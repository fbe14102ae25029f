CONSTANTS
  a = a
  b = b
  Nul = Nul
  Garbage = Garbage
  Bytes <- MCBytesReal
  MinCap <- MCMinCapReal
  SmallCap <- MCSmallCapReal
  PutLens <- MCPutLensReal
  MaxLen <- MCMaxLenReal
SPECIFICATION Spec
INVARIANT TypeOK NoOverrun Terminated
PROPERTY AbsSpec
