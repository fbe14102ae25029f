CONSTANTS
  LispNil = LispNil
  Chars <- MCChars
  FnResults <- MCFnChars
  InputStrings <- MCInputStrings
  Starts <- MCStartsAny
  StdValues <- MCStdAll
  PutLens <- MCPutLens
  MaxOut <- MCMaxOut
SPECIFICATION Spec
INVARIANT NoOutOfBoundsRead
