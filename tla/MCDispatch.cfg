CONSTANTS
  LispNil = LispNil
  Chars <- MCChars
  FnResults <- MCFnChars
  InputStrings <- MCInputStrings
  Starts <- MCStartsValid
  StdValues <- MCStdAll
  PutLens <- MCPutLens
  MaxOut <- MCMaxOut
SPECIFICATION Spec
INVARIANT TypeOK NoOutOfBoundsRead
PROPERTY UngetRestoresStrIn
