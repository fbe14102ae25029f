CONSTANTS
  FirstChars <- MCFirstChars
  Alphabet <- MCAlphabet
  MaxInput <- MCMaxInput
SPECIFICATION Spec
INVARIANT DecodesAsSpecified
CHECK_DEADLOCK FALSE
