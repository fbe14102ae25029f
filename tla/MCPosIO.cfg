CONSTANTS
  a = a
  Chars <- MCChars
  b = b
  NL = NL
  Space = Space
  Texts <- MCTexts
  WriteChars <- MCWriteChars
  Writes <- MCWrites
  Slack = 1
  MaxChars <- MCMaxChars
SPECIFICATION Spec
INVARIANT TypeOK GetFollowsText UngetRestores ReadBack
