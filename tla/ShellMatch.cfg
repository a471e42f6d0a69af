SPECIFICATION Spec
CONSTANTS
  a = a
  b = b
  Blank = Blank
  Newline = Newline
  Unset = Unset
  NoRow = NoRow
  Name <- MCName
  Letter <- MCLetter
  EvalVariantCap = 8
  MapfileOriginCap = 1
  Row <- MCRow
  ActionRank <- MCRank
  Deep = "shell.deep"
  Fn <- MCFn
  MaxShellDepth = 2
  MaxSegments = 5
  Tokens <- MCTokens
  PrefixWords <- MCPrefixWords
  Declarations <- MCDeclarations
  Inputs <- MCInputs
  MapfileOptions <- MCMapfileOptions
INVARIANTS TypeOK EvalCoversShell StrictestRowWins NothingOutlivesItsFrame
CHECK_DEADLOCK FALSE
CONSTRAINT Followed
