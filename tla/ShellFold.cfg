CONSTANTS
  Blank <- MCBlank
  Newline <- MCNewline
  Tab = "tab"
  Value = Value
  None = None
  Stdin = "-"
  Opaque = Opaque
  Contents <- MCContents
  Paths <- MCContents
  Number <- MCNumber
  Chunk <- MCChunk
  Pattern <- MCPattern
  Separator <- MCSeparator
  Charset <- MCCharset
  Lower <- MCLower
  WordLetter <- MCWordLetter
  Rank <- MCRank
  Wild = "any"
  AnyLetter = "any"
  LastPlace = LastPlace
  SedScript <- MCSedScript
  AwkProgram <- MCAwkProgram
  NulNames <- MCNulNames
  Letters <- MCLetters
  Code <- MCCode
  Packed <- MCPacked
  Lz4Named = {"lz4"}
  Script <- MCScript
  Escaped <- MCEscaped
  Formats <- MCFormats
  Argument = "%s"
  Commands <- MCCommands
  Openers <- Decoders
  ReadBacks <- MCReadBacks
  MaxStages = 2
  MaxPieces = 3
  MaxText = 2
SPECIFICATION Spec
INVARIANTS PipeIsFollowed FoldCoversOutput FoldIsExact
CHECK_DEADLOCK FALSE
CONSTRAINT Followed
