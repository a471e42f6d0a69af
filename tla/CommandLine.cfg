\* A run of the command line ends; nothing is left to do after its replay.
SPECIFICATION Spec
CHECK_DEADLOCK FALSE
CONSTANTS
  Unit = 30
  QuestionCap = 32
  BatteryNoul <- MCBatteryNoul
  Claim <- MCClaim
  Cut = Cut
  ClipAt = 4
  ClipKeeps = 1
  TailCells = 5
  TailLines = 3
  MaxShellDepth = 2
  GitHooks <- MCGitHooks
  CommandOf <- HookCommand
  MatchedRow <- Matched
  Calls <- MCCalls
  Versions <- MCVersions
  Replies <- MCReplies
  SessionRows <- MCSessionRows
  Histories <- MCHistories
  NoSpec = NoSpec
  Shipped <- MCShipped
  BadPolicy = BadPolicy
  MaxCells = 6
  MaxEdits = 1
INVARIANTS
  TurnOfOneMoment
  DecidedAsOwed
  ReplayRepeats
