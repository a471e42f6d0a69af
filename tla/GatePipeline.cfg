\* One call through gate_uncached, for every policy row, request, and answer
\* of the grid. Each call ends, so a finished call has no successor.
SPECIFICATION Spec
CONSTANTS
  Unit = 4
  QuestionCap = 3
  BatteryNoul <- MCBatteryNoul
  Policies <- MCPolicies
  Requests <- MCRequests
  Responses <- MCResponses
INVARIANTS
  TypeOK
  LoopsJudge
  AutoIsEarned
  FailureStaysShut
  WorseLabelNeverLoosens
  ExtrasOnlyTighten
  KeptIsDecided
CHECK_DEADLOCK FALSE
