\* The host sets Fail::Closed between two calls of the same client.
SPECIFICATION Spec
CONSTANTS
  Unit = 2
  QuestionCap = 2
  BatteryNoul <- MCBatteryNoul
  Callers = {c1}
  NoCaller = NoCaller
  Calls <- MCCalls
  Responses <- MCResponses
  Overrides <- FailOnly
  Cap = 1
  TTL = 1
  MaxTime = 1
INVARIANTS
  FailOverrideDecides
