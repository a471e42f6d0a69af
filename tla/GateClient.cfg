\* Two callers, one cache entry, a scorer that may answer, answer nonsense or
\* fail, and a log that may refuse a row.
SPECIFICATION FairSpec
CONSTANTS
  Unit = 2
  QuestionCap = 2
  BatteryNoul <- MCBatteryNoul
  Callers = {c1, c2}
  NoCaller = NoCaller
  Calls <- MCCalls
  Responses <- MCResponses
  Overrides <- MCOverrides
  Cap = 1
  TTL = 1
  MaxTime = 2
INVARIANTS
  TypeOK
  CacheBounded
  OutagesAreOwn
  OneWriter
  RepliesAreLogged
  ShadowIsCurrent
PROPERTIES
  EveryCallReturns
  ImplementsService
