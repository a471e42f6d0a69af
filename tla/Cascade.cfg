\* One evaluation and one host thread that rotates the key meanwhile. The
\* evaluation ends, but the host may go on rotating, so nothing deadlocks.
SPECIFICATION Spec
CONSTANTS
  Questions <- MCQuestions
  ForcedChoices <- MCForced
  Deadline = 3
  FirstTimeout = 2
  MaxTime = 4
  Rotators = {r1}
  NewKeys <- MCNewKeys
INVARIANTS
  TypeOK
  ForcedFromFallback
  UnsureIsFlagged
  MarksAreTrue
  SureAnswersStay
  RotatedKeysAgree
