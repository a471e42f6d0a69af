\* Two host threads rotate the key at the same time; one of them is refused.
SPECIFICATION Spec
CONSTANTS
  Questions <- OneQuestion
  ForcedChoices <- BatteryForced
  Deadline = 1
  FirstTimeout = 1
  MaxTime = 1
  Rotators = {r1, r2}
  NewKeys <- TwoKeys
INVARIANTS
  RotatedKeysAgree
