\* One evaluation against a server that may throttle, redirect, refuse or stay
\* silent, while a host rotates the key.
SPECIFICATION FairSpec
CONSTANTS
  Deadline = 8
  MaxTime = 9
  MaxRetries = 3
  RetryAfters <- MCRetryAfters
  Keys <- MCKeys
INVARIANTS
  TypeOK
  OneKeyPerCall
  RequestsAreBounded
PROPERTIES
  EvaluationEnds
