SPECIFICATION Spec
CONSTANTS
  BaseDelay = 1
  MaxDelay = 8
  RetryAfters <- MCRetryAfters
  Dsns = {TRUE, FALSE}
  Attempts = {0, 1, 6}
  Raised <- MCRaised
  MaxCalls = 2
INVARIANTS NothingIsLeftBehind RetryKeepsItsWord
PROPERTIES CallEnds
