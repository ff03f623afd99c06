SPECIFICATION Spec
CONSTANTS
  N = 2
  MaxDeaths = 0
INVARIANT
  UnreadMeansFailed
CHECK_DEADLOCK FALSE
