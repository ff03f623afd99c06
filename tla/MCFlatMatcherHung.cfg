SPECIFICATION Spec
CONSTANTS
  w1 = w1
  w2 = w2
  Workers = {w1, w2}
  NumFacts = 3
  Calls = 3
  Hits <- MCHits
  Unknown = {2}
  MaxDeaths = 1
  MayClose = FALSE
INVARIANT
  NoHungMatch
CHECK_DEADLOCK FALSE
