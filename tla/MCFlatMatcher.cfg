SPECIFICATION Spec
CONSTANTS
  w1 = w1
  w2 = w2
  Workers = {w1, w2}
  NumFacts = 3
  Calls = 4
  Hits <- MCHits
  Unknown = {2}
  MaxDeaths = 2
  MayClose = TRUE
INVARIANTS
  TypeOK
  CallsApart
PROPERTIES
  FailureContained
  MatchesResolve
CHECK_DEADLOCK FALSE
