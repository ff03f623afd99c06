SPECIFICATION PageSpec
CONSTANTS
  N = 4
  MaxWorkers = 2
  MaxRefused = 1
INVARIANTS
  PoolConsistent
  AnswerExact
PROPERTY
  ReturnsAndStops
CHECK_DEADLOCK FALSE
