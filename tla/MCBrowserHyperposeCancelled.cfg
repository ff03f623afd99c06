SPECIFICATION PageSpec
CONSTANTS
  N = 3
  MaxWorkers = 2
  MaxRefused = 0
INVARIANT
  WorkersCancelled
CHECK_DEADLOCK FALSE
