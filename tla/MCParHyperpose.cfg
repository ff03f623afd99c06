SPECIFICATION Spec
CONSTANTS
  N = 3
  MaxDeaths = 1
INVARIANTS
  TypeOK
  ResultsWhole
  NoLostWakeup
  AnswersReadInTime
PROPERTY
  ReturnsAndCleansUp
CHECK_DEADLOCK FALSE
