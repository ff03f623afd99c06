SPECIFICATION Spec
CONSTANTS
  c1 = c1
  c2 = c2
  c3 = c3
  a1 = a1
  a2 = a2
  head = head
  l1 = l1
  l2 = l2
  l3 = l3
  l4 = l4
  Calls <- MCCalls
  Answers <- MCAnswers
  Bags <- MCBags
  Functors <- MCFunctors
  HeadOf <- MCHeadOf
  CallVars <- MCCallVars
  CallLeaves <- MCCallLeaves
  AnswerLeaves <- MCAnswerLeaves
  AnswerSize <- MCAnswerSize
  MaxCompletedEntries = 3
  MaxCompletedAnswers = 3
  MaxApproxCells = 7
  MaxEntryCells = 4
  MaxInternerLeaves = 3
  UtilityRevokeAfter = 2
  MaxGeneration = 1
INVARIANTS
  CountersAgree
  LimitsRespected
  NoVariantTwice
  KeysDecodable
  LeastRecentlyUsedEvicted
PROPERTY
  RevocationIsFinal
CHECK_DEADLOCK FALSE
