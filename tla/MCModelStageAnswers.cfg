CONSTANTS
  FastLanes = {"summary-pressure"}
  Concurrency = 2
  ConfiguredLimit <- MCLimit
  Setups <- MCSetups
  QuestionLists <- MCNamings
SPECIFICATION Spec
INVARIANT AnswersReachReporter
CHECK_DEADLOCK FALSE
