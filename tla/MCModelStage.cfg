CONSTANTS
  FastLanes = {"summary-pressure"}
  Concurrency = 2
  ConfiguredLimit <- MCLimit
  Setups <- MCSetups
  QuestionLists <- MCQuestions
SPECIFICATION Spec
INVARIANTS
  BudgetHeld
  LossesTold
  ProvenanceTrue
  AuthorityCurrent
CHECK_DEADLOCK FALSE
