SPECIFICATION Spec
CONSTANTS
  Consumers = {c1}
  Metas = {"required"}
  Classes = {"Cpu"}
  CurrentRevision = "r1"
  Requests = {1, 2, 3}
  Needs <- MCNeeds
  Witness = {2}
  MaxAttempts = 2
INVARIANTS
  SuccessIsOwn
  CreditIsBacked
CHECK_DEADLOCK FALSE
