SPECIFICATION Spec
CONSTANTS
  Consumers = {c1}
  Metas = {"required"}
  Classes = {"Cpu"}
  CurrentRevision = "r1"
  Tasks <- MCTasks
  Kind <- MCKind
  File <- MCFile
  Allowance <- MCAllowance
  Requests = {11, 12, 13, 14}
  Target <- MCTarget
  Required = {11}
  Standing <- MCStanding
  TicksPerSecond = 2
  Floor = {1}
  Impact = {2}
  Seeds <- MCSeeds
  Lanes <- MCLanes
  FollowUps <- MCFollowUps
  Total <- MCTotal
  Settings <- MCSettings
  Leftovers <- MCLeftovers
  Deadlines = {0, 5}
  Endings <- MCEndings
INVARIANTS
  HeldUntilGone
  BudgetHonoured
  CreditIsReadBack
  OnlyFaultsFail
  VerdictsEarned
PROPERTIES
  ObligationsKept
CHECK_DEADLOCK FALSE
