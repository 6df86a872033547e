SPECIFICATION WatchSpec
CONSTANTS
  Attempts <- MCAttempts
  Heads <- MCHeads
  Enforcement <- MCEnforcement
  Pending = Pending
  MaxSights = 2
INVARIANTS
  PassIsEarned
CHECK_DEADLOCK FALSE
