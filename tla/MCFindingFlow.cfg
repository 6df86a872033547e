CONSTANTS
  CandidateOnly = {3}
  Strength <- MCStrength
  Restates <- MCRestates
  Need <- MCNeed
  Shares <- MCShares
  Mentions <- MCShares
  Clashes <- MCClashes
  Proved = {1}
  Offers <- MCOffers
  SensorLane = 4
  MaxRaised = 3
  Replies <- MCReplies
  PriorThreads <- MCThreads
SPECIFICATION FlowSpec
INVARIANTS ResolvedStaysOut NothingVanishes
CHECK_DEADLOCK FALSE
