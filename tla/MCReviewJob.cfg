SPECIFICATION Spec
CONSTANTS
  Jobs <- MCJobs
  Facts <- MCFacts
  Settings <- MCSettings
  CandidateLists <- MCCandidateLists
  OpenIn <- MCOpenIn
  OpenCap = 1
  NoFacts = NoFacts
INVARIANTS
  TruthfulOutcome
  OpenedOnce
PROPERTIES
  KeepsPromise
CHECK_DEADLOCK FALSE
