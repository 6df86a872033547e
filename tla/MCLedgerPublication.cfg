SPECIFICATION PairSpec
CONSTANTS
    Runs = 3
    Missing = Missing
    Partial = Partial
INVARIANTS
    SuccessIsWhole
    FailureRestores
