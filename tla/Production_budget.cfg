SPECIFICATION FairSpec
CONSTANTS
    RetryLimit = 1
    LoopLimit = 0
    SampleLimit = 2
    AttemptLimit = 1
    MaxDepth = 4
    MaxColumns = 1
INVARIANTS
    TypeOK
    RetryBudget
    WindowPlaced
PROPERTIES
    NeverForgiven
    LoweredBudget
    AttemptEnds
