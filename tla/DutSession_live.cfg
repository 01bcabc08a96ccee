SPECIFICATION FairSpec
CONSTANTS
    MaxFaults = 3
    ServerMayReject = FALSE
INVARIANTS
    NoStatementSkipped
    StatementTimeoutSet
PROPERTIES
    TestReturns
    Recovers
