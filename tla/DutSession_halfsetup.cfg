SPECIFICATION Spec
CONSTANTS
    MaxFaults = 2
    ServerMayReject = TRUE
INVARIANT
    StatementTimeoutSet
