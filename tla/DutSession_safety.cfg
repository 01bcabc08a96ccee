SPECIFICATION Spec
CONSTANTS
    MaxFaults = 4
    ServerMayReject = TRUE
INVARIANTS
    TypeOK
    FreshBlock
    ConnMatchesOutcome
PROPERTY
    ImplementsContract
