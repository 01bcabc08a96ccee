SPECIFICATION Spec
CONSTANTS
    MaxFaults = 0
    ServerMayReject = FALSE
INVARIANT
    CancelIsTimeout
