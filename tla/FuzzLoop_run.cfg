SPECIFICATION FairSpec
CONSTANTS
    MaxFaults = 3
    ServerMayReject = FALSE
    Prods = {window}
    Gated = {window}
    MinFailed = 2
    RateNum = 2
    RateDen = 3
    MaxOccurs = 1
    MaxQueries = 3
    StatEvery = 2
INVARIANTS
    TypeOK
    ReportConsistent
    LoggersAgree
    StatFresh
    ExactBudget
    ServerNeverEndsRun
PROPERTIES
    FeedbackProtocol
    Terminates
