SPECIFICATION Spec
CONSTANTS
    Prods = {subselect, window, column}
    Gated = {subselect, window}
    MinFailed = 2
    RateNum = 2
    RateDen = 3
    MaxOccurs = 2
    MaxCount = 4
CONSTRAINT Bounded
INVARIANTS
    TypeOK
    CountedOncePerQuery
PROPERTY
    BlacklistSticky
