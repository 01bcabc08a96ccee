\* Names, scopes and columns of statements with nested queries.
CONSTANTS
    Types <- MCTypes
    Consistent <- MCConsistent
    AttemptLimit = 1
    MaxNames = 3
    MaxDepth = 4
    MaxItems = 1
    MaxColumns = 2
SPECIFICATION Spec
INVARIANTS
    TypeOK
    NamesVisible
    VisibleNamed
    NoShadowing
    SameColumns
CHECK_DEADLOCK TRUE
