\* The names in a derived GROUP BY clause.
CONSTANTS
    Types <- MCTypes
    Consistent <- MCConsistent
    AttemptLimit = 1
    MaxNames = 3
    MaxDepth = 4
    MaxItems = 1
    MaxColumns = 2
SPECIFICATION Spec
INVARIANT
    GroupVisible
CHECK_DEADLOCK TRUE
