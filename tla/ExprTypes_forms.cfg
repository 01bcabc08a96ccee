SPECIFICATION Spec
CONSTANTS
    NoType = NoType
    int4 = int4
    bool = bool
    int4s = int4s
    anyelement = anyelement
    anyarray = anyarray
    internal = internal
    abs = abs
    int4in = int4in
    unnest = unnest
    array_length = array_length
    max = max
    count = count
    corr = corr
    t1 = t1
    t2 = t2
    eq = eq
    elem_eq = elem_eq
    mood_eq = mood_eq
    mood_num = mood_num
    Types <- MCTypes
    Typtype <- MCTyptype
    Typname <- MCTypname
    IsArray = {int4s}
    inttype = int4
    booltype = bool
    internaltype = internal
    arraytype = anyarray
    Columns = {int4, int4s}
    Routines = {abs, int4in, unnest, array_length}
    Aggregates = {max, count, corr}
    Result <- MCResult
    Params <- MCParams
    Tables = {t1, t2}
    TableColumns <- MCTableColumns
    Operators = {eq, elem_eq, mood_eq, mood_num}
    Left <- MCLeft
    Right <- MCRight
    RetryLimit = 1
    LoopLimit = 1
INVARIANTS
    TypeOK
    Honoured
    CallTyped
    OperandsAgree
