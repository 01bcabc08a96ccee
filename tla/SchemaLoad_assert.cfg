SPECIFICATION Spec
CONSTANTS
    int4 = int4
    mood = mood
    anyelement = anyelement
    t1 = t1
    v1 = v1
    pg_class = pg_class
    mk_mood = mk_mood
    now = now
    agg_mood = agg_mood
    eq_mood = eq_mood
    next_mood = next_mood
    NoType = NoType
    Types <- MCTypes
    Typtype <- MCTyptype
    Typname <- MCTypname
    IsArray = {}
    Builtin = {int4, anyelement}
    Tables = {t1, v1, pg_class}
    CatalogTables = {pg_class}
    Views = {v1}
    Routines = {mk_mood, now}
    Aggregates = {agg_mood}
    Operators = {eq_mood, next_mood}
    Result <- MCResult
    Args <- MCArgs
    ExcludeCatalog = TRUE
    MaxDDL = 2
INVARIANT
    NoAssertFails
