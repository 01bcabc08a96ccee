----------------------------- MODULE SchemaLoad -----------------------------
(***************************************************************************)
(* schema_pqxx's constructor (src/postgres.cc) and generate_indexes        *)
(* (src/schema.cc): the catalog is read by one query after the other, each *)
(* under its own READ COMMITTED snapshot, while others may run DDL; then   *)
(* the indexes by type are built from what was read.                       *)
(***************************************************************************)
EXTENDS Naturals, Sequences, FiniteSets, PgTypes

CONSTANTS
    Builtin,         \* types that always exist
    Tables, CatalogTables, Views,       \* names; those of the system's schemas;
                                        \*   those that are no base tables
    Routines, Aggregates,               \* rows of pg_proc, by oid
    Operators,                          \* rows of pg_operator
    Result,          \* result type of every routine, aggregate and operator
    Args,            \* their parameter types in order; an oid never changes its signature
    ExcludeCatalog,  \* --exclude-catalog
    MaxDDL,          \* bound: DDL statements of others while the schema is read
    NoType           \* the null an unknown oid maps to

Procs == Routines \cup Aggregates
Objects == Procs \cup Operators

ASSUME ObjectsAssumption ==
    /\ Builtin \subseteq Types
    /\ CatalogTables \cup Views \subseteq Tables
    /\ Result \in [Objects -> Types]
    /\ Args \in [Objects -> Seq(Types)]
    /\ ExcludeCatalog \in BOOLEAN /\ MaxDDL \in Nat
    /\ NoType \notin Types

VARIABLES
    pgTypes, pgObjects, pgColumns,  \* the server's catalog (external):
                                    \*   what exists, the column types of each table
    pgTables,
    dropped,   \* types and objects that were: an oid does not come back
    ddl,       \* DDL statements so far
    stage,     \* which query the constructor is at
    todo,      \* rows its current loop has not reached
    types, tables, columns,         \* what has been loaded; NoType is a null type
    operators, operands, procs, argtypes,
    indexed,   \* types generate_indexes is through with
    returning, \* routines_returning_type and aggregates_returning_type
    parameterless, tablesWith, concreteOf, operatorsReturning, base_tables

catalog == <<pgTypes, pgObjects, pgColumns, pgTables, dropped, ddl>>
rows == <<types, tables, columns, operators, operands, procs, argtypes>>
indexes == <<indexed, returning, parameterless, tablesWith, concreteOf, operatorsReturning,
             base_tables>>
vars == <<catalog, stage, todo, rows, indexes>>

Entries(list) == {list[i] : i \in 1..Len(list)}

(* What every object in the catalog refers to is in the catalog, and the    *)
(* system's tables are the server's own.                                     *)
CatalogClosed(ts, os, tabs, cols) ==
    /\ \A o \in os : Result[o] \in ts /\ Entries(Args[o]) \subseteq ts
    /\ \A t \in tabs : cols[t] \subseteq {c \in ts : Concrete(c)}
    /\ \A t \in CatalogTables : cols[t] \subseteq Builtin

(* oid2type[oid]: operator[] of a map inserts a null for an unknown oid. *)
Lookup(t) == IF t \in types THEN t ELSE NoType

Resolve(ts) == {Lookup(t) : t \in ts}

ResolveList(list) == [i \in 1..Len(list) |-> Lookup(list[i])]

(* Mutant: the asserts are compiled out. *)
AssertNothing(ts) == TRUE

(* assert(t), in the constructors of column and routine and in the loops    *)
(* over the parameters.                                                      *)
AssertKnown(ts) == NoType \notin ts

(* Mutant: the catalog is never excluded. *)
KeepAll(tabs) == tabs

Keep(tabs) == IF ExcludeCatalog THEN tabs \ CatalogTables ELSE tabs

-----------------------------------------------------------------------------
Init ==
    /\ pgTypes \in {Builtin \cup ts : ts \in SUBSET Types}
    /\ pgObjects \in SUBSET Objects
    /\ pgTables \in {CatalogTables \cup tabs : tabs \in SUBSET Tables}
    /\ pgColumns \in [Tables -> SUBSET Types]
    /\ \A t \in Tables \ pgTables : pgColumns[t] = {}
    /\ CatalogClosed(pgTypes, pgObjects, pgTables, pgColumns)
    /\ dropped = {} /\ ddl = 0
    /\ stage = "types" /\ todo = {}
    /\ types = {} /\ tables = {} /\ columns = [t \in Tables |-> {}]
    /\ operators = {} /\ operands = [o \in Operators |-> <<>>]
    /\ procs = {} /\ argtypes = [p \in Procs |-> <<>>]
    /\ indexed = {}
    /\ returning = [t \in Types |-> {}]
    /\ parameterless = [t \in Types |-> {}]
    /\ tablesWith = [t \in Types |-> {}]
    /\ concreteOf = [t \in Types |-> {}]
    /\ operatorsReturning = [t \in Types |-> {}]
    /\ base_tables = {}

(* Mutant: only base types are read. *)
LoadBaseTypes ==
    /\ stage = "types"
    /\ types' = {t \in pgTypes : Typtype[t] \in {"b", "p"}}
    /\ stage' = "tables"
    /\ UNCHANGED <<catalog, todo, tables, columns, operators, operands, procs, argtypes, indexes>>

LoadTypes ==
    /\ stage = "types"
    /\ types' = pgTypes
    /\ stage' = "tables"
    /\ UNCHANGED <<catalog, todo, tables, columns, operators, operands, procs, argtypes, indexes>>

LoadTables ==
    /\ stage = "tables"
    /\ tables' = Keep(pgTables)
    /\ todo' = tables'
    /\ stage' = "columns"
    /\ UNCHANGED <<catalog, types, columns, operators, operands, procs, argtypes, indexes>>

(* One query per table, by name; column's constructor asserts its type. *)
LoadColumns(t) ==
    /\ stage = "columns" /\ t \in todo
    /\ LET row == Resolve(pgColumns[t])
       IN  IF AssertKnown(row)
           THEN /\ columns' = [columns EXCEPT ![t] = row]
                /\ todo' = todo \ {t}
                /\ UNCHANGED stage
           ELSE stage' = "aborted" /\ UNCHANGED <<columns, todo>>
    /\ UNCHANGED <<catalog, types, tables, operators, operands, procs, argtypes, indexes>>

(* Nothing asserts the types of an operator: its operands may be null. *)
LoadOperators ==
    /\ stage = "columns" /\ todo = {}
    /\ operators' = pgObjects \cap Operators
    /\ operands' = [o \in Operators |-> IF o \in operators' THEN ResolveList(Args[o]) ELSE <<>>]
    /\ stage' = "routines"
    /\ UNCHANGED <<catalog, todo, types, tables, columns, procs, argtypes, indexes>>

(* Routines, then aggregates: routine's constructor asserts the result type. *)
LoadProcs(from, kind, to) ==
    /\ stage = from /\ todo = {}
    /\ LET found == pgObjects \cap kind
       IN  IF AssertKnown(Resolve({Result[p] : p \in found}))
           THEN procs' = procs \cup found /\ todo' = found /\ stage' = to
           ELSE stage' = "aborted" /\ UNCHANGED <<procs, todo>>
    /\ UNCHANGED <<catalog, types, tables, columns, operators, operands, argtypes, indexes>>

LoadRoutines == LoadProcs("routines", Routines, "params")
LoadAggregates == LoadProcs("params", Aggregates, "aggparams")

(* One query per routine, by oid, for its parameter types: no row if it has *)
(* been dropped since.                                                       *)
LoadParams(p) ==
    /\ stage \in {"params", "aggparams"} /\ p \in todo
    /\ LET found == IF p \in pgObjects THEN Args[p] ELSE <<>>
       IN  IF AssertKnown(Resolve(Entries(found)))
           THEN /\ argtypes' = [argtypes EXCEPT ![p] = ResolveList(found)]
                /\ todo' = todo \ {p}
                /\ UNCHANGED stage
           ELSE stage' = "aborted" /\ UNCHANGED <<argtypes, todo>>
    /\ UNCHANGED <<catalog, types, tables, columns, operators, operands, procs, indexes>>

(* The session is closed; consistent() of a null result type dereferences it. *)
CloseConnection ==
    /\ stage = "aggparams" /\ todo = {}
    /\ IF NoType \notin Resolve({Result[o] : o \in operators})
       THEN stage' = "indexes" /\ todo' = types
       ELSE stage' = "crashed" /\ UNCHANGED todo
    /\ UNCHANGED <<catalog, rows, indexes>>

(* Mutant: the test for parameters is lost. *)
ParameterlessAll(p) == p \in Routines

Parameterless(p) == p \in Routines /\ argtypes[p] = <<>>

(* generate_indexes, one round of its outer loop. *)
IndexType(t) ==
    /\ stage = "indexes" /\ t \in todo
    /\ LET able == {p \in procs : Consistent(t, Result[p])}
       IN  /\ returning' = [returning EXCEPT ![t] = able]
           /\ parameterless' = [parameterless EXCEPT ![t] = {p \in able : Parameterless(p)}]
    /\ tablesWith' = [tablesWith EXCEPT ![t] =
            {tab \in tables : \E c \in columns[tab] : Consistent(t, c)}]
    /\ concreteOf' = [concreteOf EXCEPT ![t] = {v \in types : Consistent(t, v)}]
    /\ operatorsReturning' = [operatorsReturning EXCEPT ![t] =
            {o \in operators : Consistent(t, Result[o])}]
    /\ indexed' = indexed \cup {t}
    /\ todo' = todo \ {t}
    /\ UNCHANGED <<catalog, stage, rows, base_tables>>

(* ... and its last loop. *)
Ready ==
    /\ stage = "indexes" /\ todo = {}
    /\ base_tables' = tables \ Views
    /\ stage' = "ready"
    /\ UNCHANGED <<catalog, todo, rows, indexed, returning, parameterless, tablesWith,
                   concreteOf, operatorsReturning>>

-----------------------------------------------------------------------------
(* DDL of others between two queries (external).  The server lets nothing  *)
(* go that something else refers to.                                       *)
Loading == stage \notin {"indexes", "ready", "aborted", "crashed"}

DDL(ts, os, tabs, cols) ==
    /\ Loading /\ ddl < MaxDDL
    /\ CatalogClosed(ts, os, tabs, cols)
    /\ pgTypes' = ts /\ pgObjects' = os /\ pgTables' = tabs /\ pgColumns' = cols
    /\ dropped' = dropped \cup (pgTypes \ ts) \cup (pgObjects \ os)
    /\ ddl' = ddl + 1
    /\ UNCHANGED <<stage, todo, rows, indexes>>

CreateType(t) ==
    /\ t \notin pgTypes \cup dropped
    /\ DDL(pgTypes \cup {t}, pgObjects, pgTables, pgColumns)
DropType(t) ==
    /\ t \in pgTypes \ Builtin
    /\ DDL(pgTypes \ {t}, pgObjects, pgTables, pgColumns)
CreateObject(o) ==
    /\ o \notin pgObjects \cup dropped
    /\ DDL(pgTypes, pgObjects \cup {o}, pgTables, pgColumns)
DropObject(o) ==
    /\ o \in pgObjects
    /\ DDL(pgTypes, pgObjects \ {o}, pgTables, pgColumns)
AddColumn(tab, t) ==
    /\ tab \notin CatalogTables /\ t \notin pgColumns[tab]
    /\ DDL(pgTypes, pgObjects, pgTables \cup {tab}, [pgColumns EXCEPT ![tab] = @ \cup {t}])
DropTable(tab) ==
    /\ tab \in pgTables \ CatalogTables
    /\ DDL(pgTypes, pgObjects, pgTables \ {tab}, [pgColumns EXCEPT ![tab] = {}])

OthersDDL ==
    \/ \E t \in Types : CreateType(t) \/ DropType(t)
    \/ \E o \in Objects : CreateObject(o) \/ DropObject(o)
    \/ \E tab \in Tables : DropTable(tab) \/ \E t \in Types : AddColumn(tab, t)

Done == stage \in {"ready", "aborted", "crashed"} /\ UNCHANGED vars

Next ==
    \/ LoadTypes \/ LoadTables \/ LoadOperators \/ LoadRoutines \/ LoadAggregates
    \/ (\E t \in Tables : LoadColumns(t))
    \/ (\E p \in Procs : LoadParams(p))
    \/ CloseConnection
    \/ (\E t \in Types : IndexType(t))
    \/ Ready
    \/ OthersDDL
    \/ Done

Spec == Init /\ [][Next]_vars

-----------------------------------------------------------------------------
TypeOK ==
    /\ pgTypes \subseteq Types /\ pgObjects \subseteq Objects /\ pgTables \subseteq Tables
    /\ pgColumns \in [Tables -> SUBSET Types]
    /\ dropped \subseteq Types \cup Objects
    /\ ddl \in 0..MaxDDL
    /\ stage \in {"types", "tables", "columns", "routines", "params", "aggparams",
                  "indexes", "ready", "aborted", "crashed"}
    /\ todo \subseteq Types \cup Tables \cup Procs
    /\ types \subseteq Types /\ tables \subseteq Tables
    /\ columns \in [Tables -> SUBSET Types]
    /\ operators \subseteq Operators /\ procs \subseteq Procs
    /\ operands \in [Operators -> Seq(Types \cup {NoType})]
    /\ argtypes \in [Procs -> Seq(Types)]
    /\ indexed \subseteq Types
    /\ returning \in [Types -> SUBSET Procs]
    /\ parameterless \in [Types -> SUBSET Routines]
    /\ tablesWith \in [Types -> SUBSET Tables]
    /\ concreteOf \in [Types -> SUBSET Types]
    /\ operatorsReturning \in [Types -> SUBSET Operators]
    /\ base_tables \subseteq Tables

(* However the DDL of others falls between the queries, a schema that came  *)
(* to be refers to loaded types only: where the grammar asks a column, a    *)
(* routine, a parameter or an operator's result for its type, the type is   *)
(* there.  An operand is what its operator declares, or null where that     *)
(* type was not read.                                                        *)
LoadedClosed ==
    stage = "ready" =>
        /\ \A t \in tables : columns[t] \subseteq types
        /\ \A p \in procs : Result[p] \in types /\ Entries(argtypes[p]) \subseteq types
        /\ \A o \in operators :
              /\ Result[o] \in types /\ Len(operands[o]) = Len(Args[o])
              /\ \A i \in 1..Len(Args[o]) :
                    operands[o][i] = (IF Args[o][i] \in types THEN Args[o][i] ELSE NoType)

(* A null can come of nothing less than a type and then an object that uses *)
(* it, both created after the types were read: a single DDL statement of    *)
(* others, wherever it falls, makes no assert fail, no result of an         *)
(* operator null and no operand null.                                        *)
OneDDLHarmless ==
    ddl < 2 =>
        /\ stage \notin {"aborted", "crashed"}
        /\ \A o \in operators : NoType \notin Entries(operands[o])

(* A routine that exists from its loading on is known with all its          *)
(* parameters in their order, and it is offered as parameterless only if it *)
(* has none.                                                                 *)
SurvivorsExact ==
    stage = "ready" =>
        \A p \in procs \cap pgObjects :
            /\ argtypes[p] = Args[p]
            /\ \A t \in types : p \in parameterless[t] => Args[p] = <<>>

(* Without DDL meanwhile the schema is the catalog, and every object of it  *)
(* is offered under its own result type.                                     *)
QuietLoadComplete ==
    ddl = 0 /\ stage = "ready" =>
        /\ types = pgTypes
        /\ tables = pgTables \ (IF ExcludeCatalog THEN CatalogTables ELSE {})
        /\ \A t \in tables : columns[t] = pgColumns[t]
        /\ base_tables = tables \ Views
        /\ procs \cup operators = pgObjects
        /\ \A o \in operators : operands[o] = Args[o]
        /\ \A p \in procs : Concrete(Result[p]) => p \in returning[Result[p]]
        /\ \A t \in tables : \A c \in columns[t] : Concrete(c) => t \in tablesWith[c]

(* An object found under a type of the index can stand where that type is   *)
(* asked for: under a concrete type nothing else is ever offered.           *)
IndexesConform ==
    \A t \in indexed : Concrete(t) =>
        /\ \A o \in returning[t] \cup operatorsReturning[t] : Result[o] = t
        /\ \A tab \in tablesWith[t] : t \in columns[tab]
        /\ concreteOf[t] = {t}

(* relmodel.hh:41 and :138, postgres.cc:254 and :297: assert that the type  *)
(* of a column, a result or a parameter is known.                           *)
NoAssertFails == stage # "aborted"
=============================================================================
