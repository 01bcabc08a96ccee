-------------------------- MODULE SchemaLoadProofs --------------------------
(***************************************************************************)
(* What a loaded schema can be relied on for, for every catalog, any       *)
(* number of DDL statements of others and every place they may fall at.    *)
(***************************************************************************)
EXTENDS SchemaLoad, TLAPS

-----------------------------------------------------------------------------
(* The inductive invariant, in named parts. *)

(* The server's catalog refers to nothing that is not in it. *)
CatalogInv ==
    /\ CatalogClosed(pgTypes, pgObjects, pgTables, pgColumns)
    /\ \A t \in Tables \ pgTables : pgColumns[t] = {}

(* What each query of the constructor finds loaded, and its loop still has  *)
(* to do.                                                                    *)
StageInv ==
    /\ stage \in {"types", "tables", "routines"} => todo = {}
    /\ stage \in {"types", "tables", "columns", "routines"} => procs = {}
    /\ stage = "columns" => todo \subseteq tables
    /\ stage \in {"params", "aggparams"} => todo \subseteq procs
    /\ stage \in {"indexes", "ready"} => indexed \cup todo = types
    /\ stage = "ready" => todo = {}
    /\ stage \notin {"indexes", "ready"} => indexed = {}
    /\ stage = "types" =>
          /\ \A t \in Tables : columns[t] = {}
          /\ \A p \in Procs : argtypes[p] = <<>>
          /\ operators = {}

(* What is loaded refers to loaded types, the operands of operators as far  *)
(* as they are loaded; the results of operators are looked at only when the *)
(* indexes are to be built.                                                  *)
KnownInv ==
    /\ \A t \in Tables : columns[t] \subseteq types
    /\ \A p \in Procs : Entries(argtypes[p]) \subseteq types
    /\ \A p \in procs : Result[p] \in types
    /\ \A o \in operators : operands[o] = ResolveList(Args[o])
    /\ stage \in {"indexes", "ready"} => \A o \in operators : Result[o] \in types

(* What refers to a type that was not read was created after that type,     *)
(* which was created after the types were read.                              *)
Known(o) == Result[o] \in types /\ Entries(Args[o]) \subseteq types

YoungInv ==
    /\ stage # "types" =>
          /\ ddl = 0 => pgTypes \subseteq types
          /\ ddl < 2 =>
                /\ \A o \in pgObjects \cup operators : Known(o)
                /\ \A t \in pgTables : pgColumns[t] \subseteq types
    /\ ddl < 2 => stage \notin {"aborted", "crashed"}

(* The procs whose parameters are yet to be loaded. *)
Unread == IF stage \in {"params", "aggparams"} THEN todo ELSE {}

(* A loaded proc that exists has existed all the time, for an oid does not  *)
(* come back: its parameters, once read, are all there.                      *)
SurvivorInv ==
    /\ procs \ pgObjects \subseteq dropped
    /\ stage # "aborted" => \A p \in (procs \cap pgObjects) \ Unread : argtypes[p] = Args[p]

(* What generate_indexes is through with is what it was to be. *)
IndexInv ==
    \A t \in indexed :
        /\ returning[t] = {p \in procs : Consistent(t, Result[p])}
        /\ parameterless[t] = {p \in returning[t] : Parameterless(p)}
        /\ tablesWith[t] = {tab \in tables : \E c \in columns[tab] : Consistent(t, c)}
        /\ concreteOf[t] = {v \in types : Consistent(t, v)}
        /\ operatorsReturning[t] = {o \in operators : Consistent(t, Result[o])}

(* As long as nobody has changed the catalog, what is loaded is a part of   *)
(* it that grows query by query.                                             *)
QuietInv ==
    ddl = 0 =>
        /\ stage # "types" => types = pgTypes
        /\ stage \notin {"types", "tables"} => tables = Keep(pgTables)
        /\ stage = "columns" => \A t \in tables \ todo : columns[t] = pgColumns[t]
        /\ stage \notin {"types", "tables", "columns", "aborted", "crashed"} =>
              /\ \A t \in tables : columns[t] = pgColumns[t]
              /\ operators = pgObjects \cap Operators
              /\ \A o \in operators : operands[o] = Args[o]
        /\ stage = "params" => procs = pgObjects \cap Routines
        /\ stage \in {"aggparams", "indexes", "ready"} => procs = pgObjects \cap Procs
        /\ stage = "ready" => base_tables = tables \ Views

IInv == TypeOK /\ CatalogInv /\ StageInv /\ KnownInv /\ YoungInv /\ SurvivorInv /\ IndexInv /\ QuietInv

-----------------------------------------------------------------------------
(* oid2type: what comes out of it and passes the assert is what went in. *)
LEMMA ResolvedKnown ==
  ASSUME NEW ts \in SUBSET Types, AssertKnown(Resolve(ts))
  PROVE  Resolve(ts) = ts /\ ts \subseteq types
<1>1. \A t \in ts : t \in types
    BY DEF AssertKnown, Resolve, Lookup
<1> QED BY <1>1 DEF Resolve, Lookup

LEMMA KnownResolved ==
  ASSUME TypeOK, NEW ts \in SUBSET types
  PROVE  Resolve(ts) = ts /\ AssertKnown(Resolve(ts))
<1>1. NoType \notin types
    BY ObjectsAssumption DEF TypeOK
<1>2. Resolve(ts) = ts
    BY DEF Resolve, Lookup
<1> QED BY <1>1, <1>2 DEF AssertKnown

(* The same of a list of types, which keeps its order. *)
LEMMA ListKnown ==
  ASSUME TypeOK, NEW list \in Seq(Types), AssertKnown(Resolve(Entries(list)))
  PROVE  ResolveList(list) = list /\ Entries(list) \subseteq types
<1>1. Entries(list) \in SUBSET Types
    BY DEF Entries
<1>2. Entries(list) \subseteq types
    BY <1>1, ResolvedKnown
<1>3. \A i \in 1..Len(list) : Lookup(list[i]) = list[i]
    BY <1>2 DEF Entries, Lookup
<1> QED BY <1>2, <1>3 DEF ResolveList

LEMMA ListResolved ==
  ASSUME TypeOK, NEW list \in Seq(Types)
  PROVE  /\ ResolveList(list) \in Seq(Types \cup {NoType})
         /\ Len(ResolveList(list)) = Len(list)
         /\ \A i \in 1..Len(list) : ResolveList(list)[i] = Lookup(list[i])
<1>1. \A i \in 1..Len(list) : Lookup(list[i]) \in Types \cup {NoType}
    BY DEF Lookup, TypeOK
<1>2. Len(list) \in Nat
    OBVIOUS
<1> QED BY <1>1, <1>2 DEF ResolveList

LEMMA InitIInv == Init => IInv
<1> SUFFICES ASSUME Init PROVE IInv
    OBVIOUS
<1> USE ObjectsAssumption DEF Init
<1>1. TypeOK
    BY DEF TypeOK, CatalogClosed
<1>2. CatalogInv
    BY DEF CatalogInv
<1>3. StageInv
    BY DEF StageInv
<1>4. KnownInv
    BY DEF KnownInv, Entries
<1>5. SurvivorInv
    BY DEF SurvivorInv
<1>6. IndexInv
    BY DEF IndexInv
<1>7. QuietInv
    BY DEF QuietInv
<1>8. YoungInv
    BY DEF YoungInv
<1> QED BY <1>1, <1>2, <1>3, <1>4, <1>5, <1>6, <1>7, <1>8 DEF IInv

-----------------------------------------------------------------------------
(* One lemma per query of the constructor. *)
LEMMA TypesStep == ASSUME IInv, LoadTypes PROVE IInv'
<1> USE DEF IInv, LoadTypes, catalog, indexes
<1>1. TypeOK'
    BY DEF TypeOK
<1>2. CatalogInv'
    BY DEF CatalogInv
<1>3. StageInv'
    BY DEF StageInv
<1>4. KnownInv'
    BY DEF KnownInv, StageInv, Entries
<1>5. SurvivorInv'
    BY DEF SurvivorInv, Unread
<1>6. IndexInv'
    BY DEF IndexInv, StageInv
<1>7. QuietInv'
    BY DEF QuietInv
<1>8. YoungInv'
    BY DEF YoungInv, CatalogInv, CatalogClosed, Known, StageInv
<1> QED BY <1>1, <1>2, <1>3, <1>4, <1>5, <1>6, <1>7, <1>8

LEMMA TablesStep == ASSUME IInv, LoadTables PROVE IInv'
<1> USE DEF IInv, LoadTables, catalog, indexes
<1>1. TypeOK'
    BY DEF TypeOK, Keep
<1>2. CatalogInv'
    BY DEF CatalogInv
<1>3. StageInv'
    BY DEF StageInv
<1>4. KnownInv'
    BY DEF KnownInv, ResolveList, Lookup
<1>5. SurvivorInv'
    BY DEF SurvivorInv, Unread
<1>6. IndexInv'
    BY DEF IndexInv, StageInv
<1>7. QuietInv'
    BY DEF QuietInv, Keep
<1>8. YoungInv'
    BY DEF YoungInv, Known
<1> QED BY <1>1, <1>2, <1>3, <1>4, <1>5, <1>6, <1>7, <1>8

LEMMA ColumnsStep == ASSUME IInv, NEW t \in Tables, LoadColumns(t) PROVE IInv'
<1> USE DEF IInv
<1> DEFINE row == Resolve(pgColumns[t])
<1>1. /\ stage = "columns" /\ t \in todo
      /\ UNCHANGED <<catalog, types, tables, operators, operands, procs, argtypes, indexes>>
    BY DEF LoadColumns
<1>2. pgColumns[t] \in SUBSET Types
    BY DEF TypeOK
<1>3. CASE AssertKnown(row)
    <2>1. row = pgColumns[t] /\ row \subseteq types
        BY <1>2, <1>3, ResolvedKnown
    <2>2. /\ columns' = [columns EXCEPT ![t] = pgColumns[t]]
          /\ todo' = todo \ {t} /\ stage' = stage
        BY <1>3, <2>1 DEF LoadColumns
    <2> HIDE DEF row
    <2>3. TypeOK'
        BY <1>1, <1>2, <2>2 DEF TypeOK, catalog, indexes
    <2>4. CatalogInv' /\ SurvivorInv'
        BY <1>1, <2>2 DEF CatalogInv, SurvivorInv, Unread, catalog
    <2>5. StageInv'
        BY <1>1, <2>2 DEF StageInv, indexes
    <2>6. KnownInv'
        BY <1>1, <2>1, <2>2 DEF KnownInv, TypeOK, ResolveList, Lookup
    <2>7. IndexInv'
        BY <1>1, <2>2 DEF IndexInv, StageInv, indexes
    <2>8. QuietInv'
        BY <1>1, <2>1, <2>2 DEF QuietInv, TypeOK, Keep, catalog
    <2>9. YoungInv'
        BY <1>1, <2>2 DEF YoungInv, Known, catalog
    <2> QED BY <2>3, <2>4, <2>5, <2>6, <2>7, <2>8, <2>9
<1>4. CASE ~AssertKnown(row)
    <2>1. stage' = "aborted" /\ UNCHANGED <<columns, todo>>
        BY <1>4 DEF LoadColumns
    <2>2. ~(ddl < 2)
        <3>1. SUFFICES ASSUME ddl < 2 PROVE FALSE
            OBVIOUS
        <3>2. pgColumns[t] \in SUBSET types
            BY <1>1, <3>1 DEF YoungInv, CatalogInv
        <3> QED BY <1>4, <3>2, KnownResolved
    <2> HIDE DEF row
    <2>3. TypeOK'
        BY <1>1, <2>1 DEF TypeOK, catalog, indexes
    <2>4. CatalogInv' /\ SurvivorInv'
        BY <1>1, <2>1 DEF CatalogInv, SurvivorInv, Unread, catalog
    <2>5. StageInv'
        BY <1>1, <2>1 DEF StageInv, indexes
    <2>6. KnownInv'
        BY <1>1, <2>1 DEF KnownInv, ResolveList, Lookup
    <2>7. IndexInv'
        BY <1>1, <2>1 DEF IndexInv, StageInv, indexes
    <2>8. QuietInv'
        BY <1>1, <2>1, <2>2 DEF QuietInv, catalog
    <2>9. YoungInv'
        BY <1>1, <2>1, <2>2 DEF YoungInv, Known, catalog
    <2> QED BY <2>3, <2>4, <2>5, <2>6, <2>7, <2>8, <2>9
<1> QED BY <1>3, <1>4

LEMMA OperatorsStep == ASSUME IInv, LoadOperators PROVE IInv'
<1> USE DEF IInv
<1>1. /\ stage = "columns" /\ todo = {}
      /\ operators' = pgObjects \cap Operators
      /\ operands' = [o \in Operators |-> IF o \in operators' THEN ResolveList(Args[o]) ELSE <<>>]
      /\ stage' = "routines"
      /\ UNCHANGED <<catalog, todo, types, tables, columns, procs, argtypes, indexes>>
    BY DEF LoadOperators
<1>2. \A o \in Operators : Args[o] \in Seq(Types) /\ ResolveList(Args[o]) \in Seq(Types \cup {NoType})
    BY ObjectsAssumption, ListResolved DEF Objects
<1>3. TypeOK'
    <2>1. operands' \in [Operators -> Seq(Types \cup {NoType})]
        BY <1>1, <1>2
    <2> QED BY <1>1, <2>1 DEF TypeOK, catalog, indexes
<1>4. CatalogInv'
    BY <1>1 DEF CatalogInv, catalog
<1>5. StageInv'
    BY <1>1 DEF StageInv, indexes
<1>6. KnownInv'
    <2>1. \A o \in operators' : operands'[o] = ResolveList(Args[o])'
        BY <1>1 DEF ResolveList, Lookup
    <2> QED BY <1>1, <2>1 DEF KnownInv
<1>7. SurvivorInv'
    BY <1>1 DEF SurvivorInv, Unread, catalog
<1>8. IndexInv'
    BY <1>1 DEF IndexInv, StageInv, indexes
<1>9. QuietInv'
    <2>1. SUFFICES ASSUME ddl = 0 PROVE QuietInv'
        BY <1>1 DEF QuietInv, catalog
    <2>2. \A o \in operators' : Entries(Args[o]) \in SUBSET types
        BY <1>1, <2>1 DEF YoungInv, Known
    <2>3. \A o \in operators' : operands'[o] = Args[o]
        BY <1>1, <1>2, <2>2, KnownResolved, ListKnown
    <2> QED BY <1>1, <2>1, <2>3 DEF QuietInv, catalog, Keep
<1>10. YoungInv'
    BY <1>1 DEF YoungInv, Known, catalog
<1> QED BY <1>3, <1>4, <1>5, <1>6, <1>7, <1>8, <1>9, <1>10

(* Both queries on pg_proc: the first finds no procs loaded. *)
LEMMA ProcsStep ==
  ASSUME IInv, NEW from, NEW kind \in SUBSET Procs, NEW to, LoadProcs(from, kind, to),
         \/ from = "routines" /\ kind = Routines /\ to = "params"
         \/ from = "params" /\ kind = Aggregates /\ to = "aggparams"
  PROVE  IInv'
<1> USE DEF IInv
<1> DEFINE found == pgObjects \cap kind
           results == {Result[p] : p \in found}
<1>1. /\ stage = from /\ todo = {}
      /\ UNCHANGED <<catalog, types, tables, columns, operators, operands, argtypes, indexes>>
    BY DEF LoadProcs
<1>2. results \in SUBSET Types
    BY ObjectsAssumption DEF Objects
<1>3. CASE AssertKnown(Resolve(results))
    <2>1. \A p \in found : Result[p] \in types
        BY <1>2, <1>3, ResolvedKnown
    <2>2. procs' = procs \cup found /\ todo' = found /\ stage' = to
        BY <1>3 DEF LoadProcs
    <2>3. TypeOK'
        BY <1>1, <2>2 DEF TypeOK, catalog, indexes
    <2>4. CatalogInv'
        BY <1>1 DEF CatalogInv, catalog
    <2>5. StageInv'
        BY <1>1, <2>2 DEF StageInv, indexes
    <2>6. KnownInv'
        BY <1>1, <2>1, <2>2 DEF KnownInv, ResolveList, Lookup
    <2>7. SurvivorInv'
        BY <1>1, <2>2 DEF SurvivorInv, Unread, catalog
    <2>8. IndexInv'
        BY <1>1, <2>2 DEF IndexInv, StageInv, indexes
    <2>9. QuietInv'
        BY <1>1, <2>2 DEF QuietInv, StageInv, catalog, Keep, Procs
    <2>10. YoungInv'
        BY <1>1, <2>2 DEF YoungInv, Known, catalog
    <2> QED BY <2>3, <2>4, <2>5, <2>6, <2>7, <2>8, <2>9, <2>10
<1>4. CASE ~AssertKnown(Resolve(results))
    <2>1. stage' = "aborted" /\ UNCHANGED <<procs, todo>>
        BY <1>4 DEF LoadProcs
    <2>2. ~(ddl < 2)
        <3>1. SUFFICES ASSUME ddl < 2 PROVE FALSE
            OBVIOUS
        <3>2. results \in SUBSET types
            BY <1>1, <3>1 DEF YoungInv, Known
        <3> QED BY <1>4, <3>2, KnownResolved
    <2> HIDE DEF results
    <2>3. TypeOK'
        BY <1>1, <2>1 DEF TypeOK, catalog, indexes
    <2>4. CatalogInv' /\ SurvivorInv'
        BY <1>1, <2>1 DEF CatalogInv, SurvivorInv, Unread, catalog
    <2>5. StageInv'
        BY <1>1, <2>1 DEF StageInv, indexes
    <2>6. KnownInv'
        BY <1>1, <2>1 DEF KnownInv, ResolveList, Lookup
    <2>7. IndexInv'
        BY <1>1, <2>1 DEF IndexInv, StageInv, indexes
    <2>8. QuietInv'
        BY <1>1, <2>1, <2>2 DEF QuietInv, catalog
    <2>9. YoungInv'
        BY <1>1, <2>1, <2>2 DEF YoungInv, Known, catalog
    <2> QED BY <2>3, <2>4, <2>5, <2>6, <2>7, <2>8, <2>9
<1> QED BY <1>3, <1>4

(* A proc that is gone leaves no row; one that exists, all of its           *)
(* parameters.                                                               *)
LEMMA ParamsStep == ASSUME IInv, NEW p \in Procs, LoadParams(p) PROVE IInv'
<1> USE DEF IInv
<1> DEFINE found == IF p \in pgObjects THEN Args[p] ELSE <<>>
<1>1. /\ stage \in {"params", "aggparams"} /\ p \in todo
      /\ UNCHANGED <<catalog, types, tables, columns, operators, operands, procs, indexes>>
    BY DEF LoadParams
<1>2. found \in Seq(Types)
    BY ObjectsAssumption DEF Objects
<1>3. CASE AssertKnown(Resolve(Entries(found)))
    <2>1. ResolveList(found) = found /\ Entries(found) \subseteq types
        BY <1>2, <1>3, ListKnown
    <2>2. /\ argtypes' = [argtypes EXCEPT ![p] = found]
          /\ todo' = todo \ {p} /\ stage' = stage
        BY <1>3, <2>1 DEF LoadParams
    <2>3. TypeOK'
        BY <1>1, <1>2, <2>2 DEF TypeOK, catalog, indexes
    <2>4. CatalogInv'
        BY <1>1 DEF CatalogInv, catalog
    <2>5. StageInv'
        BY <1>1, <2>2 DEF StageInv, indexes
    <2>6. KnownInv'
        <3>1. \A q \in Procs : Entries(argtypes'[q]) \subseteq types
            BY <2>1, <2>2 DEF KnownInv, TypeOK
        <3> HIDE DEF found
        <3>2. \A q \in Procs : Entries(argtypes[q])' \subseteq types
            BY <3>1 DEF Entries
        <3>3. \A o \in operators : operands[o] = ResolveList(Args[o])'
            BY <1>1 DEF KnownInv, ResolveList, Lookup
        <3> QED BY <1>1, <2>2, <3>2, <3>3 DEF KnownInv
    <2>7. SurvivorInv'
        BY <1>1, <2>2 DEF SurvivorInv, Unread, TypeOK, catalog
    <2>8. IndexInv'
        BY <1>1, <2>2 DEF IndexInv, StageInv, indexes
    <2>9. QuietInv'
        BY <1>1, <2>2 DEF QuietInv, catalog, Keep
    <2>10. YoungInv'
        BY <1>1, <2>2 DEF YoungInv, Known, catalog
    <2> QED BY <2>3, <2>4, <2>5, <2>6, <2>7, <2>8, <2>9, <2>10
<1>4. CASE ~AssertKnown(Resolve(Entries(found)))
    <2>1. stage' = "aborted" /\ UNCHANGED <<argtypes, todo>>
        BY <1>4 DEF LoadParams
    <2>2. ~(ddl < 2)
        <3>1. SUFFICES ASSUME ddl < 2 PROVE FALSE
            OBVIOUS
        <3>2. Entries(found) \in SUBSET types
            BY <1>1, <3>1 DEF YoungInv, Known, Entries
        <3> QED BY <1>4, <3>2, KnownResolved
    <2> HIDE DEF found
    <2>3. TypeOK'
        BY <1>1, <2>1 DEF TypeOK, catalog, indexes
    <2>4. CatalogInv' /\ SurvivorInv'
        BY <1>1, <2>1 DEF CatalogInv, SurvivorInv, Unread, catalog
    <2>5. StageInv'
        BY <1>1, <2>1 DEF StageInv, indexes
    <2>6. KnownInv'
        BY <1>1, <2>1 DEF KnownInv, ResolveList, Lookup
    <2>7. IndexInv'
        BY <1>1, <2>1 DEF IndexInv, StageInv, indexes
    <2>8. QuietInv'
        BY <1>1, <2>1, <2>2 DEF QuietInv, catalog
    <2>9. YoungInv'
        BY <1>1, <2>1, <2>2 DEF YoungInv, Known, catalog
    <2> QED BY <2>3, <2>4, <2>5, <2>6, <2>7, <2>8, <2>9
<1> QED BY <1>3, <1>4

LEMMA CloseStep == ASSUME IInv, CloseConnection PROVE IInv'
<1> USE DEF IInv
<1> DEFINE results == {Result[o] : o \in operators}
<1>1. stage = "aggparams" /\ todo = {} /\ UNCHANGED <<catalog, rows, indexes>>
    BY DEF CloseConnection
<1>2. results \in SUBSET Types
    BY ObjectsAssumption DEF Objects, TypeOK
<1>3. CASE NoType \notin Resolve(results)
    <2>1. \A o \in operators : Result[o] \in types
        BY <1>2, <1>3, ResolvedKnown DEF AssertKnown
    <2>2. stage' = "indexes" /\ todo' = types
        BY <1>3 DEF CloseConnection
    <2>3. TypeOK'
        BY <1>1, <2>2 DEF TypeOK, catalog, rows, indexes
    <2>4. CatalogInv' /\ SurvivorInv'
        BY <1>1, <2>2 DEF CatalogInv, SurvivorInv, Unread, catalog, rows
    <2>5. StageInv'
        BY <1>1, <2>2 DEF StageInv, rows, indexes
    <2>6. KnownInv'
        BY <1>1, <2>1, <2>2 DEF KnownInv, ResolveList, Lookup, rows
    <2>7. IndexInv'
        BY <1>1, <2>2 DEF IndexInv, StageInv, rows, indexes
    <2>8. QuietInv'
        BY <1>1, <2>2 DEF QuietInv, catalog, rows, Keep
    <2>9. YoungInv'
        BY <1>1, <2>2 DEF YoungInv, Known, catalog, rows
    <2> QED BY <2>3, <2>4, <2>5, <2>6, <2>7, <2>8, <2>9
<1>4. CASE NoType \in Resolve(results)
    <2>1. stage' = "crashed" /\ UNCHANGED todo
        BY <1>4 DEF CloseConnection
    <2>2. ~(ddl < 2)
        <3>1. SUFFICES ASSUME ddl < 2 PROVE FALSE
            OBVIOUS
        <3>2. results \in SUBSET types
            BY <1>1, <3>1 DEF YoungInv, Known
        <3> QED BY <1>4, <3>2, KnownResolved DEF AssertKnown
    <2> HIDE DEF results
    <2>3. TypeOK'
        BY <1>1, <2>1 DEF TypeOK, catalog, rows, indexes
    <2>4. CatalogInv' /\ SurvivorInv'
        BY <1>1, <2>1 DEF CatalogInv, SurvivorInv, Unread, catalog, rows
    <2>5. StageInv' /\ KnownInv'
        BY <1>1, <2>1 DEF StageInv, KnownInv, ResolveList, Lookup, rows, indexes
    <2>6. IndexInv'
        BY <1>1, <2>1 DEF IndexInv, StageInv, rows, indexes
    <2>7. QuietInv'
        BY <1>1, <2>1, <2>2 DEF QuietInv, catalog
    <2>8. YoungInv'
        BY <1>1, <2>1, <2>2 DEF YoungInv, Known, catalog, rows
    <2> QED BY <2>3, <2>4, <2>5, <2>6, <2>7, <2>8
<1> QED BY <1>3, <1>4

-----------------------------------------------------------------------------
(* generate_indexes. *)
LEMMA IndexStep == ASSUME IInv, NEW t \in Types, IndexType(t) PROVE IInv'
<1> USE DEF IInv
<1> DEFINE able == {p \in procs : Consistent(t, Result[p])}
           bare == {p \in able : Parameterless(p)}
           holders == {tab \in tables : \E c \in columns[tab] : Consistent(t, c)}
           concrete == {v \in types : Consistent(t, v)}
           makers == {o \in operators : Consistent(t, Result[o])}
<1>1. /\ stage = "indexes" /\ t \in todo
      /\ returning' = [returning EXCEPT ![t] = able]
      /\ parameterless' = [parameterless EXCEPT ![t] = bare]
      /\ tablesWith' = [tablesWith EXCEPT ![t] = holders]
      /\ concreteOf' = [concreteOf EXCEPT ![t] = concrete]
      /\ operatorsReturning' = [operatorsReturning EXCEPT ![t] = makers]
      /\ indexed' = indexed \cup {t} /\ todo' = todo \ {t}
      /\ UNCHANGED <<catalog, stage, rows, base_tables>>
    BY DEF IndexType
<1>2. /\ able \in SUBSET Procs /\ bare \in SUBSET Routines /\ holders \in SUBSET Tables
      /\ concrete \in SUBSET Types /\ makers \in SUBSET Operators
    BY DEF TypeOK, Parameterless
<1>3. TypeOK'
    <2> HIDE DEF able, bare, holders, concrete, makers
    <2> QED BY <1>1, <1>2 DEF TypeOK, catalog, rows
<1>4. CatalogInv' /\ SurvivorInv'
    BY <1>1 DEF CatalogInv, SurvivorInv, Unread, catalog, rows
<1>5. StageInv'
    BY <1>1 DEF StageInv, rows
<1>6. KnownInv'
    BY <1>1 DEF KnownInv, ResolveList, Lookup, rows
<1>7. IndexInv'
    <2>1. /\ returning'[t] = able /\ parameterless'[t] = bare /\ tablesWith'[t] = holders
          /\ concreteOf'[t] = concrete /\ operatorsReturning'[t] = makers
        BY <1>1 DEF TypeOK
    <2>2. \A u \in indexed \ {t} :
             /\ returning'[u] = returning[u] /\ parameterless'[u] = parameterless[u]
             /\ tablesWith'[u] = tablesWith[u] /\ concreteOf'[u] = concreteOf[u]
             /\ operatorsReturning'[u] = operatorsReturning[u]
        BY <1>1 DEF TypeOK
    <2>3. UNCHANGED <<procs, tables, columns, types, operators, argtypes>>
        BY <1>1 DEF rows
    <2>4. \A p : Parameterless(p)' = Parameterless(p)
        BY <2>3 DEF Parameterless
    <2> SUFFICES ASSUME NEW u \in indexed'
                 PROVE  /\ returning'[u] = {p \in procs' : Consistent(u, Result[p])}
                        /\ parameterless'[u] = {p \in returning'[u] : Parameterless(p)'}
                        /\ tablesWith'[u] = {tab \in tables' : \E c \in columns'[tab] : Consistent(u, c)}
                        /\ concreteOf'[u] = {v \in types' : Consistent(u, v)}
                        /\ operatorsReturning'[u] = {o \in operators' : Consistent(u, Result[o])}
        BY DEF IndexInv
    <2>5. CASE u = t
        BY <2>1, <2>3, <2>4, <2>5
    <2>6. CASE u # t
        <3>1. u \in indexed
            BY <1>1, <2>6
        <3> QED BY <2>2, <2>3, <2>4, <2>6, <3>1 DEF IndexInv
    <2> QED BY <2>5, <2>6
<1>8. QuietInv'
    BY <1>1 DEF QuietInv, catalog, rows, Keep
<1>9. YoungInv'
    BY <1>1 DEF YoungInv, Known, catalog, rows
<1> QED BY <1>3, <1>4, <1>5, <1>6, <1>7, <1>8, <1>9

LEMMA ReadyStep == ASSUME IInv, Ready PROVE IInv'
<1> USE DEF IInv, Ready, catalog, rows
<1>1. TypeOK'
    BY DEF TypeOK
<1>2. CatalogInv' /\ SurvivorInv'
    BY DEF CatalogInv, SurvivorInv, Unread
<1>3. StageInv'
    BY DEF StageInv
<1>4. KnownInv'
    BY DEF KnownInv, ResolveList, Lookup
<1>5. IndexInv'
    BY DEF IndexInv, Parameterless
<1>6. QuietInv'
    BY DEF QuietInv, Keep
<1>7. YoungInv'
    BY DEF YoungInv, Known
<1> QED BY <1>1, <1>2, <1>3, <1>4, <1>5, <1>6, <1>7

-----------------------------------------------------------------------------
(* DDL of others leaves what is loaded alone, and no oid comes back. *)
LEMMA DDLStep ==
  ASSUME IInv, NEW ts \in SUBSET Types, NEW os \in SUBSET Objects, NEW tabs \in SUBSET Tables,
         NEW cols \in [Tables -> SUBSET Types], DDL(ts, os, tabs, cols),
         os \cap dropped \subseteq pgObjects,
         \A t \in Tables \ tabs : cols[t] = {},
         \/ ts = pgTypes
         \/ /\ os \subseteq pgObjects /\ tabs \subseteq pgTables
            /\ \A t \in tabs : cols[t] \subseteq pgColumns[t]
  PROVE  IInv'
<1> USE DEF IInv
<1>1. /\ stage \notin {"indexes", "ready"}
      /\ ddl < MaxDDL /\ ddl' = ddl + 1
      /\ pgTypes' = ts /\ pgObjects' = os /\ pgTables' = tabs /\ pgColumns' = cols
      /\ dropped' = dropped \cup (pgTypes \ ts) \cup (pgObjects \ os)
      /\ UNCHANGED <<stage, todo, rows, indexes>>
    BY DEF DDL, Loading
<1>2. TypeOK'
    <2>1. ddl' \in 0..MaxDDL /\ ddl' # 0
        BY <1>1, ObjectsAssumption DEF TypeOK
    <2> QED BY <1>1, <2>1 DEF TypeOK, rows, indexes
<1>3. CatalogInv'
    BY <1>1 DEF CatalogInv, DDL
<1>4. StageInv' /\ KnownInv'
    BY <1>1 DEF StageInv, KnownInv, ResolveList, Lookup, rows, indexes
<1>5. SurvivorInv'
    BY <1>1 DEF SurvivorInv, Unread, rows
<1>6. IndexInv'
    BY <1>1 DEF IndexInv, StageInv, rows, indexes
<1>7. QuietInv'
    BY <1>1 DEF QuietInv, TypeOK
<1>8. YoungInv'
    <2>1. ddl \in Nat /\ ddl' # 0 /\ (ddl' < 2 => ddl = 0) /\ stage' = stage /\ types' = types
          /\ operators' = operators
        BY <1>1 DEF TypeOK, rows
    <2>2. SUFFICES ASSUME ddl = 0, stage # "types"
                   PROVE  /\ \A o \in os \cup operators : Known(o)
                          /\ \A t \in tabs : cols[t] \subseteq types
        BY <1>1, <2>1 DEF YoungInv, Known
    <2>3. /\ pgTypes \subseteq types
          /\ \A o \in pgObjects \cup operators : Known(o)
          /\ \A t \in pgTables : pgColumns[t] \subseteq types
        BY <2>2 DEF YoungInv
    <2>4. CASE ts = pgTypes
        BY <2>3, <2>4 DEF DDL, CatalogClosed, Known
    <2>5. CASE ts # pgTypes
        BY <2>3, <2>5
    <2> QED BY <2>4, <2>5
<1> QED BY <1>2, <1>3, <1>4, <1>5, <1>6, <1>7, <1>8

LEMMA OthersStep == ASSUME IInv, OthersDDL PROVE IInv'
<1>1. /\ pgTypes \in SUBSET Types /\ pgObjects \in SUBSET Objects /\ pgTables \in SUBSET Tables
      /\ pgColumns \in [Tables -> SUBSET Types]
      /\ \A t \in Tables \ pgTables : pgColumns[t] = {}
    BY DEF IInv, TypeOK, CatalogInv
<1>2. ASSUME NEW t \in Types, CreateType(t) PROVE IInv'
    <2>1. pgTypes \cup {t} \in SUBSET Types
        BY <1>1
    <2>2. DDL(pgTypes \cup {t}, pgObjects, pgTables, pgColumns)
        BY <1>2 DEF CreateType
    <2>3. pgObjects \cap dropped \subseteq pgObjects
        OBVIOUS
    <2> QED BY <1>1, <2>1, <2>2, <2>3, DDLStep
<1>3. ASSUME NEW t \in Types, DropType(t) PROVE IInv'
    <2>1. pgTypes \ {t} \in SUBSET Types
        BY <1>1
    <2>2. DDL(pgTypes \ {t}, pgObjects, pgTables, pgColumns)
        BY <1>3 DEF DropType
    <2>3. pgObjects \cap dropped \subseteq pgObjects
        OBVIOUS
    <2> QED BY <1>1, <2>1, <2>2, <2>3, DDLStep
<1>4. ASSUME NEW o \in Objects, CreateObject(o) PROVE IInv'
    <2>1. /\ pgObjects \cup {o} \in SUBSET Objects
          /\ (pgObjects \cup {o}) \cap dropped \subseteq pgObjects
        BY <1>1, <1>4 DEF CreateObject
    <2>2. DDL(pgTypes, pgObjects \cup {o}, pgTables, pgColumns)
        BY <1>4 DEF CreateObject
    <2> QED BY <1>1, <2>1, <2>2, DDLStep
<1>5. ASSUME NEW o \in Objects, DropObject(o) PROVE IInv'
    <2>1. /\ pgObjects \ {o} \in SUBSET Objects
          /\ (pgObjects \ {o}) \cap dropped \subseteq pgObjects
        BY <1>1
    <2>2. DDL(pgTypes, pgObjects \ {o}, pgTables, pgColumns)
        BY <1>5 DEF DropObject
    <2> QED BY <1>1, <2>1, <2>2, DDLStep
<1>6. ASSUME NEW tab \in Tables, DropTable(tab) PROVE IInv'
    <2> DEFINE tabs == pgTables \ {tab}
               cols == [pgColumns EXCEPT ![tab] = {}]
    <2>1. /\ tabs \in SUBSET Tables /\ cols \in [Tables -> SUBSET Types]
          /\ \A t \in Tables \ tabs : cols[t] = {}
          /\ pgObjects \cap dropped \subseteq pgObjects
        BY <1>1
    <2>2. DDL(pgTypes, pgObjects, tabs, cols)
        BY <1>6 DEF DropTable
    <2> HIDE DEF tabs, cols
    <2> QED BY <1>1, <2>1, <2>2, DDLStep
<1>7. ASSUME NEW tab \in Tables, NEW t \in Types, AddColumn(tab, t) PROVE IInv'
    <2> DEFINE tabs == pgTables \cup {tab}
               cols == [pgColumns EXCEPT ![tab] = @ \cup {t}]
    <2>1. /\ tabs \in SUBSET Tables /\ cols \in [Tables -> SUBSET Types]
          /\ \A u \in Tables \ tabs : cols[u] = {}
          /\ pgObjects \cap dropped \subseteq pgObjects
        BY <1>1
    <2>2. DDL(pgTypes, pgObjects, tabs, cols)
        BY <1>7 DEF AddColumn
    <2> HIDE DEF tabs, cols
    <2> QED BY <1>1, <2>1, <2>2, DDLStep
<1> QED BY <1>2, <1>3, <1>4, <1>5, <1>6, <1>7 DEF OthersDDL

LEMMA NextIInv == IInv /\ [Next]_vars => IInv'
<1> SUFFICES ASSUME IInv, [Next]_vars PROVE IInv'
    OBVIOUS
<1>1. CASE LoadRoutines
    BY <1>1, ProcsStep DEF LoadRoutines, Procs
<1>2. CASE LoadAggregates
    BY <1>2, ProcsStep DEF LoadAggregates, Procs
<1>3. CASE UNCHANGED vars
    BY <1>3 DEF vars, catalog, rows, indexes, IInv, TypeOK, CatalogInv, StageInv, KnownInv,
                Known, YoungInv, ResolveList, Lookup, SurvivorInv, Unread, IndexInv, Parameterless, QuietInv
<1> QED
    BY <1>1, <1>2, <1>3, TypesStep, TablesStep, ColumnsStep, OperatorsStep, ParamsStep, CloseStep,
       IndexStep, ReadyStep, OthersStep
    DEF Next, Done

LEMMA InvariantIInv == Spec => []IInv
  BY InitIInv, NextIInv, PTL DEF Spec

-----------------------------------------------------------------------------
(* Every variable keeps its type: whatever fails, no null type is among     *)
(* what is loaded but for the operands of operators.                         *)
THEOREM TypeCorrect == Spec => []TypeOK
  BY InvariantIInv, PTL DEF IInv

(* However many DDL statements of others fall between the queries of the    *)
(* constructor, the columns, results and parameters of a schema that came   *)
(* to be are of loaded types; so is an operand, or else it is null and the  *)
(* type its operator declares was not read.                                  *)
THEOREM SchemaClosed == Spec => []LoadedClosed
<1>1. ASSUME IInv, NEW o \in operators
      PROVE  /\ Len(operands[o]) = Len(Args[o])
             /\ \A i \in 1..Len(Args[o]) :
                   operands[o][i] = (IF Args[o][i] \in types THEN Args[o][i] ELSE NoType)
    <2>1. operands[o] = ResolveList(Args[o])
        BY <1>1 DEF IInv, KnownInv
    <2>2. Args[o] \in Seq(Types)
        BY <1>1, ObjectsAssumption DEF IInv, TypeOK, Objects
    <2> QED BY <1>1, <2>1, <2>2, ListResolved DEF IInv, Lookup
<1>2. IInv => LoadedClosed
    BY <1>1 DEF IInv, TypeOK, KnownInv, LoadedClosed
<1> QED BY <1>2, InvariantIInv, PTL

(* One DDL statement of others, wherever it falls, does no harm: nothing    *)
(* comes out null, and the load does not fail.                               *)
THEOREM OneStatementHarmless == Spec => []OneDDLHarmless
<1>1. IInv => OneDDLHarmless
    <2> SUFFICES ASSUME IInv, ddl < 2, NEW o \in operators
                 PROVE  NoType \notin Entries(operands[o])
        BY DEF OneDDLHarmless, IInv, YoungInv
    <2>1. stage # "types"
        BY DEF IInv, StageInv
    <2>2. Entries(Args[o]) \in SUBSET types
        BY <2>1 DEF IInv, YoungInv, Known
    <2>3. operands[o] = Args[o]
        BY <2>2, KnownResolved, ListKnown, ObjectsAssumption DEF IInv, TypeOK, KnownInv, Objects
    <2> QED BY <2>2, <2>3, ObjectsAssumption DEF IInv, TypeOK
<1> QED BY <1>1, InvariantIInv, PTL

(* A proc that exists from its loading on is known with all its parameters, *)
(* in their order.                                                           *)
THEOREM SurvivorsKnown == Spec => []SurvivorsExact
<1>1. IInv => SurvivorsExact
    <2> SUFFICES ASSUME IInv, stage = "ready", NEW p \in procs \cap pgObjects
                 PROVE  /\ argtypes[p] = Args[p]
                        /\ \A t \in types : p \in parameterless[t] => Args[p] = <<>>
        BY DEF SurvivorsExact
    <2>1. argtypes[p] = Args[p]
        BY DEF IInv, SurvivorInv, Unread
    <2>2. ASSUME NEW t \in types, p \in parameterless[t] PROVE argtypes[p] = <<>>
        BY <2>2 DEF IInv, StageInv, IndexInv, Parameterless
    <2> QED BY <2>1, <2>2
<1> QED BY <1>1, InvariantIInv, PTL

(* A catalog that nobody changes is loaded completely. *)
THEOREM QuietLoadsComplete == Spec => []QuietLoadComplete
<1>1. IInv => QuietLoadComplete
    <2> SUFFICES ASSUME IInv, ddl = 0, stage = "ready"
                 PROVE  /\ types = pgTypes
                        /\ tables = pgTables \ (IF ExcludeCatalog THEN CatalogTables ELSE {})
                        /\ \A t \in tables : columns[t] = pgColumns[t]
                        /\ base_tables = tables \ Views
                        /\ procs \cup operators = pgObjects
                        /\ \A o \in operators : operands[o] = Args[o]
                        /\ \A p \in procs : Concrete(Result[p]) => p \in returning[Result[p]]
                        /\ \A t \in tables : \A c \in columns[t] : Concrete(c) => t \in tablesWith[c]
        BY DEF QuietLoadComplete, IInv, QuietInv
    <2>1. /\ types = pgTypes /\ tables = Keep(pgTables) /\ base_tables = tables \ Views
          /\ \A t \in tables : columns[t] = pgColumns[t]
          /\ procs = pgObjects \cap Procs /\ operators = pgObjects \cap Operators
          /\ \A o \in operators : operands[o] = Args[o]
        BY DEF IInv, QuietInv
    <2>2. tables = pgTables \ (IF ExcludeCatalog THEN CatalogTables ELSE {})
        BY <2>1, ObjectsAssumption DEF Keep
    <2>3. procs \cup operators = pgObjects
        BY <2>1 DEF IInv, TypeOK, Objects
    <2>4. indexed = types
        BY DEF IInv, StageInv
    <2>5. ASSUME NEW p \in procs, Concrete(Result[p]) PROVE p \in returning[Result[p]]
        BY <2>4, <2>5 DEF IInv, KnownInv, IndexInv, Consistent, Concrete
    <2>6. ASSUME NEW t \in tables, NEW c \in columns[t], Concrete(c) PROVE t \in tablesWith[c]
        BY <2>4, <2>6 DEF IInv, TypeOK, KnownInv, IndexInv, Consistent, Concrete
    <2> QED BY <2>1, <2>2, <2>3, <2>5, <2>6
<1> QED BY <1>1, InvariantIInv, PTL

(* What the indexes offer under a concrete type is of that type. *)
THEOREM IndexesRight == Spec => []IndexesConform
<1>1. IInv => IndexesConform
    <2> SUFFICES ASSUME IInv, NEW t \in indexed, Concrete(t)
                 PROVE  /\ \A o \in returning[t] \cup operatorsReturning[t] : Result[o] = t
                        /\ \A tab \in tablesWith[t] : t \in columns[tab]
                        /\ concreteOf[t] = {t}
        BY DEF IndexesConform
    <2>1. \A v : Consistent(t, v) <=> v = t
        BY DEF Consistent, Concrete
    <2>2. t \in types
        BY DEF IInv, StageInv
    <2> QED BY <2>1, <2>2 DEF IInv, IndexInv
<1> QED BY <1>1, InvariantIInv, PTL
=============================================================================
