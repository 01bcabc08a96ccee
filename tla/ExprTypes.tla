----------------------------- MODULE ExprTypes -----------------------------
(***************************************************************************)
(* Type conformance of value expressions (src/expr.cc): one expression is  *)
(* built for a type its context asks for, by forms that ask the factory    *)
(* for operands in turn.  Of an operand nothing is assumed but what        *)
(* Honoured promises of the expression itself, so that what holds here     *)
(* holds of expressions of any depth: an operand asked for with a concrete *)
(* type has it, one asked for with a pseudo-type or none may have any.     *)
(***************************************************************************)
EXTENDS Naturals, Sequences, PgTypes

CONSTANTS
    NoType,                  \* no type_constraint
    inttype, booltype, internaltype, arraytype,
    Columns,                 \* types of the columns in scope->refs
    Routines, Aggregates,    \* the schema's
    Result, Params,          \* their result type, their argtypes
    Tables, TableColumns,    \* the column types of each table, in order
    Operators, Left, Right,  \* those that return booltype; an operand type that
                             \*   was not known when they were loaded is null
    RetryLimit, LoopLimit    \* prod::retry_limit, and what coalesce sets

Procs == Routines \cup Aggregates

ASSUME SchemaAssumption ==
    /\ NoType \notin Types
    /\ {inttype, booltype, internaltype, arraytype} \subseteq Types
    /\ Concrete(inttype) /\ Concrete(booltype)
    /\ Columns \subseteq Types
    /\ Result \in [Procs -> Types] /\ Params \in [Procs -> Seq(Types)]
    /\ TableColumns \in [Tables -> Seq(Types)]
    /\ Left \in [Operators -> Types \cup {NoType}]
    /\ Right \in [Operators -> Types \cup {NoType}]
    /\ RetryLimit \in Nat /\ LoopLimit \in Nat

Forms == {"const_expr", "column_reference", "funcall", "window_function",
          "atomic_subselect", "case_expr", "coalesce", "comparison_op"}

VARIABLES
    form, constraint,  \* what is built, and for which type_constraint
    at,                \* where its constructor is
    type,              \* value_expr::type, NoType before it is set
    first, second,     \* types of the two operands
    oper,              \* funcall::proc or comparison_op::oper
    parms,             \* types of the arguments built
    retries

vars == <<form, constraint, at, type, first, second, oper, parms, retries>>

NoOne == "no one"

(* What a context that asks for c can get: see Honoured. *)
Offers(c) == IF c # NoType /\ Concrete(c) THEN {c} ELSE Types

(* The candidates of the schema's indexes: those of the type asked for, or  *)
(* with no type asked for those found under any.                             *)
Candidates(procs) ==
    {p \in procs : IF constraint = NoType THEN \E t \in Types : Consistent(t, Result[p])
                   ELSE Consistent(constraint, Result[p])}

-----------------------------------------------------------------------------
Init ==
    /\ constraint \in Types \cup {NoType}
    /\ form \in Forms /\ at = "start"
    /\ type = NoType /\ first = NoType /\ second = NoType
    /\ oper = NoOne /\ parms = <<>> /\ retries = 0

(* "No candidates available", an operand that cannot be built, match().     *)
(* The factory catches and throws its dice anew.  Who pays for failed       *)
(* operands is Production's matter: retries counts the loops' own.           *)
Retry(f) ==
    /\ at # "done" /\ form # "const_expr"
    /\ f = "comparison_op" <=> form = "comparison_op"
    /\ form' = f /\ at' = "start"
    /\ type' = NoType /\ first' = NoType /\ second' = NoType
    /\ oper' = NoOne /\ parms' = <<>> /\ retries' = 0
    /\ UNCHANGED constraint

Finish(t) == at' = "done" /\ type' = t

ConstExpr ==
    /\ form = "const_expr" /\ at = "start"
    /\ Finish(IF constraint # NoType THEN constraint ELSE inttype)
    /\ UNCHANGED <<form, constraint, first, second, oper, parms, retries>>

ColumnReference ==
    /\ form = "column_reference" /\ at = "start"
    /\ \E t \in Columns :
        /\ constraint # NoType => Consistent(constraint, t)
        /\ Finish(t)
    /\ UNCHANGED <<form, constraint, first, second, oper, parms, retries>>

(* Mutant: the parameters' types are not looked at. *)
CallableByResult(p) == (IF constraint # NoType THEN constraint ELSE Result[p]) # internaltype

(* No call takes or gives an internal, none takes an anyarray. *)
Callable(p) ==
    /\ (IF constraint # NoType THEN constraint ELSE Result[p]) # internaltype
    /\ \A i \in 1..Len(Params[p]) : Params[p][i] \notin {internaltype, arraytype}

(* The retry loop over candidates; window_function builds its aggregate so. *)
PickProc(p) ==
    /\ form \in {"funcall", "window_function"} /\ at = "start"
    /\ constraint # internaltype
    /\ p \in Candidates(IF form = "window_function" THEN Aggregates ELSE Routines)
    /\ IF Callable(p)
       THEN /\ oper' = p
            /\ type' = (IF constraint # NoType THEN constraint ELSE Result[p])
            /\ at' = "arguments"
            /\ UNCHANGED retries
       ELSE /\ retries <= RetryLimit
            /\ retries' = retries + 1
            /\ UNCHANGED <<oper, type, at>>
    /\ UNCHANGED <<form, constraint, first, second, parms>>

Argument(t) ==
    /\ at = "arguments" /\ Len(parms) < Len(Params[oper])
    /\ t \in Offers(Params[oper][Len(parms) + 1])
    /\ parms' = Append(parms, t)
    /\ UNCHANGED <<form, constraint, at, type, first, second, oper, retries>>

(* Its window partitions and orders by columns in scope. *)
Called ==
    /\ at = "arguments" /\ Len(parms) = Len(Params[oper])
    /\ form = "window_function" => Columns # {}
    /\ Finish(type)
    /\ UNCHANGED <<form, constraint, first, second, oper, parms, retries>>

(* Mutant: the type of the column is taken although an aggregate is applied. *)
SubselectColumnType(agg, col) == col

SubselectType(agg, col) == IF agg # NoOne THEN Result[agg] ELSE col

(* With an aggregate of one parameter it is that one's type the column must *)
(* take; of any other number, the aggregate is dropped again.                *)
AtomicSubselect ==
    /\ form = "atomic_subselect" /\ at = "start"
    /\ \E pick \in {NoOne} \cup (IF constraint = NoType THEN Aggregates ELSE Candidates(Aggregates)),
          tab \in Tables :
        LET agg == IF pick # NoOne /\ Len(Params[pick]) = 1 THEN pick ELSE NoOne
            asked == IF agg # NoOne THEN Params[agg][1] ELSE constraint
            fits(i) == asked # NoType => Consistent(asked, TableColumns[tab][i])
        IN  \E i \in 1..Len(TableColumns[tab]) :
                /\ fits(i)
                /\ asked # NoType => \A j \in 1..(i - 1) : ~fits(j)
                /\ oper' = agg
                /\ Finish(SubselectType(agg, TableColumns[tab][i]))
    /\ UNCHANGED <<form, constraint, first, second, parms, retries>>

(* The operands of case_expr, coalesce and nullif; those of comparison_op.  *)
FirstOperand(t) ==
    /\ at = "start"
    /\ \/ /\ form \in {"case_expr", "coalesce"}
          /\ t \in Offers(constraint)
          /\ UNCHANGED oper
       \/ /\ form = "comparison_op"
          /\ \E o \in Operators : t \in Offers(Left[o]) /\ oper' = o
    /\ first' = t
    /\ at' = "second"
    /\ UNCHANGED <<form, constraint, type, second, parms, retries>>

SecondOperand(t) ==
    /\ at = "second"
    /\ t \in Offers(IF form = "comparison_op" THEN Right[oper] ELSE first)
    /\ second' = t
    /\ at' = "compare"
    /\ UNCHANGED <<form, constraint, type, first, oper, parms, retries>>

MustAgree == form = "comparison_op" => Left[oper] = Right[oper]

(* Mutant: the first operand is built anew for what the context asked for.  *)
FirstAgainAsked(c, s) == Offers(c)

FirstAgain(c, s) == Offers(s)

(* Mutant: the loop of coalesce never runs out of retries. *)
MayLoopOn == TRUE

MayLoop == form = "coalesce" => retries <= LoopLimit

(* "Types are consistent but not identical": the operand that may become    *)
(* more concrete is built once more for the other's type; once, except that *)
(* coalesce goes on until they are the same.                                 *)
FixUp(t) ==
    /\ at = "compare" /\ first # second /\ MustAgree
    /\ MayLoop
    /\ IF Consistent(first, second)
       THEN t \in FirstAgain(constraint, second) /\ first' = t /\ UNCHANGED second
       ELSE t \in Offers(first) /\ second' = t /\ UNCHANGED first
    /\ at' = IF form = "coalesce" THEN "compare" ELSE "compared"
    /\ retries' = IF form = "coalesce" THEN retries + 1 ELSE retries
    /\ UNCHANGED <<form, constraint, type, oper, parms>>

(* Mutant: the loop is a single try, as in case_expr. *)
AgreedOnce == at = "compared" \/ first = second \/ ~MustAgree \/ retries = 1

Agreed == at = "compared" \/ first = second \/ ~MustAgree

Compared ==
    /\ at \in {"compare", "compared"} /\ Agreed
    /\ Finish(CASE form = "comparison_op" -> booltype
                [] form = "case_expr" -> first
                [] OTHER -> second)
    /\ UNCHANGED <<form, constraint, first, second, oper, parms, retries>>

Done == at = "done" /\ UNCHANGED vars

Next ==
    \/ \E f \in Forms : Retry(f)
    \/ ConstExpr \/ ColumnReference \/ AtomicSubselect
    \/ \E p \in Procs : PickProc(p)
    \/ \E t \in Types : Argument(t) \/ FirstOperand(t) \/ SecondOperand(t) \/ FixUp(t)
    \/ Called \/ Compared
    \/ Done

Spec == Init /\ [][Next]_vars

-----------------------------------------------------------------------------
Greatest(a, b) == IF a > b THEN a ELSE b

TypeOK ==
    /\ form \in Forms /\ constraint \in Types \cup {NoType}
    /\ at \in {"start", "arguments", "second", "compare", "compared", "done"}
    /\ {type, first, second} \subseteq Types \cup {NoType}
    /\ oper \in Procs \cup Operators \cup {NoOne}
    /\ parms \in Seq(Types)
    /\ retries \in 0..(Greatest(RetryLimit, LoopLimit) + 1)

(* A value expression asked for with a concrete type has that type, by      *)
(* whatever form it was built and however often that form built its         *)
(* operands anew.                                                            *)
Honoured ==
    at = "done" /\ form # "comparison_op" /\ constraint # NoType /\ Concrete(constraint)
        => type = constraint

(* A finished call has the arguments of the routine it ended up with, each  *)
(* of the type of its parameter if that is concrete; none of them internal  *)
(* or anyarray; and the routine's result suits the context.                 *)
CallTyped ==
    at = "done" /\ form \in {"funcall", "window_function"} =>
        /\ Len(parms) = Len(Params[oper])
        /\ \A i \in 1..Len(parms) :
              /\ Params[oper][i] \notin {internaltype, arraytype}
              /\ Concrete(Params[oper][i]) => parms[i] = Params[oper][i]
        /\ constraint # NoType => Consistent(constraint, Result[oper])
        /\ type # internaltype

(* coalesce and nullif get operands of one type, which is the result's;     *)
(* case and a comparison of equal operand types try once, and what is left  *)
(* unequal is a pseudo-type: two concrete types never meet.  The operands   *)
(* of a comparison still have the concrete types their operator declares.   *)
OperandsAgree ==
    at = "done" /\ form \in {"coalesce", "case_expr", "comparison_op"} =>
        /\ form = "coalesce" => first = second /\ type = first
        /\ MustAgree /\ first # second => Pseudo(first) \/ Pseudo(second)
        /\ form = "comparison_op" =>
              first \in Offers(Left[oper]) /\ second \in Offers(Right[oper])
=============================================================================
