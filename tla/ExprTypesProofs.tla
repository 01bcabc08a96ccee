-------------------------- MODULE ExprTypesProofs --------------------------
(* Proofs about ExprTypes, for every schema. *)
EXTENDS ExprTypes, TLAPS

(* The two operands: what they are once they have been built.               *)
Pair ==
    /\ at \in {"second", "compare", "compared"} =>
        /\ form \in {"case_expr", "coalesce", "comparison_op"}
        /\ first \in Types
        /\ form = "comparison_op" => oper \in Operators
    /\ at \in {"compare", "compared"} => second \in Types
    /\ at = "compared" =>
        /\ form # "coalesce"
        /\ first # second => Pseudo(first) \/ Pseudo(second)

(* A concrete type asked for is the type of both operands from the start:   *)
(* then nothing is ever built anew.                                          *)
Kept ==
    form \in {"case_expr", "coalesce"} /\ constraint # NoType /\ Concrete(constraint) =>
        /\ at \in {"second", "compare", "compared"} => first = constraint
        /\ at \in {"compare", "compared"} => second = constraint

(* The operands of a comparison are what its operator declares: they are    *)
(* built anew only where it declares a pseudo-type, or a null, for both.     *)
Declared ==
    form = "comparison_op" =>
        /\ at \in {"second", "compare", "compared"} => first \in Offers(Left[oper])
        /\ at \in {"compare", "compared"} => second \in Offers(Right[oper])

(* A call in the middle of its arguments. *)
Call ==
  /\ at = "start" => parms = <<>>
  /\ at = "arguments" =>
        /\ form \in {"funcall", "window_function"} /\ oper \in Procs
        /\ Callable(oper)
        /\ type = (IF constraint # NoType THEN constraint ELSE Result[oper])
        /\ constraint # NoType => Consistent(constraint, Result[oper])
        /\ Len(parms) <= Len(Params[oper])
        /\ \A i \in 1..Len(parms) : parms[i] \in Offers(Params[oper][i])

IInv == TypeOK /\ Pair /\ Kept /\ Declared /\ Call /\ Honoured /\ CallTyped /\ OperandsAgree

-----------------------------------------------------------------------------
(* What a context gets for a concrete type it asked for.                    *)
LEMMA OffersConcrete ==
    ASSUME NEW c \in Types, NEW t, Concrete(c), t \in Offers(c)
    PROVE  t = c
BY SchemaAssumption DEF Offers

(* The bound on the retries is a number no smaller than either limit.       *)
LEMMA Bounds ==
    /\ Greatest(RetryLimit, LoopLimit) \in Nat
    /\ RetryLimit <= Greatest(RetryLimit, LoopLimit)
    /\ LoopLimit <= Greatest(RetryLimit, LoopLimit)
BY SchemaAssumption DEF Greatest

(* The beginning of every expression. *)
LEMMA InitIInv == Init => IInv
<1>1. Init => TypeOK
    BY Bounds DEF Init, TypeOK, Forms
<1>2. Init => Pair /\ Kept /\ Declared /\ Call /\ Honoured /\ CallTyped /\ OperandsAgree
    BY DEF Init, Pair, Kept, Declared, Call, Honoured, CallTyped, OperandsAgree
<1> QED BY <1>1, <1>2 DEF IInv

(* One step of any form keeps the invariant.                                 *)
LEMMA StepIInv == IInv /\ [Next]_vars => IInv'
<1> SUFFICES ASSUME IInv, [Next]_vars PROVE IInv'
    OBVIOUS
<1> USE DEF IInv
<1>1. ASSUME NEW f \in Forms, Retry(f) PROVE IInv'
    <2>1. TypeOK'
        BY <1>1, Bounds DEF Retry, TypeOK
    <2>2. (Pair /\ Kept /\ Declared /\ Call)'
        BY <1>1 DEF Retry, Pair, Kept, Declared, Call
    <2>3. (Honoured /\ CallTyped /\ OperandsAgree)'
        BY <1>1 DEF Retry, Honoured, CallTyped, OperandsAgree
    <2> QED BY <2>1, <2>2, <2>3
<1>2. CASE ConstExpr
    <2>1. TypeOK'
        BY <1>2, SchemaAssumption DEF ConstExpr, Finish, TypeOK
    <2>2. (Pair /\ Kept /\ Declared /\ Call)'
        BY <1>2 DEF ConstExpr, Finish, Pair, Kept, Declared, Call
    <2>3. (Honoured /\ CallTyped /\ OperandsAgree)'
        BY <1>2 DEF ConstExpr, Finish, Honoured, CallTyped, OperandsAgree
    <2> QED BY <2>1, <2>2, <2>3
<1>3. CASE ColumnReference
    <2>1. PICK t \in Columns : (constraint # NoType => Consistent(constraint, t)) /\ Finish(t)
        BY <1>3 DEF ColumnReference
    <2>2. t \in Types
        BY SchemaAssumption
    <2>3. TypeOK'
        BY <1>3, <2>1, <2>2 DEF ColumnReference, Finish, TypeOK
    <2>4. (Pair /\ Kept /\ Declared /\ Call)'
        BY <1>3, <2>1 DEF ColumnReference, Finish, Pair, Kept, Declared, Call
    <2>5. Honoured'
        BY <1>3, <2>1 DEF ColumnReference, Finish, Honoured, Consistent, Concrete
    <2>6. (CallTyped /\ OperandsAgree)'
        BY <1>3, <2>1 DEF ColumnReference, Finish, CallTyped, OperandsAgree
    <2> QED BY <2>3, <2>4, <2>5, <2>6
<1>4. CASE AtomicSubselect
    <2>1. form = "atomic_subselect" /\ UNCHANGED <<form, constraint, first, second, parms, retries>>
        BY <1>4 DEF AtomicSubselect
    <2>2. PICK agg \in {NoOne} \cup Aggregates, c \in Types :
            /\ agg # NoOne /\ constraint # NoType => Consistent(constraint, Result[agg])
            /\ agg = NoOne /\ constraint # NoType => Consistent(constraint, c)
            /\ oper' = agg
            /\ Finish(SubselectType(agg, c))
        <3>1. PICK pick \in {NoOne} \cup (IF constraint = NoType THEN Aggregates ELSE Candidates(Aggregates)),
                   tab \in Tables :
                LET agg == IF pick # NoOne /\ Len(Params[pick]) = 1 THEN pick ELSE NoOne
                    asked == IF agg # NoOne THEN Params[agg][1] ELSE constraint
                IN  \E i \in 1..Len(TableColumns[tab]) :
                        /\ asked # NoType => Consistent(asked, TableColumns[tab][i])
                        /\ oper' = agg
                        /\ Finish(SubselectType(agg, TableColumns[tab][i]))
            BY <1>4 DEF AtomicSubselect
        <3> DEFINE agg == IF pick # NoOne /\ Len(Params[pick]) = 1 THEN pick ELSE NoOne
                   asked == IF agg # NoOne THEN Params[agg][1] ELSE constraint
        <3>2. PICK i \in 1..Len(TableColumns[tab]) :
                /\ asked # NoType => Consistent(asked, TableColumns[tab][i])
                /\ oper' = agg
                /\ Finish(SubselectType(agg, TableColumns[tab][i]))
            BY <3>1
        <3>3. TableColumns[tab][i] \in Types
            BY SchemaAssumption
        <3>4. agg \in {NoOne} \cup Aggregates
            BY DEF Candidates
        <3>5. agg # NoOne /\ constraint # NoType => Consistent(constraint, Result[agg])
            BY DEF Candidates
        <3>6. agg = NoOne /\ constraint # NoType => Consistent(constraint, TableColumns[tab][i])
            BY <3>2
        <3> HIDE DEF agg, asked
        <3> QED BY <3>2, <3>3, <3>4, <3>5, <3>6
    <2>3. type' = SubselectType(agg, c) /\ at' = "done"
        BY <2>2 DEF Finish
    <2>4. type' \in Types
        <3>1. CASE agg = NoOne
            BY <2>3, <3>1 DEF SubselectType
        <3>2. CASE agg # NoOne
            BY <2>3, <3>2, SchemaAssumption DEF SubselectType, Procs
        <3> QED BY <3>1, <3>2
    <2>5. TypeOK'
        BY <2>1, <2>2, <2>3, <2>4 DEF TypeOK, Procs
    <2>6. (Pair /\ Kept /\ Declared /\ Call)'
        BY <2>1, <2>3 DEF Pair, Kept, Declared, Call
    <2>7. Honoured'
        BY <2>1, <2>2, <2>3 DEF Honoured, SubselectType, Consistent, Concrete
    <2>8. (CallTyped /\ OperandsAgree)'
        BY <2>1 DEF CallTyped, OperandsAgree
    <2> QED BY <2>5, <2>6, <2>7, <2>8
<1>5. ASSUME NEW p \in Procs, PickProc(p) PROVE IInv'
    <2>1. /\ form \in {"funcall", "window_function"} /\ at = "start" /\ parms = <<>>
          /\ UNCHANGED <<form, constraint, first, second, parms>>
          /\ constraint # NoType => Consistent(constraint, Result[p])
        BY <1>5 DEF PickProc, Candidates, Call
    <2>2. Result[p] \in Types /\ Len(Params[p]) \in Nat
        BY SchemaAssumption
    <2>3. CASE Callable(p)
        <3>1. /\ oper' = p /\ at' = "arguments" /\ retries' = retries
              /\ type' = (IF constraint # NoType THEN constraint ELSE Result[p])
            BY <1>5, <2>3 DEF PickProc
        <3>2. TypeOK'
            BY <2>1, <2>2, <3>1 DEF TypeOK
        <3>3. Call'
            <4>1. Len(parms') <= Len(Params[p]) /\ 1..Len(parms') = {}
                BY <2>1, <2>2
            <4> QED BY <2>1, <2>3, <3>1, <4>1 DEF Call, Callable
        <3>4. (Pair /\ Kept /\ Declared /\ Honoured /\ CallTyped /\ OperandsAgree)'
            BY <3>1 DEF Pair, Kept, Declared, Honoured, CallTyped, OperandsAgree
        <3> QED BY <3>2, <3>3, <3>4
    <2>4. CASE ~Callable(p)
        <3>1. /\ retries <= RetryLimit /\ retries' = retries + 1
              /\ UNCHANGED <<oper, type, at>>
            BY <1>5, <2>4 DEF PickProc
        <3>2. TypeOK'
            BY <2>1, <3>1, Bounds, SchemaAssumption DEF TypeOK
        <3>3. (Pair /\ Kept /\ Declared /\ Call /\ Honoured /\ CallTyped /\ OperandsAgree)'
            BY <2>1, <3>1 DEF Pair, Kept, Declared, Call, Honoured, CallTyped, OperandsAgree
        <3> QED BY <3>2, <3>3
    <2> QED BY <2>3, <2>4
<1>6. ASSUME NEW t \in Types, Argument(t) PROVE IInv'
    <2>1. /\ at = "arguments" /\ Len(parms) < Len(Params[oper]) /\ t \in Offers(Params[oper][Len(parms) + 1])
          /\ parms' = Append(parms, t)
          /\ UNCHANGED <<form, constraint, at, type, first, second, oper, retries>>
        BY <1>6 DEF Argument
    <2>2. TypeOK'
        BY <2>1 DEF TypeOK
    <2>3. Call'
        <3>1. oper \in Procs /\ Len(Params[oper]) \in Nat
            BY <2>1, SchemaAssumption DEF Call
        <3>2. Len(parms') = Len(parms) + 1 /\ Len(parms') <= Len(Params[oper])
            BY <2>1, <3>1 DEF TypeOK
        <3>3. ASSUME NEW i \in 1..Len(parms') PROVE parms'[i] \in Offers(Params[oper][i])
            <4>1. CASE i = Len(parms) + 1
                BY <2>1, <4>1 DEF TypeOK
            <4>2. CASE i \in 1..Len(parms)
                BY <2>1, <4>2 DEF TypeOK, Call
            <4> QED BY <3>2, <4>1, <4>2 DEF TypeOK
        <3>4. Callable(oper)'
            BY <2>1 DEF Call, Callable
        <3> QED BY <2>1, <3>1, <3>2, <3>3, <3>4 DEF Call, Offers
    <2>4. (Pair /\ Kept /\ Declared /\ Honoured /\ CallTyped /\ OperandsAgree)'
        BY <2>1 DEF Pair, Kept, Declared, Honoured, CallTyped, OperandsAgree
    <2> QED BY <2>2, <2>3, <2>4
<1>7. CASE Called
    <2>1. /\ at = "arguments" /\ Len(parms) = Len(Params[oper])
          /\ at' = "done" /\ type' = type
          /\ UNCHANGED <<form, constraint, first, second, oper, parms, retries>>
        BY <1>7 DEF Called, Finish
    <2>2. TypeOK'
        BY <2>1 DEF TypeOK
    <2>3. (Pair /\ Kept /\ Declared /\ Call)'
        BY <2>1 DEF Pair, Kept, Declared, Call
    <2>4. (Honoured /\ OperandsAgree)'
        BY <2>1 DEF Call, Honoured, OperandsAgree
    <2>5. CallTyped'
        <3>1. /\ oper \in Procs /\ Callable(oper)
              /\ constraint # NoType => Consistent(constraint, Result[oper])
              /\ type # internaltype
            BY <2>1 DEF Call, Callable
        <3>2. ASSUME NEW i \in 1..Len(parms)
              PROVE  /\ Params[oper][i] \notin {internaltype, arraytype}
                     /\ Concrete(Params[oper][i]) => parms[i] = Params[oper][i]
            <4>1. i \in 1..Len(Params[oper]) /\ Params[oper][i] \in Types
                BY <2>1, <3>1, SchemaAssumption
            <4>2. parms[i] \in Offers(Params[oper][i])
                BY <2>1 DEF Call
            <4> QED BY <3>1, <4>1, <4>2, OffersConcrete DEF Callable
        <3> QED BY <2>1, <3>1, <3>2 DEF CallTyped
    <2> QED BY <2>2, <2>3, <2>4, <2>5
<1>8. ASSUME NEW t \in Types, FirstOperand(t) PROVE IInv'
    <2>1. /\ form \in {"case_expr", "coalesce", "comparison_op"}
          /\ form \in {"case_expr", "coalesce"} => t \in Offers(constraint) /\ oper' = oper
          /\ form = "comparison_op" => oper' \in Operators /\ t \in Offers(Left[oper'])
          /\ at = "start" /\ first' = t /\ at' = "second"
          /\ UNCHANGED <<form, constraint, type, second, parms, retries>>
        BY <1>8 DEF FirstOperand
    <2>2. TypeOK'
        BY <2>1 DEF TypeOK
    <2>3. Kept'
        BY <2>1, OffersConcrete DEF Kept, TypeOK
    <2>4. Declared'
        BY <2>1 DEF Declared, Offers
    <2>5. (Pair /\ Call /\ Honoured /\ CallTyped /\ OperandsAgree)'
        BY <2>1 DEF Pair, Call, Honoured, CallTyped, OperandsAgree
    <2> QED BY <2>2, <2>3, <2>4, <2>5
<1>9. ASSUME NEW t \in Types, SecondOperand(t) PROVE IInv'
    <2>1. /\ at = "second" /\ second' = t /\ at' = "compare"
          /\ t \in Offers(IF form = "comparison_op" THEN Right[oper] ELSE first)
          /\ UNCHANGED <<form, constraint, type, first, oper, parms, retries>>
        BY <1>9 DEF SecondOperand
    <2>2. TypeOK'
        BY <2>1 DEF TypeOK
    <2>3. Kept'
        BY <2>1, OffersConcrete DEF Kept, TypeOK
    <2>4. Declared'
        BY <2>1 DEF Declared, Offers
    <2>5. (Pair /\ Call /\ Honoured /\ CallTyped /\ OperandsAgree)'
        BY <2>1 DEF Pair, Call, Honoured, CallTyped, OperandsAgree
    <2> QED BY <2>2, <2>3, <2>4, <2>5
<1>10. ASSUME NEW t \in Types, FixUp(t) PROVE IInv'
    <2>1. /\ at = "compare" /\ first # second
          /\ at' = IF form = "coalesce" THEN "compare" ELSE "compared"
          /\ UNCHANGED <<form, constraint, type, oper, parms>>
          /\ \/ first' = t /\ t \in Offers(second) /\ second' = second
             \/ second' = t /\ t \in Offers(first) /\ first' = first
        BY <1>10 DEF FixUp, FirstAgain
    <2>2. retries' \in 0..(Greatest(RetryLimit, LoopLimit) + 1)
        BY <1>10, Bounds, SchemaAssumption DEF FixUp, MayLoop, TypeOK
    <2>3. first \in Types /\ second \in Types
        BY <2>1 DEF Pair
    <2>4. TypeOK'
        BY <2>1, <2>2, <2>3 DEF TypeOK
    <2>5. Kept'
        BY <2>1 DEF Kept
    <2>6. first' # second' => Pseudo(first') \/ Pseudo(second')
        BY <2>1, <2>3, OffersConcrete DEF Concrete
    <2>7. Pair'
        BY <2>1, <2>3, <2>6 DEF Pair, Pseudo
    <2>8. Declared'
        <3>1. SUFFICES ASSUME form = "comparison_op" PROVE Declared'
            BY <2>1 DEF Declared
        <3>2. Left[oper] = Right[oper] /\ oper \in Operators
            BY <1>10, <3>1 DEF FixUp, MustAgree, Pair
        <3>3. first \in Offers(Left[oper]) /\ second \in Offers(Left[oper])
            BY <2>1, <3>1, <3>2 DEF Declared
        <3>4. Offers(Left[oper]) = Types
            BY <2>1, <3>2, <3>3, SchemaAssumption, OffersConcrete DEF Offers
        <3> QED BY <2>1, <2>3, <3>2, <3>4 DEF Declared
    <2>9. (Call /\ Honoured /\ CallTyped /\ OperandsAgree)'
        BY <2>1 DEF Call, Honoured, CallTyped, OperandsAgree
    <2> QED BY <2>4, <2>5, <2>7, <2>8, <2>9
<1>11. CASE Compared
    <2>1. /\ at \in {"compare", "compared"} /\ at' = "done" /\ Agreed
          /\ type' = CASE form = "comparison_op" -> booltype
                       [] form = "case_expr" -> first
                       [] OTHER -> second
          /\ UNCHANGED <<form, constraint, first, second, oper, parms, retries>>
        BY <1>11 DEF Compared, Finish
    <2>2. /\ form \in {"case_expr", "coalesce", "comparison_op"}
          /\ first \in Types /\ second \in Types
        BY <2>1 DEF Pair
    <2>3. TypeOK'
        BY <2>1, <2>2, SchemaAssumption DEF TypeOK
    <2>4. (Pair /\ Kept /\ Declared /\ Call)'
        BY <2>1 DEF Pair, Kept, Declared, Call
    <2>5. Honoured'
        BY <2>1, <2>2 DEF Honoured, Kept
    <2>6. (CallTyped /\ OperandsAgree)'
        BY <2>1, <2>2 DEF CallTyped, OperandsAgree, Agreed, MustAgree, Pair, Declared, Pseudo
    <2> QED BY <2>3, <2>4, <2>5, <2>6
<1>12. CASE UNCHANGED vars
    <2>1. TypeOK'
        BY <1>12 DEF vars, TypeOK
    <2>2. (Pair /\ Kept /\ Declared)'
        BY <1>12 DEF vars, Pair, Kept, Declared
    <2>3. Call'
        BY <1>12 DEF vars, Call, Callable
    <2>4. (Honoured /\ CallTyped)'
        BY <1>12 DEF vars, Honoured, CallTyped
    <2>5. OperandsAgree'
        BY <1>12 DEF vars, OperandsAgree, MustAgree
    <2> QED BY <2>1, <2>2, <2>3, <2>4, <2>5
<1> QED BY <1>1, <1>2, <1>3, <1>4, <1>5, <1>6, <1>7, <1>8, <1>9, <1>10, <1>11, <1>12
    DEF Next, Done

(* In any schema: a value expression asked for with a concrete type has it, *)
(* whatever forms it and its operands take.                                  *)
THEOREM ConcreteTypesHonoured == Spec => []Honoured
<1>1. IInv => Honoured
    BY DEF IInv
<1> QED BY InitIInv, StepIInv, <1>1, PTL DEF Spec

(* In any schema: calls are complete and typed as declared, and take or     *)
(* give no internal and take no anyarray.                                    *)
THEOREM CallsTyped == Spec => []CallTyped
<1>1. IInv => CallTyped
    BY DEF IInv
<1> QED BY InitIInv, StepIInv, <1>1, PTL DEF Spec

(* In any schema: the fix-up of operand types ends with one type, or leaves *)
(* a pseudo-type in it, and never takes a comparison away from the concrete *)
(* types its operator declares.                                              *)
THEOREM FixUpsAgree == Spec => []OperandsAgree
<1>1. IInv => OperandsAgree
    BY DEF IInv
<1> QED BY InitIInv, StepIInv, <1>1, PTL DEF Spec

(* Every variable keeps its type, and the retries their bound.              *)
THEOREM TypeCorrect == Spec => []TypeOK
<1>1. IInv => TypeOK
    BY DEF IInv
<1> QED BY InitIInv, StepIInv, <1>1, PTL DEF Spec
=============================================================================
