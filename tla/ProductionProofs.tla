-------------------------- MODULE ProductionProofs --------------------------
(***************************************************************************)
(* The budgets of Production, for all limits and stacks of any depth: what *)
(* a production has paid, and that it is never paid back; and where window *)
(* functions come to stand.                                                *)
(***************************************************************************)
EXTENDS Production, SequenceLemmas, SequenceTheorems, TLAPS

-----------------------------------------------------------------------------
(* The limit of a production; coalesce lowers its own when it has gained    *)
(* its operands.                                                             *)
LimitKnown(f) ==
    f.limit \in {RetryLimit, LoopLimit, SampleLimit}
        /\ (f.kind = "coalesce" => f.limit \in {RetryLimit, LoopLimit})
        /\ (f.kind = "coalesce" /\ f.kids = 2 => f.limit = LoopLimit)

(* What RetryBudget asks of one production. *)
Paid(f) ==
    /\ f.retries <= Greatest(RetryLimit, f.limit) + 1
    /\ f.kind = "set_operation" => f.retries <= AttemptLimit

(* A production whose retries ran out is on top and throws; all below it may *)
(* be resumed.                                                               *)
IInv ==
    /\ TypeOK
    /\ \A i \in 1..Len(stack) : LimitKnown(stack[i])
    /\ RetryBudget

(* One step pays, or leaves what has been paid; what goes on after paying   *)
(* was within its limit.                                                     *)
PaysMore(f, g) ==
    /\ g.retries >= f.retries
    /\ g.retries > f.retries /\ mode' = "building" => f.retries <= f.limit

PaidOn == \A i \in 1..Len(stack) : i <= Len(stack') => PaysMore(stack[i], stack'[i])

-----------------------------------------------------------------------------
(* Stacks: all but the top, and the top replaced. *)
LEMMA FrontStack ==
    ASSUME NEW s \in Seq(Frames), s # <<>>
    PROVE  /\ Front(s) \in Seq(Frames)
           /\ Len(Front(s)) = Len(s) - 1
           /\ Len(s) \in Nat \ {0}
           /\ \A i \in 1..(Len(s) - 1) : Front(s)[i] = s[i]
BY DEF Front

LEMMA TopReplaced ==
    ASSUME NEW s \in Seq(Frames), s # <<>>, NEW f \in Frames,
           NEW r, r = [s EXCEPT ![Len(s)] = f]
    PROVE  /\ r \in Seq(Frames)
           /\ Len(r) = Len(s)
           /\ Len(s) \in Nat \ {0}
           /\ \A i \in 1..Len(s) : r[i] = IF i = Len(s) THEN f ELSE s[i]
<1>1. Len(s) \in 1..Len(s) /\ Len(s) \in Nat \ {0}
    OBVIOUS
<1> QED BY <1>1, ExceptSeq

-----------------------------------------------------------------------------
(* What a production consists of. *)
LEMMA Fields ==
    ASSUME NEW f \in Frames
    PROVE  /\ f.kind \in Kinds /\ f.retries \in Nat /\ f.kids \in Nat
           /\ f.caught \in BOOLEAN /\ f.limit \in Nat
BY DEF Frames

(* Productions: a new one, one that gained a part, one that retries. *)
LEMMA NewFrame ==
    ASSUME NEW k \in Kinds, NEW caught \in BOOLEAN
    PROVE  New(k, caught) \in Frames /\ LimitKnown(New(k, caught)) /\ Paid(New(k, caught))
<1>1. New(k, caught) \in Frames
    BY LimitsAssumption DEF New, Frames
<1>2. LimitKnown(New(k, caught))
    BY DEF New, LimitKnown
<1>3. Paid(New(k, caught))
    BY LimitsAssumption DEF New, Paid, Greatest
<1> QED BY <1>1, <1>2, <1>3

LEMMA AdoptedFrame ==
    ASSUME NEW f \in Frames, LimitKnown(f), Paid(f)
    PROVE  /\ Adopted(f) \in Frames /\ LimitKnown(Adopted(f)) /\ Paid(Adopted(f))
           /\ Adopted(f).retries = f.retries
<1> DEFINE g == Adopted(f)
<1>1. /\ g.kind = f.kind /\ g.retries = f.retries
      /\ g.limit = IF f.kind = "coalesce" /\ f.kids = 1 THEN LoopLimit ELSE f.limit
    BY DEF Adopted, Gained, Frames
<1>2. g \in Frames
    <2>1. f.kids + 1 \in Nat
        BY Fields
    <2>2. CASE f.kind = "coalesce" /\ f.kids = 1
        <3>1. g = [f EXCEPT !.kids = f.kids + 1, !.limit = LoopLimit]
            BY <2>2 DEF Adopted, Gained
        <3> QED BY <2>1, <3>1, LimitsAssumption DEF Frames
    <2>3. CASE ~(f.kind = "coalesce" /\ f.kids = 1)
        <3>1. g = [f EXCEPT !.kids = f.kids + 1, !.limit = f.limit]
            BY <2>3 DEF Adopted, Gained
        <3> QED BY <2>1, <3>1 DEF Frames
    <2> QED BY <2>2, <2>3
<1>3. LimitKnown(g)
    <2>1. g.kids = f.kids + 1 /\ f.kids \in Nat
        BY Fields DEF Adopted, Gained, Frames
    <2> HIDE DEF g
    <2> QED BY <1>1, <2>1 DEF LimitKnown
<1>4. Paid(g)
    BY <1>1, LimitsAssumption DEF Paid, LimitKnown, Greatest, Frames
<1> QED BY <1>1, <1>2, <1>3, <1>4

LEMMA RetriedFrame ==
    ASSUME NEW f \in Frames, LimitKnown(f), NEW n \in Nat, n # 2 \/ n = f.kids,
           NEW g, g \in {Retried(f), [Retried(f) EXCEPT !.kids = n]}
    PROVE  /\ g \in Frames /\ LimitKnown(g)
           /\ g.retries = f.retries + 1
           /\ MayRetry(f) => Paid(g)
<1>1. /\ g.kind = f.kind /\ g.retries = f.retries + 1 /\ g.limit = f.limit
      /\ g.caught = f.caught /\ g.kids \in {f.kids, n}
      /\ g = [kind |-> g.kind, retries |-> g.retries, kids |-> g.kids,
              caught |-> g.caught, limit |-> g.limit]
    BY DEF Retried, Frames
<1>2. g \in Frames
    BY <1>1 DEF Frames
<1>3. LimitKnown(g)
    BY <1>1 DEF LimitKnown
<1>4. MayRetry(f) => Paid(g)
    BY <1>1, LimitsAssumption DEF MayRetry, Paid, Greatest, LimitKnown, Frames
<1> QED BY <1>1, <1>2, <1>3, <1>4

(* retry() on top of a stack in which everyone has paid. *)
LEMMA RetryStep ==
    ASSUME NEW s \in Seq(Frames), s # <<>>, NEW n \in Nat, RetryOrThrow(s, n),
           n # 2 \/ n = s[Len(s)].kids,
           \A i \in 1..Len(s) : LimitKnown(s[i]) /\ Paid(s[i])
    PROVE  /\ IInv' /\ Len(stack') = Len(s)
           /\ \A i \in 1..Len(s) : PaysMore(s[i], stack'[i])
<1> DEFINE f == s[Len(s)]
<1>1. Len(s) \in Nat \ {0} /\ f \in Frames /\ LimitKnown(f)
    OBVIOUS
<1>2. PICK g \in {Retried(f), [Retried(f) EXCEPT !.kids = n]} :
          /\ stack' = [s EXCEPT ![Len(s)] = g]
          /\ mode' = IF MayRetry(f) THEN "building" ELSE "throwing"
    BY DEF RetryOrThrow
<1>3. g \in Frames /\ LimitKnown(g) /\ g.retries = f.retries + 1 /\ (MayRetry(f) => Paid(g))
    BY <1>1, RetriedFrame
<1>4. /\ stack' \in Seq(Frames) /\ Len(stack') = Len(s)
      /\ \A i \in 1..Len(s) : stack'[i] = IF i = Len(s) THEN g ELSE s[i]
    BY <1>2, <1>3, TopReplaced
<1>5. TypeOK'
    BY <1>2, <1>4 DEF TypeOK
<1>6. \A i \in 1..Len(stack') : LimitKnown(stack'[i])
    BY <1>3, <1>4
<1>7. \A i \in 1..Len(stack') : (mode' = "building" \/ i < Len(stack')) => Paid(stack'[i])
    BY <1>1, <1>2, <1>3, <1>4
<1>8. RetryBudget'
    BY <1>7 DEF RetryBudget, Paid
<1>9. \A i \in 1..Len(s) : PaysMore(s[i], stack'[i])
    <2> SUFFICES ASSUME NEW i \in 1..Len(s) PROVE PaysMore(s[i], stack'[i])
        OBVIOUS
    <2>1. s[i] \in Frames
        OBVIOUS
    <2>2. s[i].retries \in Nat
        BY <2>1, Fields
    <2>3. CASE i = Len(s)
        <3>1. stack'[i] = g /\ s[i] = f
            BY <1>4, <2>3
        <3>2. mode' = "building" => f.retries <= f.limit
            BY <1>2 DEF MayRetry
        <3> QED BY <1>3, <2>2, <3>1, <3>2 DEF PaysMore
    <2>4. CASE i # Len(s)
        BY <1>4, <2>2, <2>4 DEF PaysMore
    <2> QED BY <2>3, <2>4
<1>10. IInv'
    BY <1>5, <1>6, <1>8 DEF IInv
<1> QED BY <1>4, <1>9, <1>10

-----------------------------------------------------------------------------
LEMMA InitIInv == Init => IInv
BY DEF Init, IInv, TypeOK, RetryBudget

(* Every step keeps the invariant, and pays or leaves what has been paid.   *)
LEMMA NextIInv == ASSUME IInv, [Next]_vars PROVE IInv' /\ PaidOn
<1>1. /\ stack \in Seq(Frames) /\ mode \in {"building", "throwing"}
      /\ Len(stack) \in Nat
      /\ \A i \in 1..Len(stack) : stack[i] \in Frames /\ stack[i].retries \in Nat
    BY Fields DEF IInv, TypeOK
<1>2. \A i \in 1..Len(stack) : LimitKnown(stack[i])
    BY DEF IInv
<1>3. \A i \in 1..Len(stack) : (mode = "building" \/ i < Len(stack)) => Paid(stack[i])
    BY DEF IInv, RetryBudget, Paid
<1>4. ASSUME NEW k \in Statements, Start(k) PROVE IInv' /\ PaidOn
    <2> DEFINE f == New(k, TRUE)
    <2>1. k \in Kinds
        BY DEF Kinds
    <2>2. f \in Frames /\ LimitKnown(f) /\ Paid(f)
        BY <2>1, NewFrame
    <2>3. stack' = <<f>> /\ stack = <<>> /\ mode' = "building"
        BY <1>4 DEF Start
    <2> HIDE DEF f
    <2>4. TypeOK'
        BY <2>2, <2>3 DEF TypeOK
    <2>5. \A i \in 1..Len(stack') : LimitKnown(stack'[i]) /\ Paid(stack'[i])
        BY <2>2, <2>3
    <2>6. RetryBudget'
        BY <2>5 DEF RetryBudget, Paid
    <2>7. PaidOn
        BY <2>3 DEF PaidOn, PaysMore
    <2> QED BY <2>4, <2>5, <2>6, <2>7 DEF IInv
<1>5. ASSUME NEW k \in Kinds, NEW caught \in BOOLEAN, Begin(k, caught) PROVE IInv' /\ PaidOn
    <2> DEFINE f == New(k, caught)
    <2>1. f \in Frames /\ LimitKnown(f) /\ Paid(f)
        BY NewFrame
    <2>2. stack' = Append(stack, f) /\ mode = "building" /\ mode' = mode
        BY <1>5 DEF Begin
    <2> HIDE DEF f
    <2>3. /\ stack' \in Seq(Frames) /\ Len(stack') = Len(stack) + 1
          /\ \A i \in 1..Len(stack') : stack'[i] = IF i <= Len(stack) THEN stack[i] ELSE f
        BY <1>1, <2>1, <2>2
    <2>4. TypeOK'
        BY <1>1, <2>2, <2>3 DEF TypeOK
    <2>5. \A i \in 1..Len(stack') : LimitKnown(stack'[i]) /\ Paid(stack'[i])
        BY <1>1, <1>2, <1>3, <2>1, <2>2, <2>3
    <2>6. RetryBudget'
        BY <2>5 DEF RetryBudget, Paid
    <2>7. PaidOn
        BY <1>1, <2>3 DEF PaidOn, PaysMore
    <2> QED BY <2>4, <2>5, <2>6, <2>7 DEF IInv
<1>6. CASE Complete
    <2> DEFINE s == Front(stack)
    <2>1. stack # <<>> /\ mode = "building" /\ mode' = mode
        BY <1>6 DEF Complete
    <2>2. /\ s \in Seq(Frames) /\ Len(s) = Len(stack) - 1
          /\ \A i \in 1..Len(s) : s[i] = stack[i]
        BY <1>1, <2>1, FrontStack
    <2>3. CASE s = <<>>
        <3>1. stack' = <<>>
            BY <1>6, <2>3 DEF Complete
        <3> QED BY <3>1, <1>1, <2>1 DEF IInv, TypeOK, RetryBudget, PaidOn, PaysMore
    <2>4. CASE s # <<>>
        <3> DEFINE g == Adopted(s[Len(s)])
        <3>1. Len(s) \in 1..Len(stack) /\ Len(s) \in 1..Len(s) /\ s[Len(s)] = stack[Len(s)]
            BY <1>1, <2>2, <2>4
        <3>2. g \in Frames /\ LimitKnown(g) /\ Paid(g) /\ g.retries = stack[Len(s)].retries
            BY <1>1, <1>2, <1>3, <2>1, <3>1, AdoptedFrame
        <3>3. stack' = [s EXCEPT ![Len(s)] = g]
            BY <1>6, <2>4 DEF Complete
        <3> HIDE DEF g, s
        <3>4. /\ stack' \in Seq(Frames) /\ Len(stack') = Len(s)
              /\ \A i \in 1..Len(s) : stack'[i] = IF i = Len(s) THEN g ELSE s[i]
            BY <2>2, <2>4, <3>2, <3>3, TopReplaced
        <3>5. TypeOK'
            BY <1>1, <2>1, <3>4 DEF TypeOK
        <3>6. \A i \in 1..Len(stack') : LimitKnown(stack'[i]) /\ Paid(stack'[i])
            BY <1>1, <1>2, <1>3, <2>1, <2>2, <3>2, <3>4
        <3>7. RetryBudget'
            BY <3>6 DEF RetryBudget, Paid
        <3>8. PaidOn
            BY <1>1, <2>2, <3>2, <3>4 DEF PaidOn, PaysMore
        <3> QED BY <3>5, <3>6, <3>7, <3>8 DEF IInv
    <2> QED BY <2>3, <2>4
<1>7. ASSUME PickAgain \/ OperandAgain \/ QueryAgain PROVE IInv' /\ PaidOn
    <2>1. PICK n \in {0, 1} : RetryOrThrow(stack, n) /\ stack # <<>> /\ mode = "building"
        BY <1>7 DEF PickAgain, OperandAgain, QueryAgain
    <2>2. /\ IInv'
          /\ \A i \in 1..Len(stack) : PaysMore(stack[i], stack'[i])
        BY <1>1, <1>2, <1>3, <2>1, RetryStep
    <2> QED BY <2>2 DEF PaidOn, PaysMore
<1>8. CASE Fail
    <2>1. stack' = stack /\ mode' = "throwing" /\ mode = "building"
        BY <1>8 DEF Fail
    <2> QED BY <1>1, <2>1 DEF IInv, TypeOK, RetryBudget, PaidOn, PaysMore, LimitKnown
<1>9. CASE Unwind
    <2> DEFINE s == Front(stack)
    <2>1. stack # <<>> /\ mode = "throwing"
        BY <1>9 DEF Unwind
    <2>2. /\ s \in Seq(Frames) /\ Len(s) = Len(stack) - 1
          /\ \A i \in 1..Len(s) : s[i] = stack[i]
        BY <1>1, <2>1, FrontStack
    <2>3. \A i \in 1..Len(s) : LimitKnown(s[i]) /\ Paid(s[i]) /\ i < Len(stack)
        BY <1>1, <1>2, <1>3, <2>2
    <2>4. CASE s # <<>> /\ RetryOrThrow(s, s[Len(s)].kids)
        <3> HIDE DEF s
        <3>1. s[Len(s)].kids \in Nat
            <4>1. s[Len(s)] \in Frames
                BY <2>2, <2>4
            <4> QED BY <4>1, Fields
        <3>2. /\ IInv' /\ Len(stack') = Len(s)
              /\ \A i \in 1..Len(s) : PaysMore(s[i], stack'[i])
            BY <2>2, <2>3, <2>4, <3>1, RetryStep
        <3> QED BY <1>1, <2>2, <3>2 DEF PaidOn, PaysMore
    <2>5. CASE stack' = s /\ mode' = mode
        <3> HIDE DEF s
        <3>1. TypeOK'
            BY <1>1, <2>2, <2>5 DEF TypeOK
        <3>2. RetryBudget'
            BY <2>3, <2>5 DEF RetryBudget, Paid
        <3>3. PaidOn
            BY <1>1, <2>2, <2>5 DEF PaidOn, PaysMore
        <3> QED BY <2>3, <2>5, <3>1, <3>2, <3>3 DEF IInv
    <2> QED BY <1>9, <2>4, <2>5 DEF Unwind
<1>10. CASE UNCHANGED vars
    <2>1. stack' = stack /\ mode' = mode
        BY <1>10 DEF vars
    <2> QED BY <1>1, <2>1 DEF IInv, TypeOK, RetryBudget, PaidOn, PaysMore, LimitKnown
<1> QED BY <1>4, <1>5, <1>6, <1>7, <1>8, <1>9, <1>10 DEF Next

LEMMA InvariantIInv == Spec => []IInv
<1>1. IInv /\ [Next]_vars => IInv'
    BY NextIInv
<1> QED BY <1>1, InitIInv, PTL DEF Spec

-----------------------------------------------------------------------------
(* The stack is a sequence of productions, whatever fails when. *)
THEOREM TypeCorrect == Spec => []TypeOK
<1>1. IInv => TypeOK
    BY DEF IInv
<1> QED BY <1>1, InvariantIInv, PTL

(* For all limits: a production that goes on has retried at most            *)
(* retry_limit + 1 times, a set_operation at most its number of attempts.   *)
THEOREM BudgetsBound == Spec => []RetryBudget
<1>1. IInv => RetryBudget
    BY DEF IInv
<1> QED BY <1>1, InvariantIInv, PTL

(* Nothing built or thrown inside a production ever lowers its count. *)
THEOREM FailuresNeverForgiven == Spec => NeverForgiven
<1>1. IInv /\ [Next]_vars =>
        [\A i \in 1..Len(stack) :
             i <= Len(stack') => stack'[i].retries >= stack[i].retries]_vars
    BY NextIInv DEF PaidOn, PaysMore
<1> QED BY <1>1, InvariantIInv, PTL DEF Spec, NeverForgiven

(* For all limits: a coalesce that has both operands builds one of them     *)
(* again only while it has paid for no more than the lower limit.            *)
THEOREM LoweredLimitBinds == Spec => LoweredBudget
<1>1. IInv /\ [Next]_vars =>
        [\A i \in 1..Len(stack) :
             (/\ i <= Len(stack') /\ mode' = "building"
              /\ stack[i].kind = "coalesce" /\ stack[i].kids = 2
              /\ stack'[i].retries > stack[i].retries)
             => stack[i].retries <= LoopLimit]_vars
    BY NextIInv DEF PaidOn, PaysMore, IInv, LimitKnown
<1> QED BY <1>1, InvariantIInv, PTL DEF Spec, LoweredBudget

-----------------------------------------------------------------------------
(* window_function::allowed is recursive: it walks up the half-built        *)
(* parents.  The walk is shown to exist and to end at a select list, by     *)
(* taking a least counterexample instead of an induction.                   *)

(* One step of the walk, which has come from above with at[i - 1].          *)
Passes(s, at, i) ==
    IF i < 2 THEN FALSE
    ELSE IF s[i].kind = "select_list" THEN s[i - 1].kind = "query_spec"
    ELSE s[i].kind \in ValueExprs \ {"window_function"} /\ at[i - 1]

(* From the i-th production upwards there are value expressions that are no *)
(* window functions, and then the select list of a query.                   *)
ListAbove(s, i) ==
    \E j \in 2..i :
        /\ s[j].kind = "select_list" /\ s[j - 1].kind = "query_spec"
        /\ \A m \in (j + 1)..i : s[m].kind \in ValueExprs \ {"window_function"}

LEMMA WalkExists ==
    ASSUME NEW s \in Seq(Frames), NEW n \in Nat
    PROVE  \E at : at = [i \in 0..n |-> Passes(s, at, i)]
<1> DEFINE T == {m \in Nat : ~ \E at : at = [i \in 0..m |-> Passes(s, at, i)]}
<1>1. SUFFICES ASSUME T # {} PROVE FALSE
    OBVIOUS
<1>2. PICK m \in T : \A k \in T : m <= k
    BY <1>1, LeastNatural
<1>3. CASE m = 0
    <2> DEFINE f == [i \in 0..0 |-> FALSE]
    <2>1. f = [i \in 0..0 |-> Passes(s, f, i)]
        BY DEF Passes
    <2> QED BY <1>2, <1>3, <2>1
<1>4. CASE m # 0
    <2>1. m - 1 \in Nat /\ m - 1 \notin T
        BY <1>2, <1>4
    <2>2. PICK f : f = [i \in 0..(m - 1) |-> Passes(s, f, i)]
        BY <2>1
    <2> DEFINE g == [i \in 0..m |-> IF i = m THEN Passes(s, f, m) ELSE f[i]]
    <2>3. ASSUME NEW i \in 0..m PROVE g[i] = Passes(s, g, i)
        <3>1. CASE i < 2
            BY <1>4, <2>2, <3>1 DEF Passes
        <3>2. CASE i >= 2
            <4>1. g[i - 1] = f[i - 1]
                BY <3>2
            <4>2. g[i] = Passes(s, f, i)
                BY <2>2
            <4> QED BY <4>1, <4>2, <3>2 DEF Passes
        <3> QED BY <3>1, <3>2
    <2>4. g = [i \in 0..m |-> Passes(s, g, i)]
        BY <2>3
    <2> QED BY <1>2, <2>4
<1> QED BY <1>3, <1>4

LEMMA AllowedWalk ==
    ASSUME NEW s \in Seq(Frames)
    PROVE  \E at : at = [i \in 0..Len(s) |-> Passes(s, at, i)] /\ Allowed(s) = at[Len(s)]
<1> DEFINE at == CHOOSE at : at = [i \in 0..Len(s) |-> Passes(s, at, i)]
<1>1. \E f : f = [i \in 0..Len(s) |-> Passes(s, f, i)]
    <2>1. Len(s) \in Nat
        OBVIOUS
    <2> QED BY <2>1, WalkExists
<1>2. at = [i \in 0..Len(s) |-> Passes(s, at, i)]
    <2> HIDE DEF Passes
    <2> QED BY <1>1, Zenon
<1>3. Allowed(s) = at[Len(s)]
    BY DEF Allowed, Passes
<1> QED BY <1>2, <1>3

LEMMA WalkEnds ==
    ASSUME NEW s \in Seq(Frames), NEW n \in Nat, NEW at,
           at = [i \in 0..n |-> Passes(s, at, i)]
    PROVE  \A i \in 0..n : at[i] => ListAbove(s, i)
<1> DEFINE T == {i \in 0..n : at[i] /\ ~ListAbove(s, i)}
<1>1. SUFFICES ASSUME T # {} PROVE FALSE
    OBVIOUS
<1>2. T \in SUBSET Nat
    OBVIOUS
<1>3. PICK i \in T : \A k \in T : i <= k
    BY <1>1, <1>2, LeastNatural
<1>4. i \in 0..n /\ Passes(s, at, i) /\ ~ListAbove(s, i)
    BY <1>3
<1>5. i >= 2
    BY <1>4 DEF Passes
<1>6. s[i].kind # "select_list"
    BY <1>4, <1>5 DEF Passes, ListAbove
<1>7. s[i].kind \in ValueExprs \ {"window_function"} /\ at[i - 1]
    BY <1>4, <1>5, <1>6 DEF Passes
<1>8. ListAbove(s, i - 1)
    <2>1. i - 1 \in 0..n /\ i - 1 \notin T
        BY <1>3, <1>4, <1>5
    <2> QED BY <2>1, <1>7
<1>9. ListAbove(s, i)
    BY <1>4, <1>5, <1>7, <1>8 DEF ListAbove
<1> QED BY <1>4, <1>9

(* The answer of allowed(), for any stack. *)
LEMMA AllowedEnds ==
    ASSUME NEW s \in Seq(Frames), Allowed(s)
    PROVE  ListAbove(s, Len(s))
<1>1. Len(s) \in Nat
    OBVIOUS
<1>2. PICK at : at = [i \in 0..Len(s) |-> Passes(s, at, i)] /\ Allowed(s) = at[Len(s)]
    BY AllowedWalk
<1> QED BY <1>1, <1>2, WalkEnds

-----------------------------------------------------------------------------
(* No step changes the kind of a production that stays on the stack. *)
KindsKept == \A i \in 1..Len(stack') : i <= Len(stack) /\ stack'[i].kind = stack[i].kind

LEMMA SameKinds ==
    ASSUME NEW s, NEW r, NEW n \in Nat, ListAbove(s, n),
           \A m \in 1..n : r[m].kind = s[m].kind
    PROVE  ListAbove(r, n)
<1>1. PICK j \in 2..n :
          /\ s[j].kind = "select_list" /\ s[j - 1].kind = "query_spec"
          /\ \A m \in (j + 1)..n : s[m].kind \in ValueExprs \ {"window_function"}
    BY DEF ListAbove
<1>2. r[j].kind = "select_list" /\ r[j - 1].kind = "query_spec"
    BY <1>1
<1>3. \A m \in (j + 1)..n : r[m].kind \in ValueExprs \ {"window_function"}
    BY <1>1
<1> QED BY <1>2, <1>3 DEF ListAbove

LEMMA RetryKeepsKinds ==
    ASSUME NEW s \in Seq(Frames), s # <<>>, NEW n \in Nat, RetryOrThrow(s, n)
    PROVE  /\ Len(stack') = Len(s)
           /\ \A i \in 1..Len(s) : stack'[i].kind = s[i].kind
<1> DEFINE f == s[Len(s)]
<1>1. f \in Frames /\ Len(s) \in Nat \ {0}
    OBVIOUS
<1>2. PICK g \in {Retried(f), [Retried(f) EXCEPT !.kids = n]} :
          stack' = [s EXCEPT ![Len(s)] = g]
    BY DEF RetryOrThrow
<1>3. g.kind = f.kind
    BY <1>1, <1>2 DEF Retried, Frames
<1> QED BY <1>1, <1>2, <1>3

LEMMA StepKeepsKinds ==
    ASSUME TypeOK,
           Complete \/ PickAgain \/ OperandAgain \/ QueryAgain \/ Fail \/ Unwind \/ UNCHANGED vars
    PROVE  KindsKept
<1>1. stack \in Seq(Frames) /\ Len(stack) \in Nat
    BY DEF TypeOK
<1>2. CASE Complete
    <2> DEFINE s == Front(stack)
    <2>1. stack # <<>>
        BY <1>2 DEF Complete
    <2>2. /\ s \in Seq(Frames) /\ Len(s) = Len(stack) - 1
          /\ \A i \in 1..Len(s) : s[i] = stack[i]
        BY <1>1, <2>1, FrontStack
    <2>3. CASE s = <<>>
        <3>1. stack' = <<>>
            BY <1>2, <2>3 DEF Complete
        <3> QED BY <3>1 DEF KindsKept
    <2>4. CASE s # <<>>
        <3> DEFINE g == Adopted(s[Len(s)])
        <3>1. s[Len(s)] \in Frames /\ Len(s) \in 1..Len(s)
            BY <2>2, <2>4
        <3>2. g.kind = s[Len(s)].kind
            BY <3>1 DEF Adopted, Gained, Frames
        <3>3. stack' = [s EXCEPT ![Len(s)] = g]
            BY <1>2, <2>4 DEF Complete
        <3> HIDE DEF g, s
        <3> QED BY <1>1, <2>2, <3>1, <3>2, <3>3 DEF KindsKept
    <2> QED BY <2>3, <2>4
<1>3. CASE PickAgain \/ OperandAgain \/ QueryAgain
    <2>1. PICK n \in {0, 1} : RetryOrThrow(stack, n) /\ stack # <<>>
        BY <1>3 DEF PickAgain, OperandAgain, QueryAgain
    <2> QED BY <1>1, <2>1, RetryKeepsKinds DEF KindsKept
<1>4. CASE Fail \/ UNCHANGED vars
    BY <1>1, <1>4 DEF Fail, vars, KindsKept
<1>5. CASE Unwind
    <2> DEFINE s == Front(stack)
    <2>1. stack # <<>>
        BY <1>5 DEF Unwind
    <2>2. /\ s \in Seq(Frames) /\ Len(s) = Len(stack) - 1
          /\ \A i \in 1..Len(s) : s[i] = stack[i]
        BY <1>1, <2>1, FrontStack
    <2>3. CASE s # <<>> /\ RetryOrThrow(s, s[Len(s)].kids)
        <3> HIDE DEF s
        <3>1. s[Len(s)] \in Frames
            BY <2>2, <2>3
        <3>2. s[Len(s)].kids \in Nat
            BY <3>1, Fields
        <3>3. Len(stack') = Len(s) /\ \A i \in 1..Len(s) : stack'[i].kind = s[i].kind
            BY <2>2, <2>3, <3>2, RetryKeepsKinds
        <3> QED BY <1>1, <2>2, <3>3 DEF KindsKept
    <2>4. CASE stack' = s
        BY <1>1, <2>2, <2>4 DEF KindsKept
    <2> QED BY <1>5, <2>3, <2>4 DEF Unwind
<1> QED BY <1>2, <1>3, <1>4, <1>5

-----------------------------------------------------------------------------
LEMMA NextWindowPlaced == ASSUME TypeOK, WindowPlaced, [Next]_vars PROVE WindowPlaced'
<1>1. stack \in Seq(Frames) /\ Len(stack) \in Nat
    BY DEF TypeOK
<1>2. \A i \in 1..Len(stack) : stack[i].kind = "window_function" => ListAbove(stack, i - 1)
    BY DEF WindowPlaced, ListAbove
<1>3. SUFFICES \A i \in 1..Len(stack') :
                   stack'[i].kind = "window_function" => ListAbove(stack', i - 1)
    BY DEF WindowPlaced, ListAbove
<1>4. ASSUME NEW k \in Statements, Start(k)
      PROVE  \A i \in 1..Len(stack') : stack'[i].kind # "window_function"
    BY <1>4 DEF Start, New, Statements
<1>5. ASSUME NEW k \in Kinds, NEW caught \in BOOLEAN, Begin(k, caught),
             NEW i \in 1..Len(stack'), stack'[i].kind = "window_function"
      PROVE  ListAbove(stack', i - 1)
    <2> DEFINE f == New(k, caught)
    <2>1. f.kind = k
        BY DEF New
    <2>2. stack' = Append(stack, f) /\ (k = "window_function" => Allowed(stack))
        BY <1>5 DEF Begin
    <2> HIDE DEF f
    <2>3. /\ Len(stack') = Len(stack) + 1
          /\ \A m \in 1..Len(stack') : stack'[m] = IF m <= Len(stack) THEN stack[m] ELSE f
        BY <1>1, <2>2
    <2>4. ListAbove(stack, i - 1)
        <3>1. CASE i <= Len(stack)
            BY <1>1, <1>2, <1>5, <2>3, <3>1
        <3>2. CASE i = Len(stack) + 1
            <4>1. Allowed(stack)
                BY <1>1, <1>5, <2>1, <2>2, <2>3, <3>2
            <4> QED BY <1>1, <3>2, <4>1, AllowedEnds
        <3> QED BY <1>1, <2>3, <3>1, <3>2
    <2>5. i - 1 \in Nat /\ \A m \in 1..(i - 1) : stack'[m].kind = stack[m].kind
        BY <1>1, <2>3
    <2> QED BY <2>4, <2>5, SameKinds
<1>6. ASSUME KindsKept, NEW i \in 1..Len(stack'), stack'[i].kind = "window_function"
      PROVE  ListAbove(stack', i - 1)
    <2>1. ListAbove(stack, i - 1)
        BY <1>1, <1>2, <1>6 DEF KindsKept
    <2>2. i - 1 \in Nat /\ \A m \in 1..(i - 1) : stack'[m].kind = stack[m].kind
        BY <1>6 DEF KindsKept
    <2> QED BY <2>1, <2>2, SameKinds
<1>7. CASE \E k \in Statements : Start(k)
    BY <1>4, <1>7
<1>8. CASE \E k \in Kinds, caught \in BOOLEAN : Begin(k, caught)
    BY <1>5, <1>8
<1>9. CASE Complete \/ PickAgain \/ OperandAgain \/ QueryAgain \/ Fail \/ Unwind \/ UNCHANGED vars
    BY <1>6, <1>9, StepKeepsKinds
<1> QED BY <1>7, <1>8, <1>9 DEF Next

(* For stacks of any depth: a window function stands in the select list of  *)
(* a query and never in another window function of that list, whichever     *)
(* arguments, conditions and subqueries lie in between.                      *)
THEOREM WindowsPlaced == Spec => []WindowPlaced
<1>1. Init => WindowPlaced
    BY DEF Init, WindowPlaced
<1>2. TypeOK /\ WindowPlaced /\ [Next]_vars => WindowPlaced'
    BY NextWindowPlaced
<1> QED BY <1>1, <1>2, TypeCorrect, PTL DEF Spec
=============================================================================
