----------------------------- MODULE Production -----------------------------
(***************************************************************************)
(* How sqlsmith grows a statement: the stack of productions (struct prod,  *)
(* src/prod.cc) whose constructors are running.  A constructor builds its  *)
(* sub-productions one after the other; a sub-production that cannot be    *)
(* built throws, whoever tried it catches, and the catcher's own budget of *)
(* retries pays for every failure below it until it throws itself.         *)
(* A production that is complete leaves the stack.                         *)
(***************************************************************************)
EXTENDS Naturals, Sequences, SequencesExt

CONSTANTS
    RetryLimit,     \* prod::retry_limit
    LoopLimit,      \* what coalesce lowers it to once it has both operands
    SampleLimit,    \* what table_sample raises it to
    AttemptLimit,   \* set_operation's own limit beside it
    MaxDepth,       \* bound: productions on the stack (the grammar throws dice
                    \*   against its level)
    MaxColumns      \* bound: columns of a select list
                    \* (and one argument, one WITH query, one lateral subquery)

ASSUME LimitsAssumption ==
    /\ {RetryLimit, LoopLimit, SampleLimit, AttemptLimit} \subseteq Nat
    /\ MaxDepth \in Nat \ 0..3 /\ MaxColumns \in Nat \ {0}

TableRefs == {"table_or_query_name", "table_sample", "table_subquery", "joined_table"}
JoinConds == {"expr_join_cond", "simple_join_cond"}
Bools == {"comparison_op", "bool_term", "null_predicate", "truth_value", "exists_predicate"}
Values == {"window_function", "coalesce", "case_expr", "funcall", "atomic_subselect",
           "column_reference", "const_expr"}
Statements == {"query_spec", "set_operation", "common_table_expression"}
Kinds == TableRefs \cup JoinConds \cup Bools \cup Values \cup Statements
             \cup {"from_clause", "select_list"}

(* What needs no sub-production. *)
Leaves == {"table_or_query_name", "table_sample", "simple_join_cond", "truth_value",
           "atomic_subselect", "column_reference", "const_expr"}

(* match(), or no candidate to pick from; the others fail with their         *)
(* sub-productions only.                                                     *)
MayFail == {"table_or_query_name", "table_sample", "simple_join_cond", "comparison_op",
            "window_function", "funcall", "atomic_subselect", "column_reference"}

VARIABLES
    stack,  \* the productions under construction, the statement's root first
    mode    \* "building", or "throwing" while an exception unwinds the stack

vars == <<stack, mode>>

top == stack[Len(stack)]

(* kids: sub-productions built; caught: whoever builds this one catches.    *)
New(k, caught) ==
    [kind |-> k, retries |-> 0, kids |-> 0, caught |-> caught,
     limit |-> IF k = "table_sample" THEN SampleLimit ELSE RetryLimit]

(* The parts of a production: what its constructor builds as (n+1)-th       *)
(* sub-production, and whether it catches what that throws (in a factory or  *)
(* a try of its own) or makes it directly.                                   *)
Tried(kinds) == kinds \X {TRUE}
Made(kinds) == kinds \X {FALSE}

FromParts(k, n) ==
    CASE k = "from_clause" -> IF n = 0 THEN Tried(TableRefs)
                              ELSE IF n = 1 THEN Made({"table_subquery"}) ELSE {}
      [] k = "joined_table" -> IF n < 2 THEN Tried(TableRefs)
                               ELSE IF n = 2 THEN Tried(JoinConds) ELSE {}
      [] k = "expr_join_cond" /\ n = 0 -> Tried(Bools)
      [] k = "table_subquery" /\ n = 0 -> Made({"query_spec"})
      [] OTHER -> {}

SelectListParts(k, n) ==
    IF k = "select_list" /\ n < MaxColumns THEN Tried(Values) ELSE {}

QuerySpecParts(k, n) ==
    CASE k = "query_spec" /\ n = 0 -> Made({"from_clause"})
      [] k = "query_spec" /\ n = 1 -> Made({"select_list"})
      [] k = "query_spec" /\ n = 2 -> Tried(Bools)
      [] OTHER -> {}

SetOperationParts(k, n) ==
    CASE k = "set_operation" /\ n = 0 -> Made({"query_spec"})
      [] k = "set_operation" /\ n = 1 -> Tried({"query_spec", "set_operation"})
      [] OTHER -> {}

WithParts(k, n) ==
    CASE k = "common_table_expression" /\ n = 0 -> Made({"query_spec"})
      [] k = "common_table_expression" /\ n = 1 -> Tried({"query_spec"})
      [] OTHER -> {}

(* The third and fourth of case_expr and comparison_op are their fix-ups.    *)
ExprParts(k, n) ==
    CASE k = "case_expr" -> IF n = 0 THEN Tried(Bools) ELSE IF n < 4 THEN Tried(Values) ELSE {}
      [] k = "comparison_op" /\ n < 3 -> Tried(Values)
      [] k = "exists_predicate" /\ n = 0 -> Made({"query_spec"})
      [] k = "coalesce" /\ n < 2 -> Tried(Values)
      [] OTHER -> {}

BoolParts(k, n) ==
    CASE k = "bool_term" /\ n < 2 -> Tried(Bools)
      [] k = "null_predicate" /\ n = 0 -> Tried(Values)
      [] OTHER -> {}

FuncallParts(k, n) == IF k = "funcall" /\ n = 0 THEN Tried(Values) ELSE {}

WindowParts(k, n) ==
    CASE k = "window_function" /\ n = 0 -> Made({"funcall"})
      [] k = "window_function" /\ n \in 1..2 -> Made({"column_reference"})
      [] OTHER -> {}

Parts(k, n) ==
    UNION {FromParts(k, n), SelectListParts(k, n), QuerySpecParts(k, n),
           SetOperationParts(k, n), WithParts(k, n), ExprParts(k, n),
           BoolParts(k, n), FuncallParts(k, n), WindowParts(k, n)}

(* How many sub-productions it cannot do without. *)
Needs(k) ==
    CASE k \in Leaves \cup {"funcall"} -> 0
      [] k \in {"query_spec", "joined_table", "case_expr", "window_function"} -> 3
      [] k \in {"comparison_op", "bool_term", "coalesce", "set_operation",
                "common_table_expression"} -> 2
      [] OTHER -> 1

(* How much deeper the stack gets at least until it is complete.            *)
Height(k) ==
    CASE k \in Leaves \cup {"funcall"} -> 0
      [] k = "query_spec" -> 2
      [] k \in {"table_subquery", "exists_predicate", "set_operation",
                "common_table_expression"} -> 3
      [] OTHER -> 1

ValueExprs == Values \cup Bools

(* Mutant: the walk ends at any clause of a query. *)
AllowedInWhere(s) ==
    LET at[i \in 0..Len(s)] ==
            IF i = 0 THEN FALSE
            ELSE IF s[i].kind \in {"query_spec", "select_list"} THEN TRUE
            ELSE s[i].kind \in ValueExprs \ {"window_function"} /\ at[i - 1]
    IN  at[Len(s)]

(* window_function::allowed, asked of the innermost production: up through  *)
(* value expressions to the select list of a query.                          *)
Allowed(s) ==
    LET at[i \in 0..Len(s)] ==
            IF i < 2 THEN FALSE
            ELSE IF s[i].kind = "select_list" THEN s[i - 1].kind = "query_spec"
            ELSE s[i].kind \in ValueExprs \ {"window_function"} /\ at[i - 1]
    IN  at[Len(s)]

-----------------------------------------------------------------------------
Init == stack = <<>> /\ mode = "building"

(* statement_factory, for the next statement or again after a failure.      *)
Start(k) ==
    /\ stack = <<>>
    /\ stack' = <<New(k, TRUE)>>
    /\ mode' = "building"

Begin(k, caught) ==
    /\ mode = "building" /\ stack # <<>>
    /\ <<k, caught>> \in Parts(top.kind, top.kids)
    /\ Len(stack) + 1 + Height(k) <= MaxDepth
    /\ k = "window_function" => Allowed(stack)
    /\ (top.kind = "set_operation" /\ k = "set_operation") => Len(stack) < 3
    /\ stack' = Append(stack, New(k, caught))
    /\ UNCHANGED mode

(* Mutant: coalesce keeps the limit it began with. *)
GainedUnlowered(f) == [f EXCEPT !.kids = @ + 1]

(* coalesce lowers its limit when it has its operands. *)
Gained(f) ==
    [f EXCEPT !.kids = @ + 1,
              !.limit = IF f.kind = "coalesce" /\ f.kids = 1 THEN LoopLimit ELSE @]

(* Mutant: a sub-production built makes up for the failures before it.      *)
GainedAnew(f) == [Gained(f) EXCEPT !.retries = 0]

Adopted(f) == Gained(f)

Complete ==
    /\ mode = "building" /\ stack # <<>>
    /\ top.kids >= Needs(top.kind)
    /\ top.kind = "table_sample" => top.retries > 0
    /\ LET outer == Front(stack)
       IN  stack' = IF outer = <<>> THEN <<>>
                    ELSE [outer EXCEPT ![Len(outer)] = Adopted(@)]
    /\ UNCHANGED mode

(* Mutant: the limit is never enforced. *)
MayRetryAlways(f) == TRUE

(* prod::retry: the old value is compared; set_operation compares its count *)
(* of attempts as well before it makes the next.                             *)
MayRetry(f) ==
    /\ f.retries <= f.limit
    /\ f.kind = "set_operation" => f.retries < AttemptLimit

(* Mutant: the retry is not counted. *)
RetriedUncounted(f) == f

(* Mutant: the retries are counted down. *)
RetriedDown(f) == [f EXCEPT !.retries = @ - 1]

Retried(f) == [f EXCEPT !.retries = @ + 1]

(* f.retry() in the production on top of s, or its end.                     *)
RetryOrThrow(s, kids) ==
    LET f == s[Len(s)]
    IN  IF MayRetry(f)
        THEN /\ stack' = [s EXCEPT ![Len(s)] = [Retried(f) EXCEPT !.kids = kids]]
             /\ mode' = "building"
        ELSE /\ stack' = [s EXCEPT ![Len(s)] = Retried(f)]
             /\ mode' = "throwing"

(* A pick that does not fit, in the constructors' own loops: a routine that *)
(* cannot be called, a column without a partner; table_sample pays for every *)
(* pick, the good one included.                                              *)
PickAgain ==
    /\ mode = "building" /\ stack # <<>>
    /\ top.kind \in {"funcall", "simple_join_cond", "table_sample"} /\ top.kids = 0
    /\ RetryOrThrow(stack, 0)

(* coalesce's operands differ in type: one of them is built again.          *)
OperandAgain ==
    /\ mode = "building" /\ stack # <<>>
    /\ top.kind = "coalesce" /\ top.kids = 2
    /\ RetryOrThrow(stack, 1)

(* The second query of a set_operation has other columns than the first.    *)
QueryAgain ==
    /\ mode = "building" /\ stack # <<>>
    /\ top.kind = "set_operation" /\ top.kids = 2
    /\ RetryOrThrow(stack, 1)

Fail ==
    /\ mode = "building" /\ stack # <<>>
    /\ \/ top.kind \in MayFail /\ top.kids = 0
       \/ top.kind = "common_table_expression" /\ top.kids = 1
    /\ mode' = "throwing"
    /\ UNCHANGED stack

(* The exception leaves the constructor on top.  What built it retries if   *)
(* it catches, and throws in its turn if not or if it has no retry left.     *)
Unwind ==
    /\ mode = "throwing" /\ stack # <<>>
    /\ LET outer == Front(stack)
       IN  IF top.caught /\ outer # <<>>
           THEN RetryOrThrow(outer, outer[Len(outer)].kids)
           ELSE stack' = outer /\ UNCHANGED mode

Next ==
    \/ \E k \in Statements : Start(k)
    \/ \E k \in Kinds, caught \in BOOLEAN : Begin(k, caught)
    \/ Complete
    \/ PickAgain \/ OperandAgain \/ QueryAgain
    \/ Fail
    \/ Unwind

Spec == Init /\ [][Next]_vars

(* The generator is one thread and never waits.                             *)
FairSpec == Spec /\ WF_vars(Next)

-----------------------------------------------------------------------------
Frames == [kind : Kinds, retries : Nat, kids : Nat, caught : BOOLEAN, limit : Nat]

TypeOK ==
    /\ stack \in Seq(Frames)
    /\ mode \in {"building", "throwing"}

Greatest(a, b) == IF a > b THEN a ELSE b

(* However failures spread over its sub-productions and its own loop, a     *)
(* production pays for all of them from one budget: it goes on after at     *)
(* most retry_limit + 1 of them, and a set_operation after at most its 100. *)
RetryBudget ==
    \A i \in 1..Len(stack) :
        LET f == stack[i]
        IN  (mode = "building" \/ i < Len(stack)) =>
                /\ f.retries <= Greatest(RetryLimit, f.limit) + 1
                /\ f.kind = "set_operation" => f.retries <= AttemptLimit

(* A window function stands in the select list of a query, and in no other  *)
(* window function of that list; never in a where or join condition.        *)
WindowPlaced ==
    \A i \in 1..Len(stack) : stack[i].kind = "window_function" =>
        \E j \in 2..(i - 1) :
            /\ stack[j].kind = "select_list" /\ stack[j - 1].kind = "query_spec"
            /\ \A m \in (j + 1)..(i - 1) :
                  stack[m].kind \in ValueExprs \ {"window_function"}

(* A failure is paid for and never forgiven: while a production is under    *)
(* construction nothing built or thrown inside it lowers its count.         *)
NeverForgiven ==
    [][\A i \in 1..Len(stack) :
           i <= Len(stack') => stack'[i].retries >= stack[i].retries]_vars

(* When coalesce has both operands its limit falls below what it may have   *)
(* paid already: it builds one of them again only while all its failures,   *)
(* those from before included, are within the lower limit.                  *)
LoweredBudget ==
    [][\A i \in 1..Len(stack) :
           (/\ i <= Len(stack') /\ mode' = "building"
            /\ stack[i].kind = "coalesce" /\ stack[i].kids = 2
            /\ stack'[i].retries > stack[i].retries)
           => stack[i].retries <= LoopLimit]_vars

(* Every attempt at a statement ends, with the statement or with an         *)
(* exception that statement_factory catches: the retries run out before the *)
(* combinations of failing sub-productions do.                               *)
AttemptEnds == stack # <<>> ~> stack = <<>>
=============================================================================
