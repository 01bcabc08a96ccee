----------------------------- MODULE QueryScope -----------------------------
(***************************************************************************)
(* What a statement under construction may name.  Every query_spec works   *)
(* on a scope of its own, a copy of the one it is made in (struct scope,   *)
(* include/relmodel.hh); the FROM clause adds the aliases of its relations *)
(* as they are complete, a join condition gets a scope with both sides,    *)
(* WITH queries become tables of the query after them, and set operations  *)
(* match the columns of their sides.  The aliases are counted per          *)
(* statement.  GROUP BY is derived from the finished select list.          *)
(* The stack holds the constructs under construction, outermost first; what *)
(* makes one of them fail, and how often, is in Production.                 *)
(***************************************************************************)
EXTENDS Naturals, Sequences, SequencesExt

CONSTANTS
    Types,          \* of columns
    Consistent,     \* the pairs (l, r) with l->consistent(r)
    AttemptLimit,   \* of a set operation at its second query
    MaxNames,       \* bound: aliases given in one statement
    MaxDepth,       \* bound: constructs on the stack
    MaxItems,       \* bound: columns of a select list,
    MaxColumns      \*   and of a side of a set operation

(* table_sample's "sample" counts like "ref", which stands for both.         *)
AliasPrefixes == {"ref", "subq", "jennifer"}

ASSUME ScopeAssumption ==
    /\ Types # {}
    /\ Consistent \subseteq Types \X Types
    /\ {AttemptLimit, MaxNames, MaxDepth, MaxItems, MaxColumns} \subseteq Nat

Aliases == AliasPrefixes \X Nat

(* A name in GROUP BY: an alias stands for a column of its relation, "c"    *)
(* for a column of the select list.                                         *)
GroupNames == (AliasPrefixes \cup {"c"}) \X Nat

VARIABLES
    stack,
    uid     \* scope::stmt_seq, which all scopes of a statement share

vars == <<stack, uid>>

top == stack[Len(stack)]
under == Front(stack)

-----------------------------------------------------------------------------
(* The constructs.  refs and withs are the members of the scope in use:     *)
(* aliases for column references, and what tables has beyond the schema's.   *)
(* own are the aliases of the FROM clause; seen the window functions' keys  *)
(* that a visitor meets below FROM and WHERE.                                *)

(* Mutant: the scope of a query starts empty. *)
CopiedNothing(refs) == <<>>

(* scope::scope(parent), which copies the parent's refs. *)
Copied(refs) == refs

Query(how, refs, withs) ==
    [kind |-> "query", how |-> how, phase |-> "from", refs |-> Copied(refs),
     withs |-> withs, own |-> <<>>, items |-> <<>>, seen |-> <<>>,
     grouped |-> FALSE, group |-> <<>>]

Join(refs, withs) ==
    [kind |-> "join", phase |-> "lhs", refs |-> refs, withs |-> withs,
     lhs |-> <<>>, rhs |-> <<>>, seen |-> <<>>]

(* others: the columns of the queries that make up the second side.         *)
SetOperation(level) ==
    [kind |-> "setop", phase |-> "left", level |-> level, left |-> <<>>,
     others |-> {}, tries |-> 0]

With == [kind |-> "with", phase |-> "with", names |-> <<>>]

Push(f) == Len(stack) < MaxDepth /\ stack' = Append(stack, f)
Replace(f) == stack' = Append(under, f)
ReturnTo(f) == stack' = Append(Front(under), f)
outer == under[Len(under)]

IsTop(kind, phases) == stack # <<>> /\ top.kind = kind /\ top.phase \in phases

(* scope::stmt_uid *)
Uid(p) == <<p, uid[p]>>

(* Mutant: the counter stays. *)
CountedNot(p) == uid

Counted(p) == [uid EXCEPT ![p] = @ + 1]

Named(p) ==
    /\ uid["ref"] + uid["subq"] + uid["jennifer"] < MaxNames
    /\ uid' = Counted(p)

-----------------------------------------------------------------------------
Init == stack = <<>> /\ uid = [p \in AliasPrefixes |-> 0]

(* statement_factory and new_stmt, for the next statement and again after   *)
(* one that failed.                                                          *)
Start(root) ==
    /\ stack = <<>>
    /\ stack' = <<root>>
    /\ uid' = [p \in AliasPrefixes |-> 0]

Starts == {Query("top", <<>>, {}), SetOperation(0), With}

(* Mutant: whatever a FROM clause adds may be any table_ref.                *)
TableRefAnywhere(f) ==
    \/ f.kind = "query" /\ f.phase \in {"from", "more"}
    \/ f.kind = "join" /\ f.phase \in {"lhs", "rhs"}

(* Where table_ref::factory is called: for the first item of a FROM clause  *)
(* and for both sides of a join.                                             *)
WantsTableRef(f) ==
    \/ f.kind = "query" /\ f.phase = "from"
    \/ f.kind = "join" /\ f.phase \in {"lhs", "rhs"}

(* A table_ref with the given aliases is complete and f goes on with it.    *)
Received(f, refs, seen) ==
    CASE f.kind = "query" ->
            [f EXCEPT !.own = @ \o refs, !.refs = @ \o refs, !.seen = @ \o seen,
                      !.phase = "more"]
      [] f.kind = "join" /\ f.phase = "lhs" ->
            [f EXCEPT !.lhs = refs, !.seen = @ \o seen, !.phase = "rhs"]
      [] OTHER ->
            [f EXCEPT !.rhs = refs, !.seen = @ \o seen, !.phase = "on",
                      !.refs = @ \o f.lhs \o refs]

(* table_or_query_name, table_sample *)
TableRef ==
    /\ stack # <<>> /\ WantsTableRef(top)
    /\ Named("ref")
    /\ Replace(Received(top, <<Uid("ref")>>, <<>>))

(* table_subquery and joined_table begin. *)
BeginTableRef ==
    /\ stack # <<>> /\ WantsTableRef(top)
    /\ \/ Push(Query("subq", top.refs, top.withs))
       \/ Push(Join(top.refs, top.withs))
    /\ UNCHANGED uid

(* from_clause goes on with lateral_subqueries only. *)
BeginLateral ==
    /\ IsTop("query", {"more"})
    /\ Push(Query("lateral", top.refs, top.withs))
    /\ UNCHANGED uid

EndJoin ==
    /\ IsTop("join", {"on"})
    /\ ReturnTo(Received(outer, top.lhs \o top.rhs, top.seen))
    /\ UNCHANGED uid

BeginSelectList ==
    /\ IsTop("query", {"more"})
    /\ Replace([top EXCEPT !.phase = "select"])
    /\ UNCHANGED uid

IsSide(f) == f.how \in {"left", "right"}
MayAdd(f) == Len(f.items) < (IF IsSide(f) THEN MaxColumns ELSE MaxItems)

(* exists_predicate, in a join condition, a select item or WHERE. *)
BeginExists ==
    /\ IsTop("query", {"select", "where"}) \/ IsTop("join", {"on"})
    /\ top.phase = "select" => MayAdd(top)
    /\ Push(Query("exists", top.refs, top.withs))
    /\ UNCHANGED uid

(* Only a set operation compares types; elsewhere one stands for all.       *)
ItemTypes(f) == IF IsSide(f) THEN Types ELSE {CHOOSE t \in Types : TRUE}

(* A select item: whether it is a window function itself; the keys of the   *)
(* window functions that are or stand in it, and of those in its subqueries. *)
(* The keys are columns of the scope; one stands for both lists of a window. *)
ItemsOver(f, inner) ==
    {item \in [type : ItemTypes(f), whole : BOOLEAN,
               keys : {<<>>} \cup {<<k>> : k \in ToSet(f.refs)}, inner : {inner}] :
        item.whole => item.keys # <<>>}

SelectItem ==
    /\ IsTop("query", {"select"}) /\ MayAdd(top)
    /\ \E item \in ItemsOver(top, <<>>) : Replace([top EXCEPT !.items = Append(@, item)])
    /\ UNCHANGED uid

(* group_by: a window function gives its keys; what the visitor finds window *)
(* functions in gives the keys of all it finds; the rest its own name.       *)
GroupedBy(items) ==
    LET found(i) == items[i].keys \o items[i].inner
        of(i) == IF items[i].whole THEN items[i].keys
                 ELSE IF found(i) # <<>> THEN found(i)
                 ELSE <<<<"c", i>>>>
    IN  FlattenSeq([i \in 1..Len(items) |-> of(i)])

EndSelectList(grouped) ==
    /\ IsTop("query", {"select"}) /\ top.items # <<>>
    /\ Replace([top EXCEPT !.phase = "where", !.grouped = grouped,
                           !.group = IF grouped THEN GroupedBy(top.items) ELSE <<>>])
    /\ UNCHANGED uid

(* What a visitor of the finished query finds, and the columns it returns.  *)
SeenIn(q) ==
    FlattenSeq([i \in 1..Len(q.items) |-> q.items[i].keys \o q.items[i].inner]) \o q.seen

ColumnsOf(q) == [i \in 1..Len(q.items) |-> q.items[i].type]

IsEnding(how) == IsTop("query", {"where"}) /\ top.how = how

EndSubquery ==
    /\ IsEnding("subq") \/ IsEnding("lateral")
    /\ Named("subq")
    /\ ReturnTo(Received(outer, <<Uid("subq")>>, SeenIn(top)))

EndExists ==
    /\ IsEnding("exists")
    /\ IF outer.phase = "select"
       THEN \E item \in ItemsOver(outer, SeenIn(top)) :
                ReturnTo([outer EXCEPT !.items = Append(@, item)])
       ELSE ReturnTo([outer EXCEPT !.seen = @ \o SeenIn(top)])
    /\ UNCHANGED uid

EndTop ==
    /\ IsEnding("top") \/ IsEnding("main")
    /\ stack' = <<>>
    /\ UNCHANGED uid

-----------------------------------------------------------------------------
(* Mutant: only the retries of prod would end the attempts. *)
MayTryAlways(f) == TRUE

(* retry_count, compared before it grows. *)
MayTry(f) == f.tries <= AttemptLimit

(* set_operation makes its queries in the scope it was given, not its own.  *)
BeginSide ==
    /\ \/ IsTop("setop", {"left"}) /\ Push(Query("left", <<>>, {}))
       \/ /\ IsTop("setop", {"right"}) /\ MayTry(top)
          /\ \/ Push(Query("right", <<>>, {}))
             \/ top.level < 2 /\ Push(SetOperation(top.level + 1))
    /\ UNCHANGED uid

EndLeft ==
    /\ IsEnding("left")
    /\ ReturnTo([outer EXCEPT !.left = ColumnsOf(top), !.phase = "right"])
    /\ UNCHANGED uid

(* Mutant: the number of columns is not compared. *)
UnifiesSomehow(l, r) ==
    \A i \in DOMAIN l \cap DOMAIN r : <<l[i], r[i]>> \in Consistent

(* The comparison of the counts, and unify_column_types. *)
Unifies(l, r) ==
    /\ Len(l) = Len(r)
    /\ \A i \in 1..Len(l) : <<l[i], r[i]>> \in Consistent

(* The second side has the columns cols, of its own first query; on a       *)
(* mismatch the next attempt.                                                *)
Matched(f, cols, others) ==
    IF Unifies(f.left, cols) THEN [f EXCEPT !.others = others, !.phase = "order"]
    ELSE [f EXCEPT !.tries = @ + 1]

EndRight ==
    /\ IsEnding("right")
    /\ ReturnTo(Matched(outer, ColumnsOf(top), {ColumnsOf(top)}))
    /\ UNCHANGED uid

EndSetOperation ==
    /\ IsTop("setop", {"order"})
    /\ IF under = <<>> THEN stack' = <<>>
       ELSE ReturnTo(Matched(outer, top.left, top.others \cup {top.left}))
    /\ UNCHANGED uid

(* common_table_expression: the WITH queries in the outermost scope; then   *)
(* the query proper, in the scope that has their names.                      *)
BeginWithQuery ==
    /\ IsTop("with", {"with"})
    /\ Push(Query("with", <<>>, {}))
    /\ UNCHANGED uid

EndWithQuery ==
    /\ IsEnding("with")
    /\ Named("jennifer")
    /\ ReturnTo([outer EXCEPT !.names = Append(@, Uid("jennifer"))])

BeginMain ==
    /\ IsTop("with", {"with", "main"}) /\ top.names # <<>>
    /\ Len(stack) < MaxDepth
    /\ stack' = Append(under, [top EXCEPT !.phase = "main"])
                    \o <<Query("main", <<>>, ToSet(top.names))>>
    /\ UNCHANGED uid

-----------------------------------------------------------------------------
(* Whether the one that makes f catches what it throws: the factories of    *)
(* table_refs and predicates, set_operation at its second query, WITH at its *)
(* last.                                                                     *)
Caught(f) ==
    \/ f.kind = "join"
    \/ f.kind = "query" /\ f.how \in {"subq", "exists", "right", "main"}
    \/ f.kind = "setop" /\ f.level > 0

(* The innermost construct throws, and so does everything around it up to   *)
(* the first that catches; what was built inside is gone.  If nothing       *)
(* catches, statement_factory does.                                          *)
Fail ==
    /\ stack # <<>>
    /\ LET caught == {i \in 1..Len(stack) : Caught(stack[i])}
           i == CHOOSE j \in caught : \A k \in caught : k <= j
           left == SubSeq(stack, 1, i - 1)
       IN  stack' = IF caught = {} THEN <<>>
                    ELSE IF left[i - 1].kind = "setop"
                    THEN [left EXCEPT ![i - 1].tries = @ + 1]
                    ELSE left
    /\ UNCHANGED uid

Next ==
    \/ \E root \in Starts : Start(root)
    \/ TableRef \/ BeginTableRef \/ BeginLateral \/ EndJoin
    \/ BeginSelectList \/ BeginExists \/ SelectItem
    \/ \E grouped \in BOOLEAN : EndSelectList(grouped)
    \/ EndSubquery \/ EndExists \/ EndTop
    \/ BeginSide \/ EndLeft \/ EndRight \/ EndSetOperation
    \/ BeginWithQuery \/ EndWithQuery \/ BeginMain
    \/ Fail

Spec == Init /\ [][Next]_vars

-----------------------------------------------------------------------------
Hows == {"top", "left", "right", "with", "main", "subq", "lateral", "exists"}

(* A window function partitions and orders by something. *)
Columns ==
    {item \in [type : Types, whole : BOOLEAN, keys : Seq(Aliases), inner : Seq(Aliases)] :
        item.whole => item.keys # <<>>}

QueryFrames ==
    [kind : {"query"}, phase : {"from", "more", "select", "where"}, how : Hows,
     refs : Seq(Aliases), withs : SUBSET Aliases, own : Seq(Aliases), items : Seq(Columns),
     seen : Seq(Aliases), grouped : BOOLEAN, group : Seq(GroupNames)]

JoinFrames ==
    [kind : {"join"}, phase : {"lhs", "rhs", "on"}, refs : Seq(Aliases),
     withs : SUBSET Aliases, lhs : Seq(Aliases), rhs : Seq(Aliases), seen : Seq(Aliases)]

SetOpFrames ==
    [kind : {"setop"}, phase : {"left", "right", "order"}, level : 0..2,
     left : Seq(Types), others : SUBSET Seq(Types), tries : 0..(AttemptLimit + 1)]

WithFrames == [kind : {"with"}, phase : {"with", "main"}, names : Seq(Aliases)]

Frames == QueryFrames \cup JoinFrames \cup SetOpFrames \cup WithFrames

(* Every construct has the parts its class declares, and a set operation    *)
(* makes at most one attempt more than its limit.                            *)
TypeOK ==
    /\ stack \in Seq(Frames)
    /\ uid \in [AliasPrefixes -> Nat]

(* SQL's rule, on the tree of constructs alone.  What the i-th sees from     *)
(* outside: a subquery in FROM what its query sees from outside, a LATERAL   *)
(* one the FROM items before it as well, a subquery in an expression all     *)
(* that the expression sees.                                                 *)
Items(f) == IF f.kind = "query" THEN ToSet(f.own)
            ELSE IF f.kind = "join" THEN ToSet(f.lhs) \cup ToSet(f.rhs)
            ELSE {}

Outside ==
    LET out[i \in 0..Len(stack)] ==
            IF i < 2 THEN {}
            ELSE IF stack[i].kind = "query" /\ stack[i].how \in {"lateral", "exists"}
            THEN out[i - 1] \cup Items(stack[i - 1])
            ELSE out[i - 1]
    IN  out

Visible(i) == Outside[i] \cup Items(stack[i])

(* The names of a WITH are visible in the query proper and below it.        *)
WithNames(i) ==
    UNION {ToSet(stack[j].names) :
              j \in {k \in 1..(i - 1) : stack[k].kind = "with" /\ stack[k].phase = "main"}}

HasScope(f) == f.kind \in {"query", "join"}
InExpression(f) == f.phase \in {"select", "where", "on"}

(* Wherever an expression is generated, every alias it can pick from its    *)
(* scope is visible there by the rules of SQL: no sibling of a subquery     *)
(* that is not LATERAL, nothing of a construct that failed or of another    *)
(* statement, no WITH query before the WITH is complete.                     *)
NamesVisible ==
    \A i \in 1..Len(stack) : HasScope(stack[i]) =>
        /\ stack[i].withs \subseteq WithNames(i)
        /\ InExpression(stack[i]) => ToSet(stack[i].refs) \subseteq Visible(i)

(* And it can pick all that is visible, so that correlated subqueries and   *)
(* LATERAL are really exercised, at any depth.                               *)
VisibleNamed ==
    \A i \in 1..Len(stack) :
        HasScope(stack[i]) /\ InExpression(stack[i]) =>
            Visible(i) \subseteq ToSet(stack[i].refs)

(* No alias shadows another in any scope, although failed constructs and    *)
(* scopes that were copied before the alias existed lie in between.          *)
NoShadowing ==
    \A i \in 1..Len(stack) : HasScope(stack[i]) =>
        \A j, k \in DOMAIN stack[i].refs :
            stack[i].refs[j] = stack[i].refs[k] => j = k

(* Both sides of a complete set operation have the same number of columns,  *)
(* and so has every query in a nest of them, whatever attempts failed.       *)
SameColumns ==
    \A i \in 1..Len(stack) :
        stack[i].kind = "setop" /\ stack[i].phase = "order" =>
            \A cols \in stack[i].others : Len(cols) = Len(stack[i].left)

(* A clause names only what its scope has (include/prod.hh: "Scope object   *)
(* to model column/table reference visibility").  It does not hold: the     *)
(* visitor of GROUP BY goes into subqueries.                                 *)
GroupVisible ==
    \A i \in 1..Len(stack) :
        stack[i].kind = "query" =>
            \A n \in ToSet(stack[i].group) : n[1] = "c" \/ n \in Visible(i)
=============================================================================
