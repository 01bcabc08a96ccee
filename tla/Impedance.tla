----------------------------- MODULE Impedance -----------------------------
(***************************************************************************)
(* Feedback from executed queries to the grammar (src/impedance.cc): which *)
(* production types occur in failed and in successful queries, and which   *)
(* are blacklisted for it.  An AST is the bag of the types of its nodes.   *)
(***************************************************************************)
EXTENDS Integers, FiniteSets

CONSTANTS
    Prods,        \* production types
    Gated,        \* those whose construction asks impedance::matched first
    MinFailed,    \* failed queries before a type is judged at all (100)
    RateNum,      \* a type is blacklisted above the error rate
    RateDen,      \*   RateNum / RateDen (99/100)
    MaxOccurs     \* bound: nodes of one type in one AST

ASSUME GatedAssumption == Gated \subseteq Prods
ASSUME MinFailedAssumption == MinFailed \in Nat \ {0}
ASSUME RateAssumption == RateNum \in Nat /\ RateDen \in Nat /\ RateNum < RateDen
ASSUME MaxOccursAssumption == MaxOccurs \in Nat \ {0}

VARIABLES
    failedIn,  \* occurances_in_failed_query
    okIn,      \* occurances_in_ok_query
    query,     \* the AST generated last
    pending,   \* its result is still to come
    finished   \* queries whose result has been fed back

vars == <<failedIn, okIn, query, pending, finished>>

ASTs == [Prods -> 0..MaxOccurs]
NoAST == [p \in Prods |-> 0]

(* The visitor remembers the types it has met ... *)
Found(ast) == {p \in Prods : ast[p] > 0}

(* Mutant: every node counts. *)
CountNodes(occured, ast) == [p \in Prods |-> occured[p] + ast[p]]

(* Mutant: a query takes its types' counts down. *)
CountDown(occured, ast) ==
    [p \in Prods |-> occured[p] - IF p \in Found(ast) THEN 1 ELSE 0]

(* ... and its destructor counts each of them once. *)
Count(occured, ast) ==
    [p \in Prods |-> occured[p] + IF p \in Found(ast) THEN 1 ELSE 0]

(* impedance::matched; the division of two longs is compared to 0.99, so   *)
(* the comparison is exact: failed / (failed + ok) > RateNum / RateDen.    *)
MatchedBy(failed, ok) ==
    MinFailed > failed \/ failed * RateDen <= RateNum * (failed + ok)
Matched(p) == MatchedBy(failedIn[p], okIn[p])
Blacklisted(p) == ~Matched(p)

Init ==
    /\ failedIn = [p \in Prods |-> 0]
    /\ okIn = [p \in Prods |-> 0]
    /\ query = NoAST
    /\ pending = FALSE
    /\ finished = 0

(* Mutant: no production calls match(). *)
NewQueryUngated(ast) ==
    /\ query' = ast
    /\ pending' = TRUE
    /\ UNCHANGED <<failedIn, okIn, finished>>

(* A query is generated: a type that calls match() in its constructor, or  *)
(* is checked by its factory, gets into the AST only while it is matched.  *)
NewQuery(ast) ==
    /\ \A p \in Found(ast) \cap Gated : Matched(p)
    /\ query' = ast
    /\ pending' = TRUE
    /\ UNCHANGED <<failedIn, okIn, finished>>

(* impedance_feedback::executed *)
FeedExecuted ==
    /\ okIn' = Count(okIn, query)
    /\ pending' = FALSE
    /\ finished' = finished + 1
    /\ UNCHANGED <<failedIn, query>>

(* impedance_feedback::error, whatever the exception was. *)
FeedError ==
    /\ failedIn' = Count(failedIn, query)
    /\ pending' = FALSE
    /\ finished' = finished + 1
    /\ UNCHANGED <<okIn, query>>

(* Nothing in impedance.cc checks the order of these calls; main() makes    *)
(* them as follows.                                                          *)
Generate(ast) == ~pending /\ NewQuery(ast)
Executed == pending /\ FeedExecuted
Error == pending /\ FeedError

(* A dry run gives no result. *)
Unjudged ==
    /\ pending
    /\ pending' = FALSE
    /\ UNCHANGED <<failedIn, okIn, query, finished>>

Next == (\E ast \in ASTs : Generate(ast)) \/ Executed \/ Error \/ Unjudged

Spec == Init /\ [][Next]_vars

-----------------------------------------------------------------------------
TypeOK ==
    /\ failedIn \in [Prods -> Nat]
    /\ okIn \in [Prods -> Nat]
    /\ query \in ASTs
    /\ pending \in BOOLEAN
    /\ finished \in Nat

(* A type counts once per query however often it occurs in it, and never   *)
(* on both sides: the two counts together never exceed the queries seen,   *)
(* so the error rate is a rate over queries (impedance_visitor).           *)
CountedOncePerQuery == \A p \in Prods : failedIn[p] + okIn[p] <= finished

(* A production that asks matched() and has been blacklisted stays so for  *)
(* the rest of the run: it is in no later query, so nothing can be learned *)
(* about it any more.                                                      *)
BlacklistSticky ==
    [][\A p \in Gated : Blacklisted(p) => Blacklisted(p)']_vars
============================================================================
