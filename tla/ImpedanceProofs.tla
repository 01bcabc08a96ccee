-------------------------- MODULE ImpedanceProofs --------------------------
(***************************************************************************)
(* The blacklist of the grammar feedback, for every set of productions,    *)
(* every threshold and runs of any length.                                 *)
(***************************************************************************)
EXTENDS Impedance, TLAPS

(* A query in flight was generated under the verdicts that still stand. *)
InFlightMatched == pending => \A p \in Found(query) \cap Gated : Matched(p)

IInv == TypeOK /\ CountedOncePerQuery /\ InFlightMatched

(* Feeding back a query counts every type of it once, and no other type. *)
LEMMA CountOnce ==
  ASSUME NEW occured \in [Prods -> Nat], NEW ast \in ASTs
  PROVE  /\ Count(occured, ast) \in [Prods -> Nat]
         /\ \A p \in Prods :
               /\ p \in Found(ast) => Count(occured, ast)[p] = occured[p] + 1
               /\ p \notin Found(ast) => Count(occured, ast)[p] = occured[p]
  BY DEF Count

(* No count is negative and no query is in flight at the start. *)
LEMMA InitIInv == Init => IInv
  <1> SUFFICES ASSUME Init PROVE IInv
    OBVIOUS
  <1>1. NoAST \in ASTs
    BY MaxOccursAssumption DEF NoAST, ASTs
  <1>2. TypeOK
    BY <1>1 DEF Init, TypeOK
  <1>3. CountedOncePerQuery
    BY DEF Init, CountedOncePerQuery
  <1>4. InFlightMatched
    BY DEF Init, InFlightMatched
  <1> QED BY <1>2, <1>3, <1>4 DEF IInv

(* Every step keeps the types, the counts and the verdicts of a query in flight. *)
LEMMA NextIInv == IInv /\ [Next]_vars => IInv'
  <1> SUFFICES ASSUME IInv, [Next]_vars PROVE IInv'
    OBVIOUS
  <1> USE DEF IInv
  <1>1. ASSUME NEW ast \in ASTs, Generate(ast) PROVE IInv'
    <2>1. TypeOK'
      BY <1>1 DEF Generate, NewQuery, TypeOK
    <2>2. CountedOncePerQuery'
      BY <1>1 DEF Generate, NewQuery, CountedOncePerQuery
    <2>3. InFlightMatched'
      BY <1>1 DEF Generate, NewQuery, InFlightMatched, Found, Matched
    <2> QED BY <2>1, <2>2, <2>3
  <1>2. CASE Executed
    <2>1. TypeOK'
      <3>1. pending' \in BOOLEAN
        BY <1>2, Zenon DEF Executed, FeedExecuted
      <3>2. okIn' = Count(okIn, query) /\ UNCHANGED <<failedIn, query>> /\ finished' = finished + 1
        BY <1>2 DEF Executed, FeedExecuted
      <3> QED BY <3>1, <3>2, CountOnce DEF TypeOK
    <2>2. CountedOncePerQuery'
      <3> SUFFICES ASSUME NEW p \in Prods PROVE failedIn'[p] + okIn'[p] <= finished'
        BY DEF CountedOncePerQuery
      <3>1. okIn'[p] \in {okIn[p], okIn[p] + 1} /\ failedIn'[p] = failedIn[p]
        BY <1>2, CountOnce DEF Executed, FeedExecuted, TypeOK
      <3>2. failedIn[p] \in Nat /\ okIn[p] \in Nat /\ finished \in Nat
        BY DEF TypeOK
      <3>3. failedIn[p] + okIn[p] <= finished /\ finished' = finished + 1
        BY <1>2 DEF CountedOncePerQuery, Executed, FeedExecuted
      <3> QED BY <3>1, <3>2, <3>3
    <2>3. InFlightMatched'
      BY <1>2 DEF Executed, FeedExecuted, InFlightMatched
    <2> QED BY <2>1, <2>2, <2>3
  <1>3. CASE Error
    <2>1. TypeOK'
      <3>1. pending' \in BOOLEAN
        BY <1>3, Zenon DEF Error, FeedError
      <3>2. failedIn' = Count(failedIn, query) /\ UNCHANGED <<okIn, query>> /\ finished' = finished + 1
        BY <1>3 DEF Error, FeedError
      <3> QED BY <3>1, <3>2, CountOnce DEF TypeOK
    <2>2. CountedOncePerQuery'
      <3> SUFFICES ASSUME NEW p \in Prods PROVE failedIn'[p] + okIn'[p] <= finished'
        BY DEF CountedOncePerQuery
      <3>1. failedIn'[p] \in {failedIn[p], failedIn[p] + 1} /\ okIn'[p] = okIn[p]
        BY <1>3, CountOnce DEF Error, FeedError, TypeOK
      <3>2. failedIn[p] \in Nat /\ okIn[p] \in Nat /\ finished \in Nat
        BY DEF TypeOK
      <3>3. failedIn[p] + okIn[p] <= finished /\ finished' = finished + 1
        BY <1>3 DEF CountedOncePerQuery, Error, FeedError
      <3> QED BY <3>1, <3>2, <3>3
    <2>3. InFlightMatched'
      BY <1>3 DEF Error, FeedError, InFlightMatched
    <2> QED BY <2>1, <2>2, <2>3
  <1>4. CASE Unjudged
    <2>1. pending' \in BOOLEAN
      BY <1>4, Zenon DEF Unjudged
    <2>2. TypeOK'
      BY <2>1, <1>4 DEF Unjudged, TypeOK
    <2>3. CountedOncePerQuery' /\ InFlightMatched'
      BY <1>4 DEF Unjudged, CountedOncePerQuery, InFlightMatched
    <2> QED BY <2>2, <2>3
  <1>5. CASE UNCHANGED vars
    BY <1>5 DEF vars, TypeOK, CountedOncePerQuery, InFlightMatched, Found, Matched
  <1> QED BY <1>1, <1>2, <1>3, <1>4, <1>5 DEF Next

LEMMA InvariantIInv == Spec => []IInv
  BY InitIInv, NextIInv, PTL DEF Spec

(* The counts are counts, the query in flight is an AST. *)
THEOREM TypeCorrect == Spec => []TypeOK
  BY InvariantIInv, PTL DEF IInv

(* A type is counted at most once for every query fed back. *)
THEOREM CountsQueries == Spec => []CountedOncePerQuery
  BY InvariantIInv, PTL DEF IInv

(* A step cannot lift the blacklisting of a type that asks matched(): the  *)
(* query in flight does not contain it, and only queries in flight change  *)
(* the counts.                                                             *)
LEMMA StickyStep ==
  ASSUME IInv, [Next]_vars, NEW p \in Gated, Blacklisted(p)
  PROVE  Blacklisted(p)'
  <1>1. p \in Prods
    BY GatedAssumption
  <1>2. SUFFICES failedIn'[p] = failedIn[p] /\ okIn'[p] = okIn[p]
    BY DEF Blacklisted, Matched
  <1>3. ASSUME NEW ast \in ASTs, Generate(ast)
        PROVE  failedIn'[p] = failedIn[p] /\ okIn'[p] = okIn[p]
    BY <1>3 DEF Generate, NewQuery
  <1>4. ASSUME pending PROVE p \notin Found(query)
    BY <1>4 DEF IInv, InFlightMatched, Blacklisted
  <1>5. CASE Executed
    BY <1>1, <1>4, <1>5, CountOnce DEF Executed, FeedExecuted, IInv, TypeOK
  <1>6. CASE Error
    BY <1>1, <1>4, <1>6, CountOnce DEF Error, FeedError, IInv, TypeOK
  <1>7. CASE Unjudged
    BY <1>7 DEF Unjudged
  <1>8. CASE UNCHANGED vars
    BY <1>8 DEF vars
  <1> QED BY <1>3, <1>5, <1>6, <1>7, <1>8 DEF Next

(* The blacklist of gated productions only grows. *)
THEOREM BlacklistIsSticky == Spec => BlacklistSticky
  <1>1. IInv /\ [Next]_vars => [\A p \in Gated : Blacklisted(p) => Blacklisted(p)']_vars
    BY StickyStep
  <1> QED BY <1>1, InvariantIInv, PTL DEF Spec, BlacklistSticky
============================================================================
