---------------------------- MODULE MCExprTypes ----------------------------
(* ExprTypes for TLC: an array, a scalar and four of PostgreSQL's pseudo-   *)
(* types, one routine or aggregate for each way a signature can matter.     *)
EXTENDS ExprTypes

CONSTANTS int4, bool, int4s, anyelement, anyarray, internal,
          abs, int4in, unnest, array_length, max, count, corr, t1, t2, eq, elem_eq, mood_eq, mood_num

MCTypes == {int4, bool, int4s, anyelement, anyarray, internal}
MCTyptype == [t \in MCTypes |-> IF t \in {int4, bool, int4s} THEN "b" ELSE "p"]
MCTypname == [t \in MCTypes |->
    IF t = anyelement THEN "anyelement" ELSE IF t = anyarray THEN "anyarray" ELSE "other"]

MCResult == [p \in {abs, int4in, unnest, array_length, max, count, corr} |->
    IF p \in {unnest, max} THEN anyelement ELSE int4]
MCParams == [p \in {abs, int4in, unnest, array_length, max, count, corr} |->
    CASE p = abs -> <<int4>>
      [] p = int4in -> <<internal>>
      [] p = unnest -> <<anyarray>>
      [] p = array_length -> <<int4s, int4>>
      [] p = max -> <<anyelement>>
      [] p = count -> <<bool>>
      [] p = corr -> <<int4, int4>>]

MCTableColumns == [t \in {t1, t2} |-> IF t = t1 THEN <<bool, int4>> ELSE <<int4s>>]
(* The operand of mood_eq and mood_num is a type created after the types    *)
(* were read.                                                                *)
MCLeft == [o \in {eq, elem_eq, mood_eq, mood_num} |->
    IF o = eq THEN int4 ELSE IF o = elem_eq THEN anyelement ELSE NoType]
MCRight == [MCLeft EXCEPT ![mood_num] = int4]
============================================================================
