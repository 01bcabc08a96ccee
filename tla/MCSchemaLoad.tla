---------------------------- MODULE MCSchemaLoad ----------------------------
(* SchemaLoad for TLC: a built-in type, an enum that others may create and *)
(* drop, and anyelement; one object of each kind that depends on the enum. *)
EXTENDS SchemaLoad

CONSTANTS int4, mood, anyelement, t1, v1, pg_class, mk_mood, now, agg_mood, eq_mood, next_mood

MCTypes == {int4, mood, anyelement}
MCTyptype == [t \in MCTypes |->
    IF t = int4 THEN "b" ELSE IF t = mood THEN "e" ELSE "p"]
MCTypname == [t \in MCTypes |-> IF t = anyelement THEN "anyelement" ELSE "other"]

MCObjects == {mk_mood, now, agg_mood, eq_mood, next_mood}
MCResult == [o \in MCObjects |->
    IF o \in {mk_mood, next_mood} THEN mood ELSE int4]
MCArgs == [o \in MCObjects |->
    CASE o = mk_mood -> <<mood, int4>> [] o = now -> <<>> [] o = agg_mood -> <<mood>>
      [] o = eq_mood -> <<mood, int4>> [] o = next_mood -> <<int4, int4>>]
=============================================================================
