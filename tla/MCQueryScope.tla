---------------------------- MODULE MCQueryScope ----------------------------
(* An instance of QueryScope. *)
EXTENDS QueryScope

(* anyelement is consistent with integer, not the other way round.          *)
MCTypes == {"integer", "anyelement"}
MCConsistent == (MCTypes \X MCTypes) \ {<<"integer", "anyelement">>}
=============================================================================
