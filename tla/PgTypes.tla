------------------------------ MODULE PgTypes ------------------------------
(***************************************************************************)
(* PostgreSQL types as sqlsmith knows them: rows of pg_type (struct        *)
(* pg_type, postgres.hh) and the conformance relation pg_type::consistent. *)
(***************************************************************************)
CONSTANTS
    Types,    \* the types there may be
    Typtype,  \* pg_type.typtype of each: "b", "c", "d", "e", "r", "m" or "p"
    Typname,  \* of the pseudo-types: what consistent() compares the name to
    IsArray   \* the types with a typelem

PseudoNames == {"anyarray", "anynonarray", "anyenum", "any", "anyelement",
                "anyrange", "anymultirange", "record", "cstring", "other"}

ASSUME TypesAssumption ==
    /\ Typtype \in [Types -> {"b", "c", "d", "e", "r", "m", "p"}]
    /\ Typname \in [Types -> PseudoNames]
    /\ IsArray \subseteq Types

Pseudo(t) == Typtype[t] = "p"
Concrete(t) == ~Pseudo(t)

(* What a pseudo-type accepts.  anycompatible... share the cases of any...;  *)
(* anyelement and anynonarray ask the same.                                  *)
Accepts(t, v) ==
    \/ Typname[t] = "anyarray" /\ v \in IsArray
    \/ Typname[t] \in {"anynonarray", "anyelement"} /\ v \notin IsArray
    \/ Typname[t] = "anyenum" /\ Typtype[v] = "e"
    \/ Typname[t] = "any" /\ ~Pseudo(v)
    \/ Typname[t] = "anyrange" /\ Typtype[v] = "r"
    \/ Typname[t] = "anymultirange" /\ Typtype[v] = "m"
    \/ Typname[t] = "record" /\ Typtype[v] = "c"
    \/ Typname[t] = "cstring" /\ t = v

(* Mutant: every type accepts the pseudo-types that accept it. *)
ConsistentBothWays(t, v) ==
    IF Pseudo(t) THEN Accepts(t, v) ELSE t = v \/ (Pseudo(v) /\ Accepts(v, t))

(* t.consistent(v): a context that asks for t can take a v. *)
Consistent(t, v) == IF Pseudo(t) THEN Accepts(t, v) ELSE t = v
============================================================================
