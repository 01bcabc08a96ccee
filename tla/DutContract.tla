---------------------------- MODULE DutContract ----------------------------
(***************************************************************************)
(* What a "device under test" promises to the main loop of sqlsmith        *)
(* (include/dut.hh): test(stmt) hands the statement to the server at most  *)
(* once and either returns or throws one of the dut exceptions.  The way   *)
(* to a server, its sessions, transactions and crashes are invisible here. *)
(***************************************************************************)

VARIABLES
    phase,    \* "absent" (constructor runs), "idle", "testing", "lost" (constructor threw)
    handed,   \* how often the statement of this test was put to the server
    verdict,  \* how the last test ended: "ok" or the exception's class
    persists  \* some statement left an effect behind

vars == <<phase, handed, verdict, persists>>

(* The classes dut.hh declares. *)
Exceptions == {"failure", "broken", "timeout", "syntax"}

Init ==
    /\ phase = "absent"
    /\ handed = 0
    /\ verdict = "none"
    /\ persists = FALSE

(* The constructor returns, or throws and there is no device. *)
Construct ==
    /\ phase = "absent"
    /\ \/ phase' = "idle" /\ verdict' = "none"
       \/ phase' = "lost" /\ verdict' \in Exceptions
    /\ UNCHANGED <<handed, persists>>

(* The main loop calls test(). *)
Test ==
    /\ phase = "idle"
    /\ phase' = "testing"
    /\ handed' = 0
    /\ verdict' = "none"
    /\ UNCHANGED persists

(* The statement is handed to the server; never twice within one test. *)
HandOver ==
    /\ phase = "testing"
    /\ handed = 0
    /\ handed' = 1
    /\ UNCHANGED <<phase, verdict, persists>>

(* test() ends.  Success and a syntax error are statements about the       *)
(* generated SQL, so they need a statement the server has seen; "failure", *)
(* "timeout" and "broken" may also be about the session.                    *)
Return ==
    /\ phase = "testing"
    /\ phase' = "idle"
    /\ verdict' \in {"ok"} \cup Exceptions
    /\ verdict' \in {"ok", "syntax"} => handed = 1
    /\ UNCHANGED <<handed, persists>>

Next == Construct \/ Test \/ HandOver \/ Return

Spec == Init /\ [][Next]_vars
============================================================================
