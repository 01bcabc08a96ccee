---------------------------- MODULE MCImpedance ----------------------------
(* Impedance for TLC.  Its counters only grow: a run counts MaxCount queries. *)
EXTENDS Impedance

CONSTANT MaxCount

Bounded == finished < MaxCount \/ (finished = MaxCount /\ ~pending)
============================================================================
