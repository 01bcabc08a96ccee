----------------------------- MODULE MCFuzzLoop -----------------------------
(* FuzzLoop for TLC.  --max-queries bounds every counter of main() and the *)
(* loggers, MaxFaults what happens to the server.                          *)
EXTENDS FuzzLoop
=============================================================================
