---------------------------- MODULE MCDutSession ----------------------------
(* DutSession for TLC.  MaxFaults bounds the crashes, terminated backends,  *)
(* refused dials and rejected commands of one behaviour; its values are in  *)
(* the .cfg files, and there is nothing else to bound.                      *)
EXTENDS DutSession
=============================================================================
