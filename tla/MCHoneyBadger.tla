--------------------------- MODULE MCHoneyBadger ---------------------------
(* Instances of HoneyBadger for TLC.                                       *)
EXTENDS HoneyBadger

CONSTANTS t1, t2, t3, c1, c2
=============================================================================
