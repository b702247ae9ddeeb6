---------------------------- MODULE MCConnection ----------------------------
(* Instances of Connection for TLC.                                        *)
EXTENDS Connection, TLC

CONSTANTS s1, s2

TwoAndOne == (s1 :> 2) @@ (s2 :> 1)
=============================================================================
