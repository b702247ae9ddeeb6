------------------------------- MODULE MCACS -------------------------------
(* Instances of ACS for TLC.                                               *)
EXTENDS ACSImplementsCS

CONSTANTS n1, n2, n3, n4
=============================================================================
