------------------------------ MODULE MCLoops ------------------------------
(* Instances of Loops for TLC.                                             *)
EXTENDS Loops

CONSTANTS c1, c2, m1, m2

\* Two members whose data and decisions share the channels, and one member's
\* loops while two of them are closed.
BusyOrClosing ==
    {[members |-> {m1, m2}, closes |-> 0], [members |-> {m1}, closes |-> 2]}
=============================================================================
