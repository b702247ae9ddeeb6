----------------------------- MODULE MCNetwork -----------------------------
(* Instances of Network for TLC.                                           *)
EXTENDS Network

CONSTANTS a, b, d, g1

AtA == [g \in Sharers |-> a]

\* a connects to the others and broadcasts; a connects to b, twice or not, and is
\* closed; b is.
ALives == [servers |-> {b, d}, dials |-> {<<a, b>>, <<a, d>>}, closing |-> {},
           calls |-> 2]
ACloses == [servers |-> {b}, dials |-> {<<a, b>>}, closing |-> {a}, calls |-> 2]
BCloses == [servers |-> {b}, dials |-> {<<a, b>>}, closing |-> {b}, calls |-> 2]
Lives == {ALives, ACloses, BCloses}
=============================================================================
