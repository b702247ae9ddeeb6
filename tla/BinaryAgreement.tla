-------------------------- MODULE BinaryAgreement --------------------------
(***************************************************************************)
(* What one binary agreement promises ACS (acs.go: tryAgreementStart,      *)
(* sendZeroToIdleBba, processAgreement): a correct node decides at most    *)
(* once, all decide the same value, and some correct node was given it     *)
(* before.                                                                 *)
(***************************************************************************)
CONSTANTS Correct, Binary

VARIABLES
    given,       \* values ACS has passed to HandleInput, by node
    decisions    \* what each node has put on the binary channel

vars == <<given, decisions>>

Init ==
    /\ given = [i \in Correct |-> {}]
    /\ decisions = [i \in Correct |-> {}]

Give(i, v) ==
    /\ given' = [given EXCEPT ![i] = @ \cup {v}]
    /\ UNCHANGED decisions

Decide(i, v) ==
    /\ decisions[i] = {}
    /\ \A j \in Correct : decisions[j] \subseteq {v}
    /\ \E j \in Correct : v \in given[j]
    /\ decisions' = [decisions EXCEPT ![i] = {v}]
    /\ UNCHANGED given

Next == \E i \in Correct, v \in Binary : Give(i, v) \/ Decide(i, v)

Spec == Init /\ [][Next]_vars
=============================================================================
