---------------------------- MODULE CommonSubset ----------------------------
(***************************************************************************)
(* What ACS promises HoneyBadger (honeybadger.go reads it from the batch   *)
(* channel): every correct node gets at most one batch, all get the same   *)
(* one, its members have proposed, and they are a quorum.                  *)
(***************************************************************************)
CONSTANTS
    Nodes,
    Correct,
    Quorums      \* the sets of nodes large enough for a batch

VARIABLES
    proposed,    \* members whose contribution has been broadcast
    batches      \* what each node has put on the batch channel, in order

vars == <<proposed, batches>>

Init ==
    /\ proposed = {}
    /\ batches = [i \in Correct |-> <<>>]

Propose(p) ==
    /\ proposed' = proposed \cup {p}
    /\ UNCHANGED batches

Output(i, b) ==
    /\ batches[i] = <<>>
    /\ \A j \in Correct : batches[j] \in {<<>>, <<b>>}
    /\ b \subseteq proposed
    /\ b \in Quorums
    /\ batches' = [batches EXCEPT ![i] = <<b>>]
    /\ UNCHANGED proposed

Next ==
    \/ \E p \in Nodes : Propose(p)
    \/ \E i \in Correct, b \in SUBSET Nodes : Output(i, b)

Spec == Init /\ [][Next]_vars
=============================================================================
