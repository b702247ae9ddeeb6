------------------------------- MODULE MCRBC -------------------------------
(* Instances of RBC for TLC: four nodes, F = 1.                            *)
EXTENDS RBCImplementsRB, TLC

CONSTANTS n1, n2, n3, n4, r1, r2

MCNodes == {n1, n2, n3, n4}
MCRoots == {r1, r2}
\* Four different shards: each is found at its own place.
Distinct == [r \in MCRoots |-> [k \in 0 .. 3 |-> k]]
MCInput == [root |-> r1, len |-> 8]

OneOrder == {[j \in MCNodes \ {Proposer} |->
                 CASE j = n2 -> 1 [] j = n3 -> 2 [] OTHER -> 3]}

Val(j, r, s, l) == [type |-> "val", src |-> n4, dst |-> j, root |-> r,
                    shard |-> s, len |-> l]

\* A faulty node that votes for the proposer's payload, for another one, and
\* with a broken branch, differently at every node.
Votes ==
    (n1 :> {Echo(n4, r2, 3, 8), Ready(n4, r1, 8)}) @@
    (n2 :> {Echo(n4, r1, 3, 8), Ready(n4, r2, 8)}) @@
    (n3 :> {Echo(n4, r1, BadShard, 8)})

\* A faulty proposer that gives n1 and n2 one payload and n3 another one, or the
\* same one with another length, and votes for what each was given.
Equivocation ==
    (n1 :> {Val(n1, r1, 0, 8), Echo(n4, r1, 3, 8)}) @@
    (n2 :> {Val(n2, r1, 1, 8), Echo(n4, r1, 3, 8)}) @@
    (n3 :> {Val(n3, r1, 2, 5), Val(n3, r2, 2, 8), Ready(n4, r2, 8)})

\* A faulty proposer that leaves n3 out.
Partial ==
    [i \in {n1, n2, n3} |->
        IF i = n3 THEN {}
        ELSE {Val(i, r1, IF i = n1 THEN 0 ELSE 1, 8), Echo(n4, r1, 3, 8),
              Ready(n4, r1, 8)}]

\* A faulty node whose READY carries another length.
OtherLength == [i \in {n1, n2, n3} |-> {Ready(n4, r1, 5)}]
=============================================================================
