-------------------------- MODULE RBCImplementsRB --------------------------
(***************************************************************************)
(* rbc.go implements ReliableBroadcast, delivered values being named by    *)
(* their Merkle root and length.  What a root that is not a codeword       *)
(* decodes to is outside the abstraction.                                  *)
(***************************************************************************)
EXTENDS RBC

Header(v) == [root |-> v.root, len |-> v.len]

DeliveredHeaders == [i \in Correct |-> {Header(v) : v \in delivered[i]}]

RB == INSTANCE ReliableBroadcast WITH
    Values <- [root : Roots, len : Lengths],
    ProposerIsCorrect <- Proposer \in Correct,
    InputValues <- [root : {Input.root}, len : Lengths],
    delivered <- DeliveredHeaders

\* Every step of the message-passing protocol delivers one agreed value at one
\* node that has none, or changes no delivery: at-most-once delivery, agreement
\* and validity at once (rbc.go: decodeSuccess as seen by the data channel).
ImplementsRB == RB!Spec
=============================================================================
