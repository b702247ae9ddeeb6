-------------------------- MODULE ACSImplementsCS --------------------------
(***************************************************************************)
(* acs.go implements CommonSubset over broadcasts and agreements that keep *)
(* their promises: the batches are those of the batch channel, and a       *)
(* member has proposed when its broadcast delivers.                        *)
(***************************************************************************)
EXTENDS ACS

CS == INSTANCE CommonSubset WITH
    Quorums <- {b \in SUBSET Nodes : Cardinality(b) >= N - F},
    proposed <- broadcasts

\* Every step of a node's loop puts its only batch on the channel, with N-F
\* members that have all proposed, equal to every other node's, or none at all
\* (acs.go: agreementSuccess as seen by the batch channel).
ImplementsCS == CS!Spec
=============================================================================
