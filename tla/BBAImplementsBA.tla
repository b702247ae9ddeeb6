-------------------------- MODULE BBAImplementsBA --------------------------
(***************************************************************************)
(* bba.go implements BinaryAgreement, the values ACS has passed to         *)
(* HandleInput being what the nodes are given.                             *)
(***************************************************************************)
EXTENDS BBA

BA == INSTANCE BinaryAgreement WITH given <- Given

\* Every step of the rounds is a decision for a value that was given to a correct
\* node before and that nobody contradicts, at a node that has none yet, or no
\* decision at all (bba.go: agreementSuccess as seen by the binary channel).
ImplementsBA == BA!Spec
=============================================================================
