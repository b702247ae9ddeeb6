------------------------------- MODULE MCBBA -------------------------------
(* Instances of BBA for TLC: four nodes, F = 1, one of them faulty, and    *)
(* networks without faults, F = 0.                                         *)
EXTENDS BBAImplementsBA, TLC

CONSTANTS n1, n2, n3, n4

All(v) == [i \in {n1, n2, n3} |-> <<v>>]
AllZero == All(Zero)
LateOne == (n1 :> <<Zero>>) @@ (n2 :> <<One>>) @@ (n3 :> <<Zero, One>>)

Silent == [i \in Correct |-> {}]

Fb(r, v) == [type |-> "bval", src |-> n4, round |-> r, value |-> v]
Fa(r, v) == [type |-> "aux", src |-> n4, round |-> r, value |-> v]

\* n4 votes for the value that is nobody's input.
VotesOne ==
    (n1 :> {Fb(1, One), Fa(1, One)}) @@ (n2 :> {}) @@ (n3 :> {})

\* Unanimous inputs with an adverse faulty node; a node fed Zero and then One.
Rounds2 == {[inputs |-> AllZero, faultyTo |-> VotesOne],
            [inputs |-> LateOne, faultyTo |-> Silent]}

\* Without faults: F = 0.
OneAndZero == {[inputs |-> (n1 :> <<One>>) @@ (n2 :> <<Zero>>),
                faultyTo |-> Silent]}
=============================================================================
