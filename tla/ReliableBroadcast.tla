------------------------- MODULE ReliableBroadcast -------------------------
(***************************************************************************)
(* What one instance of reliable broadcast promises its users (acs.go      *)
(* reads it from the data channel): every correct node delivers at most    *)
(* one value, all deliver the same one, and it is the proposer's input if  *)
(* the proposer is correct.                                                *)
(***************************************************************************)
CONSTANTS Correct, Values, ProposerIsCorrect, InputValues

VARIABLE delivered

Init == delivered = [i \in Correct |-> {}]

Deliver(i, v) ==
    /\ delivered[i] = {}
    /\ \A j \in Correct : delivered[j] \subseteq {v}
    /\ ProposerIsCorrect => v \in InputValues
    /\ delivered' = [delivered EXCEPT ![i] = {v}]

Next == \E i \in Correct, v \in Values : Deliver(i, v)

Spec == Init /\ [][Next]_delivered
=============================================================================
