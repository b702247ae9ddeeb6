-------------------------------- MODULE ACS --------------------------------
(***************************************************************************)
(* Asynchronous common subset (acs/acs.go).  Every correct node runs one   *)
(* ACS object: a goroutine that receives the values of N reliable          *)
(* broadcasts and the decisions of N binary agreements from two channels,  *)
(* and a third channel that tells it to feed Zero to the idle agreements.  *)
(*                                                                         *)
(* The sub-protocols are what their users are promised: a broadcast hands  *)
(* the same value to every correct node (module ReliableBroadcast), an     *)
(* agreement decides one value that is the input of a correct node.  A     *)
(* value or decision that waits in its channel is one not yet received.    *)
(* acs.go gives every member the same data, so a batch is the set of its   *)
(* members.  A faulty member may broadcast a payload of length zero, which *)
(* acs.go takes for data that has not come.                                *)
(***************************************************************************)
EXTENDS Integers, FiniteSets, Sequences

CONSTANTS
    Nodes,    \* the members: each runs ACS and proposes in one broadcast
    Faulty,
    F         \* acs.f

VARIABLES
    broadcasts,        \* proposers whose broadcast delivers
    decision,          \* what the agreement about each proposer decided
    empty,             \* proposers whose broadcast delivers no bytes
    broadcastResult,   \* proposers whose data a node has received
    agreementResult,   \* decisions a node has received
    agreementStarted,  \* proposers whose agreement was started with One
    inputs,            \* values passed to the agreement's HandleInput
    busy,              \* agreements found not Idle without an input
    agreementChan,     \* signals waiting for sendZeroToIdleBba
    dec,
    batches            \* what was put on the batch channel, in order

envVars == <<broadcasts, decision, empty>>
vars == <<envVars, broadcastResult, agreementResult, agreementStarted, inputs,
          busy, agreementChan, dec, batches>>

N == Cardinality(Nodes)
Correct == Nodes \ Faulty
Zero == 0
One == 1
Binary == {Zero, One}
Undefined == -1
BinaryState == Binary \cup {Undefined}

\* Slips the runs detect: one fault more tolerated, one agreement not awaited.
AgreementChanSizeLow == F
AgreementThresholdLow == N - F - 1
AgreementDoneThresholdLow == N - 1
AgreementThreshold == N - F
AgreementDoneThreshold == N
AgreementChanSize == N

ASSUME NodesAssumption ==
    /\ IsFiniteSet(Nodes)
    /\ Faulty \subseteq Nodes
    /\ F \in Nat
    /\ N > F
    /\ Cardinality(Faulty) <= F

DoneWith(result, S) == {p \in Nodes : result[p] \in S}
CountSuccessDoneAgreement(result) == Cardinality(DoneWith(result, {One}))
CountDoneAgreement(result) == Cardinality(DoneWith(result, Binary))

-----------------------------------------------------------------------------
Init ==
    /\ broadcasts = {}
    /\ decision = [p \in Nodes |-> Undefined]
    /\ empty \in SUBSET Faulty
    /\ broadcastResult = [i \in Correct |-> {}]
    /\ agreementResult = [i \in Correct |-> [p \in Nodes |-> Undefined]]
    /\ agreementStarted = [i \in Correct |-> {}]
    /\ inputs = [i \in Correct |-> [p \in Nodes |-> {}]]
    /\ busy = [i \in Correct |-> {}]
    /\ agreementChan = [i \in Correct |-> 0]
    /\ dec = [i \in Correct |-> FALSE]
    /\ batches = [i \in Correct |-> <<>>]

nodeVars == <<broadcastResult, agreementResult, agreementStarted, inputs, busy,
              agreementChan, dec, batches>>

\* A correct node's contribution reaches its broadcast; a faulty node may
\* complete one, too.
HandleInput(p) ==
    /\ broadcasts' = broadcasts \cup {p}
    /\ UNCHANGED <<decision, empty, nodeVars>>

\* The agreement about p decides an input of a correct node.
Decide(p, v) ==
    /\ decision[p] = Undefined
    /\ \E i \in Correct : v \in inputs[i][p]
    /\ decision' = [decision EXCEPT ![p] = v]
    /\ UNCHANGED <<broadcasts, empty, nodeVars>>

\* Slip: dec is not looked at.
TryCompleteAgain(i, data, result) ==
    LET agreed == DoneWith(result, {One}) IN
    IF /\ CountDoneAgreement(result) = AgreementDoneThreshold
       /\ agreed \subseteq data \ empty
       /\ agreed # {}
    THEN /\ batches' = [batches EXCEPT ![i] = Append(@, agreed)]
         /\ dec' = [dec EXCEPT ![i] = TRUE]
    ELSE UNCHANGED <<batches, dec>>

\* All agreements decided, and some bytes for each that decided One.
TryCompleteAgreement(i, data, result) ==
    LET agreed == DoneWith(result, {One}) IN
    IF /\ ~ dec[i]
       /\ CountDoneAgreement(result) = AgreementDoneThreshold
       /\ agreed \subseteq data \ empty
       /\ agreed # {}
    THEN /\ batches' = [batches EXCEPT ![i] = Append(@, agreed)]
         /\ dec' = [dec EXCEPT ![i] = TRUE]
    ELSE UNCHANGED <<batches, dec>>

\* processData and tryAgreementStart: One is passed even if Zero was before.
AcceptData(i, p) ==
    /\ broadcastResult' = [broadcastResult EXCEPT ![i] = @ \cup {p}]
    /\ inputs' = IF p \in agreementStarted[i] THEN inputs
                 ELSE [inputs EXCEPT ![i][p] = @ \cup {One}]
    /\ agreementStarted' = [agreementStarted EXCEPT ![i] = @ \cup {p}]
    /\ UNCHANGED <<envVars, agreementResult, busy, agreementChan>>

\* Slip: the agreements may all be done when the last data comes.
ReceiveDataOnly(i, p) ==
    /\ p \in broadcasts \ broadcastResult[i]
    /\ AcceptData(i, p)
    /\ UNCHANGED <<batches, dec>>

ReceiveData(i, p) ==
    /\ p \in broadcasts \ broadcastResult[i]
    /\ AcceptData(i, p)
    /\ TryCompleteAgreement(i, broadcastResult'[i], agreementResult[i])

\* A further decision for Zero repeats the signal as long as N-F agreements have
\* decided One.  A full channel would stop the loop for good: TypeOK bounds it.
ProcessAgreement(i, p) ==
    /\ agreementResult' = [agreementResult EXCEPT ![i][p] = decision[p]]
    /\ IF CountSuccessDoneAgreement(agreementResult'[i]) = AgreementThreshold
       THEN agreementChan' = [agreementChan EXCEPT ![i] = @ + 1]
       ELSE UNCHANGED agreementChan
    /\ UNCHANGED <<envVars, broadcastResult, agreementStarted, inputs, busy>>

ReceiveBinary(i, p) ==
    /\ decision[p] # Undefined
    /\ agreementResult[i][p] = Undefined
    /\ ProcessAgreement(i, p)
    /\ TryCompleteAgreement(i, broadcastResult[i], agreementResult'[i])

\* The agreements about notIdle have been carried to their second round by the
\* messages of other nodes.  agreementStarted is not touched.
SendZeroToIdleBba(i) ==
    /\ agreementChan[i] > 0
    /\ agreementChan' = [agreementChan EXCEPT ![i] = @ - 1]
    /\ LET unstarted == {p \in Nodes \ busy[i] : inputs[i][p] = {}}
           moving == {p \in unstarted : \E j \in Correct : inputs[j][p] # {}}
       IN  \E notIdle \in SUBSET moving :
              /\ busy' = [busy EXCEPT ![i] = @ \cup notIdle]
              /\ inputs' = [inputs EXCEPT ![i] = [p \in Nodes |->
                     IF p \in unstarted \ notIdle THEN {Zero} ELSE @[p]]]
    /\ UNCHANGED <<envVars, broadcastResult, agreementResult,
                   agreementStarted, dec, batches>>

Next ==
    \/ \E p \in Nodes : HandleInput(p)
    \/ \E p \in Nodes, v \in Binary : Decide(p, v)
    \/ \E i \in Correct :
        \/ \E p \in Nodes : ReceiveData(i, p)
        \/ \E p \in Nodes : ReceiveBinary(i, p)
        \/ SendZeroToIdleBba(i)

Spec == Init /\ [][Next]_vars

-----------------------------------------------------------------------------
\* HoneyBadger gives every correct node its contribution, a broadcast that
\* completes anywhere completes everywhere, run serves each channel, and an
\* agreement that every correct node takes part in decides.
TakesPart(i, p) == inputs[i][p] # {} \/ p \in busy[i]

DecideSomething(p) ==
    /\ \A i \in Correct : TakesPart(i, p)
    /\ \E v \in Binary : Decide(p, v)

Fairness ==
    /\ \A p \in Correct : WF_vars(HandleInput(p))
    /\ \A p \in Nodes : WF_vars(DecideSomething(p))
    /\ \A i \in Correct :
        /\ WF_vars(\E p \in Nodes : ReceiveData(i, p))
        /\ WF_vars(\E p \in Nodes : ReceiveBinary(i, p))
        /\ WF_vars(SendZeroToIdleBba(i))

FairSpec == Spec /\ Fairness

-----------------------------------------------------------------------------
(* Properties.                                                             *)

\* The shape of every variable; the goroutine that alone empties agreementChan
\* never finds it full when it sends to it (acs.go: processAgreement, run).
TypeOK ==
    /\ broadcasts \subseteq Nodes
    /\ decision \in [Nodes -> BinaryState]
    /\ empty \subseteq Faulty
    /\ broadcastResult \in [Correct -> SUBSET Nodes]
    /\ agreementResult \in [Correct -> [Nodes -> BinaryState]]
    /\ agreementStarted \in [Correct -> SUBSET Nodes]
    /\ inputs \in [Correct -> [Nodes -> SUBSET Binary]]
    /\ busy \in [Correct -> SUBSET Nodes]
    /\ agreementChan \in [Correct -> 0 .. AgreementChanSize]
    /\ dec \in [Correct -> BOOLEAN]
    /\ batches \in [Correct -> Seq(SUBSET Nodes)]

Outputs(i) == {batches[i][k] : k \in 1 .. Len(batches[i])}

\* Any two batches of correct nodes have the same members, in whatever order
\* data and decisions reach each node's loop (docs/HONEYBADGER-EN.md:36).
BatchAgreement ==
    \A i, j \in Correct : \A b \in Outputs(i), c \in Outputs(j) : b = c

\* A batch has N-F members, N-2F of them correct: Zero is fed to an agreement
\* only after N-F others have decided One (docs/HONEYBADGER-EN.md:35).
BatchValidity ==
    \A i \in Correct : \A b \in Outputs(i) :
        /\ Cardinality(b) >= N - F
        /\ Cardinality(b \ Faulty) >= N - 2 * F

\* A node puts one batch on the channel, although data of members that are not
\* in the batch goes on arriving and completing (acs.go: tryCompleteAgreement).
OneBatch == \A i \in Correct : Len(batches[i]) <= 1

\* Every correct node puts a batch on the channel, although it may find BBAs
\* without its input no longer idle, and data may come after the last decision
\* (docs/HONEYBADGER-EN.md:37), unless a member is agreed upon whose data is
\* empty: nobody completes then (acs.go: tryCompleteAgreement).
Completes ==
    \/ <>(\A i \in Correct : batches[i] # <<>>)
    \/ <>(\E p \in empty : decision[p] = One)
=============================================================================
