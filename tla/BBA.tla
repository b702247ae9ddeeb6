-------------------------------- MODULE BBA --------------------------------
(***************************************************************************)
(* One instance of binary agreement (bba/bba.go): every node of Nodes runs *)
(* a BBA object for the same proposer.                                     *)
(*                                                                         *)
(* A correct node's messages stay in the monotone set msgs and may reach a *)
(* node, itself included (broadcast calls HandleMessage), at any later     *)
(* time, in any order: the two goroutines that call broadcast, the run     *)
(* loop and ACS in HandleInput, race for the connections, and requests     *)
(* taken back from the incoming repositories overtake queued ones.  A      *)
(* request of a round that the node has not reached is one that has not    *)
(* been handled yet.                                                       *)
(*                                                                         *)
(* binValueChan, tryoutAgreementChan and advanceRoundChan carry the round  *)
(* and run drops a signal of another round, so what counts is whether one  *)
(* for the current round is waiting.                                       *)
(***************************************************************************)
EXTENDS Integers, FiniteSets, Sequences

CONSTANTS
    Nodes,      \* the members of the network
    Faulty,     \* those whose messages are not governed by the code
    F,          \* bba.f
    Scenarios,  \* what ACS and the faulty nodes may do, see InputAssumption
    MaxRound    \* no node is followed beyond this round

VARIABLES
    scenario,            \* the member of Scenarios that applies
    round, est, done,
    decisions,           \* values put on the binary channel
    binValueSet, broadcastedBvalSet, auxBroadcasted,
    bvalRepo, auxRepo,   \* first BVAL and first AUX of each sender
    binValuePending, tryoutPending, advancePending,
    inputsTaken,         \* HandleInput calls of ACS that have returned
    inputPc,             \* where the current call is
    msgs

nodeVars == <<round, est, done, decisions, binValueSet, broadcastedBvalSet,
              auxBroadcasted>>
repoVars == <<bvalRepo, auxRepo>>
signalVars == <<binValuePending, tryoutPending, advancePending>>
inputVars == <<inputsTaken, inputPc>>
vars == <<scenario, nodeVars, repoVars, signalVars, inputVars, msgs>>

N == Cardinality(Nodes)
Correct == Nodes \ Faulty
Zero == 0
One == 1
Binary == {Zero, One}
Undefined == -1
Rounds == 1 .. MaxRound

\* Slips the runs detect: thresholds that are one F off.
BvalBroadcastThresholdLow == F
BinValueSetThresholdLow == F
TryoutAgreementThresholdLow == F + 1
TryoutAgreementThresholdAll == N
BvalBroadcastThreshold == F + 1
BinValueSetThreshold == 2 * F + 1
TryoutAgreementThreshold == N - F

Message == [type : {"bval", "aux"}, src : Nodes, round : Rounds,
            value : Binary]

ASSUME NodesAssumption ==
    /\ IsFiniteSet(Nodes)
    /\ Faulty \subseteq Nodes
    /\ F \in Nat
    /\ N > 3 * F
    /\ Cardinality(Faulty) <= F

\* inputs[i]: the values ACS passes to i's HandleInput, in order; faultyTo[i]:
\* messages faulty nodes may send to i.
ASSUME InputAssumption ==
    /\ MaxRound \in Nat \ {0}
    /\ \A c \in Scenarios :
        /\ c.inputs \in [Correct -> Seq(Binary)]
        /\ c.faultyTo \in [Correct -> SUBSET {m \in Message : m.src \in Faulty}]

Entry == [src : Nodes, value : Binary]

\* Slip: a second request of a sender is saved, too.
FindNothing(repo, sender) == FALSE
Find(repo, sender) == \E e \in repo : e.src = sender
Voters(repo, v) == {e.src : e \in {x \in repo : x.value = v}}
Count(repo, v) == Cardinality(Voters(repo, v))

Bval(i, r, v) == [type |-> "bval", src |-> i, round |-> r, value |-> v]
Aux(i, r, v) == [type |-> "aux", src |-> i, round |-> r, value |-> v]

\* mock.CoinGenerator: the same coin at every node.
Coin(r) == IF r % 2 # 0 THEN One ELSE Zero

\* Slip: the undefined state itself is read.
EstValueRaw(i) == est[i]

\* BinaryState.Value: an undefined state reads as Zero.
EstValue(i) == IF est[i] = Undefined THEN Zero ELSE est[i]

\* muxMessage hands m to its handler: older rounds are dropped, newer ones kept
\* for later.
Current(i, m) == m.round = round[i]

-----------------------------------------------------------------------------
Init ==
    /\ scenario \in Scenarios
    /\ round = [i \in Correct |-> 1]
    /\ est = [i \in Correct |-> Undefined]
    /\ done = [i \in Correct |-> FALSE]
    /\ decisions = [i \in Correct |-> {}]
    /\ binValueSet = [i \in Correct |-> {}]
    /\ broadcastedBvalSet = [i \in Correct |-> {}]
    /\ auxBroadcasted = [i \in Correct |-> FALSE]
    /\ bvalRepo = [i \in Correct |-> {}]
    /\ auxRepo = [i \in Correct |-> {}]
    /\ binValuePending = [i \in Correct |-> FALSE]
    /\ tryoutPending = [i \in Correct |-> FALSE]
    /\ advancePending = [i \in Correct |-> FALSE]
    /\ inputsTaken = [i \in Correct |-> 0]
    /\ inputPc = [i \in Correct |-> "none"]
    /\ msgs = {}

Inputs == scenario.inputs

Idle(i) == round[i] = 1 /\ est[i] = Undefined

NextInput(i) == Inputs[i][inputsTaken[i] + 1]

\* A node is given a value when HandleInput sets est to it.
Taken(i) == inputsTaken[i] + (IF inputPc[i] = "broadcast" THEN 1 ELSE 0)
Given == [i \in Correct |-> {Inputs[i][k] : k \in 1 .. Taken(i)}]

\* ACS calls HandleInput in its own goroutine, at whatever round the run loop
\* has reached.  sendZeroToIdleBba looks at Idle before it passes Zero ...
CallHandleInput(i) ==
    /\ inputPc[i] = "none"
    /\ inputsTaken[i] < Len(Inputs[i])
    /\ NextInput(i) = Zero => Idle(i)
    /\ inputPc' = [inputPc EXCEPT ![i] = "set"]
    /\ UNCHANGED <<nodeVars, repoVars, signalVars, inputsTaken, msgs>>

\* ... HandleInput sets est ...
SetInput(i) ==
    /\ inputPc[i] = "set"
    /\ inputPc' = [inputPc EXCEPT ![i] = "broadcast"]
    /\ est' = [est EXCEPT ![i] = NextInput(i)]
    /\ UNCHANGED <<round, done, decisions, binValueSet, broadcastedBvalSet,
                   auxBroadcasted, repoVars, signalVars, inputsTaken, msgs>>

\* ... and the BVAL leaves with the round of that moment.
BroadcastInput(i) ==
    /\ inputPc[i] = "broadcast"
    /\ inputPc' = [inputPc EXCEPT ![i] = "none"]
    /\ inputsTaken' = [inputsTaken EXCEPT ![i] = @ + 1]
    /\ msgs' = msgs \cup {Bval(i, round[i], NextInput(i))}
    /\ UNCHANGED <<nodeVars, repoVars, signalVars>>

\* A second BVAL of a sender is not saved, and what it counts has been acted
\* upon when it was reached, so only a first one changes anything.
HandleBvalRequest(i, m) ==
    /\ m.type = "bval"
    /\ Current(i, m)
    /\ ~ Find(bvalRepo[i], m.src)
    /\ LET repo == bvalRepo[i] \cup {[src |-> m.src, value |-> m.value]}
           count == Count(repo, m.value)
       IN  /\ bvalRepo' = [bvalRepo EXCEPT ![i] = repo]
           /\ IF count = BinValueSetThreshold
              THEN /\ binValueSet' = [binValueSet EXCEPT ![i] = @ \cup {m.value}]
                   /\ binValuePending' = [binValuePending EXCEPT ![i] = TRUE]
              ELSE UNCHANGED <<binValueSet, binValuePending>>
           /\ IF /\ count = BvalBroadcastThreshold
                 /\ count # BinValueSetThreshold
                 /\ m.value \notin broadcastedBvalSet[i]
              THEN /\ broadcastedBvalSet' =
                        [broadcastedBvalSet EXCEPT ![i] = @ \cup {m.value}]
                   /\ msgs' = msgs \cup {Bval(i, round[i], m.value)}
              ELSE UNCHANGED <<broadcastedBvalSet, msgs>>
    /\ UNCHANGED <<round, est, done, decisions, auxBroadcasted, auxRepo,
                   tryoutPending, advancePending, inputVars>>

\* The first AUX of a sender is saved; any AUX that counts N-F saved ones
\* with its value raises the signal.
HandleAuxRequest(i, m) ==
    /\ m.type = "aux"
    /\ Current(i, m)
    /\ LET repo == IF Find(auxRepo[i], m.src) THEN auxRepo[i]
                   ELSE auxRepo[i] \cup {[src |-> m.src, value |-> m.value]}
       IN  /\ auxRepo' = [auxRepo EXCEPT ![i] = repo]
           /\ tryoutPending' = [tryoutPending EXCEPT ![i] =
                  @ \/ Count(repo, m.value) >= TryoutAgreementThreshold]
    /\ UNCHANGED <<nodeVars, bvalRepo, binValuePending, advancePending,
                   inputVars, msgs>>

\* A binValueChan signal: broadcastAuxOnceForRound.  handleDelayedAuxRequest
\* only gives back AUXs that have not been handled.
BroadcastAux(i) ==
    /\ binValuePending[i]
    /\ binValuePending' = [binValuePending EXCEPT ![i] = FALSE]
    /\ auxBroadcasted' = [auxBroadcasted EXCEPT ![i] = TRUE]
    /\ msgs' = IF auxBroadcasted[i] THEN msgs
               ELSE msgs \cup {Aux(i, round[i], v) : v \in binValueSet[i]}
    /\ UNCHANGED <<round, est, done, decisions, binValueSet,
                   broadcastedBvalSet, repoVars, tryoutPending,
                   advancePending, inputVars>>

AgreementFailed(i, v) ==
    /\ est' = [est EXCEPT ![i] = v]
    /\ advancePending' = [advancePending EXCEPT ![i] = TRUE]
    /\ UNCHANGED <<done, decisions>>

\* est keeps its value.
AgreementSuccess(i, v) ==
    /\ done' = [done EXCEPT ![i] = TRUE]
    /\ decisions' = [decisions EXCEPT ![i] = @ \cup {v}]
    /\ advancePending' = [advancePending EXCEPT ![i] = TRUE]
    /\ UNCHANGED est

\* A tryoutAgreementChan signal.
TryoutAgreement(i) ==
    LET coin == Coin(round[i]) IN
    /\ tryoutPending[i]
    /\ tryoutPending' = [tryoutPending EXCEPT ![i] = FALSE]
    /\ \/ /\ done[i] \/ binValueSet[i] = {}
          /\ UNCHANGED <<est, done, decisions, advancePending>>
       \/ /\ ~ done[i]
          /\ Cardinality(binValueSet[i]) > 1
          /\ AgreementFailed(i, coin)
       \/ /\ ~ done[i]
          /\ \E v \in Binary : /\ binValueSet[i] = {v}
                               /\ IF v = coin THEN AgreementSuccess(i, v)
                                              ELSE AgreementFailed(i, v)
    /\ UNCHANGED <<round, binValueSet, broadcastedBvalSet, auxBroadcasted,
                   repoVars, binValuePending, inputVars, msgs>>

\* Slip: the AUXs of the old round are kept.
AdvanceRoundKeepsAux(i) ==
    /\ advancePending[i]
    /\ round[i] < MaxRound
    /\ round' = [round EXCEPT ![i] = @ + 1]
    /\ est' = [est EXCEPT ![i] = EstValue(i)]
    /\ bvalRepo' = [bvalRepo EXCEPT ![i] = {}]
    /\ binValueSet' = [binValueSet EXCEPT ![i] = {}]
    /\ broadcastedBvalSet' = [broadcastedBvalSet EXCEPT ![i] = {}]
    /\ auxBroadcasted' = [auxBroadcasted EXCEPT ![i] = FALSE]
    /\ binValuePending' = [binValuePending EXCEPT ![i] = FALSE]
    /\ tryoutPending' = [tryoutPending EXCEPT ![i] = FALSE]
    /\ advancePending' = [advancePending EXCEPT ![i] = FALSE]
    /\ msgs' = msgs \cup {Bval(i, round[i] + 1, EstValue(i))}
    /\ UNCHANGED <<done, decisions, auxRepo, inputVars>>

\* An advanceRoundChan signal: everything of the old round is dropped, its
\* waiting signals too, and est, if never set, becomes Zero.
AdvanceRound(i) ==
    /\ advancePending[i]
    /\ round[i] < MaxRound
    /\ round' = [round EXCEPT ![i] = @ + 1]
    /\ est' = [est EXCEPT ![i] = EstValue(i)]
    /\ bvalRepo' = [bvalRepo EXCEPT ![i] = {}]
    /\ auxRepo' = [auxRepo EXCEPT ![i] = {}]
    /\ binValueSet' = [binValueSet EXCEPT ![i] = {}]
    /\ broadcastedBvalSet' = [broadcastedBvalSet EXCEPT ![i] = {}]
    /\ auxBroadcasted' = [auxBroadcasted EXCEPT ![i] = FALSE]
    /\ binValuePending' = [binValuePending EXCEPT ![i] = FALSE]
    /\ tryoutPending' = [tryoutPending EXCEPT ![i] = FALSE]
    /\ advancePending' = [advancePending EXCEPT ![i] = FALSE]
    /\ msgs' = msgs \cup {Bval(i, round[i] + 1, EstValue(i))}
    /\ UNCHANGED <<done, decisions, inputVars>>

Handle(i, m) == HandleBvalRequest(i, m) \/ HandleAuxRequest(i, m)

NodeStep(i) ==
    \/ CallHandleInput(i)
    \/ SetInput(i)
    \/ BroadcastInput(i)
    \/ \E m \in msgs \cup scenario.faultyTo[i] : Handle(i, m)
    \/ BroadcastAux(i)
    \/ TryoutAgreement(i)
    \/ AdvanceRound(i)

Next == (\E i \in Correct : NodeStep(i)) /\ UNCHANGED scenario

Spec == Init /\ [][Next]_vars

-----------------------------------------------------------------------------
(* Properties.                                                             *)

\* The shape of every variable; a correct node sends in its own name only and
\* never for a round it has not reached (bba.go: BBA, broadcast).
TypeOK ==
    /\ scenario \in Scenarios
    /\ round \in [Correct -> Rounds]
    /\ est \in [Correct -> Binary \cup {Undefined}]
    /\ done \in [Correct -> BOOLEAN]
    /\ decisions \in [Correct -> SUBSET Binary]
    /\ binValueSet \in [Correct -> SUBSET Binary]
    /\ broadcastedBvalSet \in [Correct -> SUBSET Binary]
    /\ auxBroadcasted \in [Correct -> BOOLEAN]
    /\ bvalRepo \in [Correct -> SUBSET Entry]
    /\ auxRepo \in [Correct -> SUBSET Entry]
    /\ binValuePending \in [Correct -> BOOLEAN]
    /\ tryoutPending \in [Correct -> BOOLEAN]
    /\ advancePending \in [Correct -> BOOLEAN]
    /\ inputsTaken \in [Correct -> Nat]
    /\ inputPc \in [Correct -> {"none", "set", "broadcast"}]
    /\ msgs \subseteq {m \in Message : m.src \in Correct /\ m.round <= round[m.src]}

\* A node that has decided stays in that round or the next one.
DecisionRound(i) == IF advancePending[i] THEN round[i] ELSE round[i] - 1

\* Agreement, and what it rests on from round to round: a correct node that
\* leaves the round of another one's decision undecided carries the decided
\* value, although tryoutAgreement compares AUX counts and binValueSet of
\* different moments (bba.go: handleAuxRequest, tryoutAgreement).
Settled ==
    \A i, j \in Correct : \A v \in decisions[i] :
        /\ \A w \in decisions[j] : v = w
        /\ (~ done[j] /\ round[j] > DecisionRound(i)) => est[j] = v

\* The correct nodes that have broadcast a message.
BvalSenders(sent, r, v) == {j \in Correct : Bval(j, r, v) \in sent}
AuxSenders(sent, r, v) == {j \in Correct : Aux(j, r, v) \in sent}

\* A decision for v comes from a round whose coin is v, in which F+1 correct
\* nodes have broadcast BVAL(v) and N-2F correct nodes have broadcast an AUX for
\* one value: stale signals and requests of other rounds never help to decide.
\* One is decided only if ACS has given it to a correct node (bba.go: run,
\* tryoutAgreement; binary.go: Value; acs.go:254).
DecisionBacked ==
    \A i \in Correct : \A v \in decisions[i] :
        /\ \E r \in 1 .. round[i] :
              /\ Coin(r) = v
              /\ Cardinality(BvalSenders(msgs, r, v)) >= F + 1
              /\ \E w \in Binary : Cardinality(AuxSenders(msgs, r, w)) >= N - 2 * F
        /\ v = One => \E j \in Correct : One \in Given[j]

\* What a correct node tells in an AUX has been broadcast as a BVAL of that round
\* by F+1 correct nodes (docs/BBA-EN.md:35, BV-justification).
AuxBacked ==
    \A m \in msgs : m.type = "aux" =>
        Cardinality(BvalSenders(msgs, m.round, m.value)) >= F + 1

\* A correct node shares at most one AUX in a round if a sender's first BVAL is
\* the only one that counts and 2(2F+1) > N: it never tells two values apart.
OneAux ==
    \A m1, m2 \in msgs :
        /\ m1.type = "aux"
        /\ m2.type = "aux"
        /\ m1.src = m2.src
        /\ m1.round = m2.round
        => m1 = m2

\* Nothing is left for i to do: no call of ACS, no signal and no message of a
\* correct node that its run loop would save.
AtRest(i) ==
    /\ inputPc[i] = "none"
    /\ inputsTaken[i] < Len(Inputs[i]) => NextInput(i) = Zero /\ ~ Idle(i)
    /\ ~ binValuePending[i]
    /\ ~ tryoutPending[i]
    /\ advancePending[i] => round[i] = MaxRound
    /\ \A m \in msgs : Current(i, m) =>
          Find(IF m.type = "bval" THEN bvalRepo[i] ELSE auxRepo[i], m.src)

Unanimous(v) == \A i \in Correct : Inputs[i] = <<v>>

\* No faulty node shares an AUX for v.
Unhelped(v) ==
    \A i \in Correct : \A m \in scenario.faultyTo[i] : m.type = "aux" => m.value # v

\* With one input value among the correct nodes, the network never comes to rest
\* with a correct node undecided, whatever the faulty nodes have said against it
\* and although AUXs are counted per value, only first ones are kept and signals
\* are dropped.  With an AUX of a faulty node for the value, a node may leave the
\* round without one of its own, and the others wait for that
\* (docs/BBA-EN.md:18; bba.go: run, handleAuxRequest, tryoutAgreement).
DecidedAtRest ==
    \A v \in Binary :
        (/\ Unanimous(v)
         /\ Unhelped(v)
         /\ MaxRound >= 2
         /\ \A i \in Correct : AtRest(i))
        => \A i \in Correct : decisions[i] # {}

-----------------------------------------------------------------------------
(* What the documents say and some instance refutes.                       *)

\* No two correct nodes decide different values (docs/BBA-EN.md:16-17); the
\* estimate a decided node starts the next round with may be the other value.
Agreement ==
    \A i, j \in Correct : \A v \in decisions[i], w \in decisions[j] : v = w
=============================================================================
