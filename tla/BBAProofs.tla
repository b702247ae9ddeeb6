----------------------------- MODULE BBAProofs -----------------------------
(* Proofs about BBA for every network, every input and every set of        *)
(* messages of the faulty nodes that meet the assumptions of BBA.          *)
EXTENDS BBAImplementsBA, FiniteSetTheorems, TLAPS

LEMMA NodesFinite ==
    /\ N \in Nat
    /\ IsFiniteSet(Nodes)
    /\ IsFiniteSet(Correct)
    /\ IsFiniteSet(Faulty)
    /\ Cardinality(Faulty) \in Nat
<1>1. N \in Nat /\ IsFiniteSet(Nodes)
  BY NodesAssumption, FS_CardinalityType DEF N
<1>2. IsFiniteSet(Faulty) /\ IsFiniteSet(Correct)
  BY <1>1, NodesAssumption, FS_Subset DEF Correct
<1>. QED
  BY <1>1, <1>2, FS_CardinalityType

\* A set of correct nodes that grows does not lose members.
LEMMA SpeakersGrow ==
    ASSUME NEW S, NEW T, S \subseteq T, T \subseteq Correct
    PROVE  /\ Cardinality(S) \in Nat
           /\ Cardinality(T) \in Nat
           /\ Cardinality(S) <= Cardinality(T)
<1>1. IsFiniteSet(S) /\ IsFiniteSet(T)
  BY NodesFinite, FS_Subset
<1>. QED
  BY <1>1, FS_Subset, FS_CardinalityType

\* Saving more requests never lowers a count.
LEMMA CountGrows ==
    ASSUME NEW small, NEW large, small \subseteq large,
           \A e \in large : e.src \in Nodes, NEW v
    PROVE  /\ Voters(large, v) \subseteq Nodes
           /\ Count(small, v) \in Nat
           /\ Count(large, v) \in Nat
           /\ Count(small, v) <= Count(large, v)
<1>1. /\ Voters(small, v) \subseteq Voters(large, v)
      /\ Voters(large, v) \subseteq Nodes
  BY DEF Voters
<1>2. IsFiniteSet(Voters(large, v)) /\ IsFiniteSet(Voters(small, v))
  BY <1>1, NodesFinite, FS_Subset
<1>. QED
  BY <1>1, <1>2, FS_Subset, FS_CardinalityType DEF Count

\* Of K voters at least K-F are correct.
LEMMA CorrectVoters ==
    ASSUME NEW repo, \A e \in repo : e.src \in Nodes, NEW v, NEW K \in Int,
           Count(repo, v) >= K, NEW T, T \subseteq Correct,
           \A e \in repo : e.src \in Correct /\ e.value = v => e.src \in T
    PROVE  Cardinality(T) >= K - F
<1>. DEFINE Q == Voters(repo, v)
<1>1. Q \subseteq Nodes /\ Cardinality(Q) >= K
  BY CountGrows DEF Count
<1>2. Q \ Faulty \subseteq T
  BY DEF Voters, Correct
<1>. HIDE DEF Q
<1>3. IsFiniteSet(Q) /\ Cardinality(Q) \in Nat
  BY <1>1, NodesFinite, FS_Subset, FS_CardinalityType
<1>4. Cardinality(Q \ Faulty) = Cardinality(Q) - Cardinality(Q \cap Faulty)
  BY <1>3, FS_Difference
<1>5. /\ Cardinality(Q \cap Faulty) <= Cardinality(Faulty)
      /\ Cardinality(Q \cap Faulty) \in Nat
  BY <1>3, NodesFinite, FS_Intersection, FS_CardinalityType
<1>6. /\ Cardinality(Q \ Faulty) <= Cardinality(T)
      /\ Cardinality(Q \ Faulty) \in Nat
      /\ Cardinality(T) \in Nat
  BY <1>2, SpeakersGrow
<1>. QED
  BY <1>1, <1>3, <1>4, <1>5, <1>6, NodesFinite, NodesAssumption

-----------------------------------------------------------------------------
(* The inductive invariant.                                                *)

\* A call of ACS that is under way has an input.
CallOpen ==
    \A i \in Correct : inputPc[i] # "none" => inputsTaken[i] < Len(Inputs[i])

\* A sender has one BVAL in the repository.
FirstOnly ==
    \A i \in Correct : \A e1, e2 \in bvalRepo[i] :
        e1.src = e2.src => e1 = e2

\* What is saved of a correct node it has broadcast in this round.
EntriesSent ==
    \A i \in Correct :
        /\ \A e \in bvalRepo[i] :
              e.src \in Correct => Bval(e.src, round[i], e.value) \in msgs
        /\ \A e \in auxRepo[i] :
              e.src \in Correct => Aux(e.src, round[i], e.value) \in msgs

\* The signals and sets of a round rest on the counts of that round.
CountsReached ==
    \A i \in Correct :
        /\ \A v \in binValueSet[i] : Count(bvalRepo[i], v) >= 2 * F + 1
        /\ tryoutPending[i] => \E w \in Binary : Count(auxRepo[i], w) >= N - F

\* An AUX of the current round is remembered.
AuxMarked ==
    \A m \in msgs :
        (m.type = "aux" /\ m.round = round[m.src]) => auxBroadcasted[m.src]

\* The round of a decision, the first part of DecisionBacked.
RoundBacked ==
    \A i \in Correct : \A v \in decisions[i] : \E r \in 1 .. round[i] :
        /\ Coin(r) = v
        /\ Cardinality(BvalSenders(msgs, r, v)) >= F + 1
        /\ \E w \in Binary : Cardinality(AuxSenders(msgs, r, w)) >= N - 2 * F

IInv ==
    /\ TypeOK
    /\ CallOpen
    /\ FirstOnly
    /\ EntriesSent
    /\ CountsReached
    /\ AuxMarked
    /\ AuxBacked
    /\ RoundBacked

LEMMA InitIInv == Init => IInv
<1>. SUFFICES ASSUME Init PROVE IInv
  OBVIOUS
<1>1. TypeOK
  BY InputAssumption DEF Init, TypeOK, Rounds
<1>2. CallOpen /\ FirstOnly /\ EntriesSent /\ CountsReached
  BY DEF Init, CallOpen, FirstOnly, EntriesSent, CountsReached
<1>3. AuxMarked /\ AuxBacked /\ RoundBacked
  BY DEF Init, AuxMarked, AuxBacked, RoundBacked
<1>. QED
  BY <1>1, <1>2, <1>3 DEF IInv

\* The input a call passes.
LEMMA InputValue ==
    ASSUME IInv, NEW i \in Correct, inputPc[i] # "none"
    PROVE  NextInput(i) \in Binary
<1>1. Inputs[i] \in Seq(Binary)
  BY InputAssumption DEF IInv, TypeOK, Inputs
<1>2. inputsTaken[i] \in Nat /\ inputsTaken[i] < Len(Inputs[i])
  BY DEF IInv, TypeOK, CallOpen
<1>3. inputsTaken[i] + 1 \in 1 .. Len(Inputs[i])
  BY <1>1, <1>2
<1>. QED
  BY <1>1, <1>3 DEF NextInput

\* A message that reaches a handler.
LEMMA HandledMessage ==
    ASSUME TypeOK, NEW i \in Correct, NEW m \in msgs \cup scenario.faultyTo[i]
    PROVE  /\ m \in Message
           /\ m.src \in Nodes
           /\ m.value \in Binary
           /\ m.type = "bval" => m = Bval(m.src, m.round, m.value)
           /\ m.type = "aux" => m = Aux(m.src, m.round, m.value)
           /\ m.src \in Correct => m \in msgs
<1>1. m \in Message /\ (m.src \in Correct => m \in msgs)
  BY InputAssumption DEF TypeOK, Correct
<1>. QED
  BY <1>1 DEF Message, Bval, Aux

\* A node's messages are of a round it has reached.
LEMMA OwnMessages ==
    ASSUME TypeOK, NEW i \in Correct, NEW v \in Binary
    PROVE  /\ Bval(i, round[i], v) \in Message
           /\ Aux(i, round[i], v) \in Message
           /\ round[i] \in Nat
BY InputAssumption DEF TypeOK, Message, Bval, Aux, Rounds, Correct

-----------------------------------------------------------------------------
(* Facts that only need the messages to grow.                              *)

\* Who has broadcast something has done so for good.
LEMMA SendersGrow ==
    ASSUME msgs \subseteq msgs', NEW r, NEW v
    PROVE  /\ Cardinality(BvalSenders(msgs, r, v))
                 <= Cardinality(BvalSenders(msgs', r, v))
           /\ Cardinality(AuxSenders(msgs, r, v))
                 <= Cardinality(AuxSenders(msgs', r, v))
           /\ Cardinality(BvalSenders(msgs, r, v)) \in Nat
           /\ Cardinality(BvalSenders(msgs', r, v)) \in Nat
           /\ Cardinality(AuxSenders(msgs, r, v)) \in Nat
           /\ Cardinality(AuxSenders(msgs', r, v)) \in Nat
<1>1. /\ BvalSenders(msgs, r, v) \subseteq BvalSenders(msgs', r, v)
      /\ AuxSenders(msgs, r, v) \subseteq AuxSenders(msgs', r, v)
      /\ BvalSenders(msgs', r, v) \subseteq Correct
      /\ AuxSenders(msgs', r, v) \subseteq Correct
  BY DEF BvalSenders, AuxSenders
<1>. QED
  BY <1>1, SpeakersGrow

LEMMA AuxBackedGrows ==
    ASSUME AuxBacked, msgs \subseteq msgs',
           \A m \in msgs' : m \in msgs \/ m.type = "bval"
    PROVE  AuxBacked'
<1>. SUFFICES ASSUME NEW m \in msgs', m.type = "aux"
              PROVE  Cardinality(BvalSenders(msgs', m.round, m.value)) >= F + 1
  BY DEF AuxBacked
<1>1. Cardinality(BvalSenders(msgs, m.round, m.value)) >= F + 1
  BY DEF AuxBacked
<1>. QED
  BY <1>1, SendersGrow, NodesAssumption

LEMMA DecisionsGrow ==
    ASSUME RoundBacked, TypeOK, msgs \subseteq msgs', UNCHANGED decisions,
           \A i \in Correct : round[i] <= round'[i] /\ round'[i] \in Nat
    PROVE  RoundBacked'
<1>. SUFFICES ASSUME NEW i \in Correct, NEW v \in decisions[i]
              PROVE  \E r \in 1 .. round'[i] :
                /\ Coin(r) = v
                /\ Cardinality(BvalSenders(msgs', r, v)) >= F + 1
                /\ \E w \in Binary :
                      Cardinality(AuxSenders(msgs', r, w)) >= N - 2 * F
  BY DEF RoundBacked
<1>1. PICK r \in 1 .. round[i] :
        /\ Coin(r) = v
        /\ Cardinality(BvalSenders(msgs, r, v)) >= F + 1
        /\ \E w \in Binary : Cardinality(AuxSenders(msgs, r, w)) >= N - 2 * F
  BY DEF RoundBacked
<1>2. PICK w \in Binary : Cardinality(AuxSenders(msgs, r, w)) >= N - 2 * F
  BY <1>1
<1>3. r \in 1 .. round'[i]
  <2>1. round[i] \in Nat /\ round'[i] \in Nat /\ round[i] <= round'[i]
    BY DEF TypeOK, Rounds
  <2>. QED
    BY <2>1
<1>4. Cardinality(BvalSenders(msgs', r, v)) >= F + 1
  BY <1>1, SendersGrow, NodesAssumption
<1>5. Cardinality(AuxSenders(msgs', r, w)) >= N - 2 * F
  BY <1>2, SendersGrow, NodesAssumption, NodesFinite
<1>. QED
  BY <1>1, <1>3, <1>4, <1>5

-----------------------------------------------------------------------------
(* One lemma for each action.                                              *)

LEMMA CallIInv ==
    ASSUME IInv, NEW i \in Correct, CallHandleInput(i), UNCHANGED scenario
    PROVE  IInv'
<1>1. /\ UNCHANGED <<round, est, done, decisions, binValueSet, broadcastedBvalSet,
                     auxBroadcasted, bvalRepo, auxRepo, binValuePending,
                     tryoutPending, advancePending, inputsTaken, msgs>>
      /\ inputPc' = [inputPc EXCEPT ![i] = "set"]
      /\ inputsTaken[i] < Len(Inputs[i])
      /\ Inputs' = Inputs
  BY DEF CallHandleInput, nodeVars, repoVars, signalVars, Inputs
<1>2. TypeOK'
  BY <1>1 DEF IInv, TypeOK
<1>3. CallOpen'
  BY <1>1 DEF IInv, TypeOK, CallOpen
<1>. QED
  BY <1>1, <1>2, <1>3 DEF IInv, FirstOnly, EntriesSent, CountsReached,
                          AuxMarked, AuxBacked, RoundBacked

LEMMA SetIInv ==
    ASSUME IInv, NEW i \in Correct, SetInput(i), UNCHANGED scenario
    PROVE  IInv'
<1>1. /\ UNCHANGED <<round, done, decisions, binValueSet, broadcastedBvalSet,
                     auxBroadcasted, bvalRepo, auxRepo, binValuePending,
                     tryoutPending, advancePending, inputsTaken, msgs>>
      /\ inputPc[i] # "none"
      /\ inputPc' = [inputPc EXCEPT ![i] = "broadcast"]
      /\ est' = [est EXCEPT ![i] = NextInput(i)]
      /\ Inputs' = Inputs
  BY DEF SetInput, repoVars, signalVars, Inputs
<1>2. NextInput(i) \in Binary
  BY <1>1, InputValue
<1>3. TypeOK'
  BY <1>1, <1>2 DEF IInv, TypeOK
<1>4. CallOpen'
  BY <1>1 DEF IInv, TypeOK, CallOpen
<1>. QED
  BY <1>1, <1>3, <1>4 DEF IInv, FirstOnly, EntriesSent, CountsReached,
                          AuxMarked, AuxBacked, RoundBacked

LEMMA BroadcastIInv ==
    ASSUME IInv, NEW i \in Correct, BroadcastInput(i), UNCHANGED scenario
    PROVE  IInv'
<1>1. /\ UNCHANGED <<round, est, done, decisions, binValueSet, broadcastedBvalSet,
                     auxBroadcasted, bvalRepo, auxRepo, binValuePending,
                     tryoutPending, advancePending>>
      /\ inputPc[i] # "none"
      /\ inputPc' = [inputPc EXCEPT ![i] = "none"]
      /\ inputsTaken' = [inputsTaken EXCEPT ![i] = @ + 1]
      /\ msgs' = msgs \cup {Bval(i, round[i], NextInput(i))}
      /\ Inputs' = Inputs
  BY DEF BroadcastInput, nodeVars, repoVars, signalVars, Inputs
<1>2. NextInput(i) \in Binary
  BY <1>1, InputValue
<1>3. TypeOK'
  <2>1. msgs' \subseteq {m \in Message : m.src \in Correct /\ m.round <= round[m.src]}
    BY <1>1, <1>2, OwnMessages DEF IInv, TypeOK, Bval
  <2>. QED
    BY <1>1, <2>1 DEF IInv, TypeOK
<1>4. CallOpen'
  BY <1>1 DEF IInv, TypeOK, CallOpen
<1>5. FirstOnly' /\ EntriesSent' /\ CountsReached'
  BY <1>1 DEF IInv, FirstOnly, EntriesSent, CountsReached
<1>6. AuxMarked'
  BY <1>1 DEF IInv, AuxMarked, Bval
<1>7. AuxBacked' /\ RoundBacked'
  <2>1. \A m \in msgs' : m \in msgs \/ m.type = "bval"
    BY <1>1 DEF Bval
  <2>2. \A j \in Correct : round[j] <= round'[j] /\ round'[j] \in Nat
    BY <1>1 DEF IInv, TypeOK, Rounds
  <2>. QED
    BY <1>1, <2>1, <2>2, AuxBackedGrows, DecisionsGrow DEF IInv
<1>. QED
  BY <1>3, <1>4, <1>5, <1>6, <1>7 DEF IInv

LEMMA BvalIInv ==
    ASSUME IInv, NEW i \in Correct, NEW m \in msgs \cup scenario.faultyTo[i],
           HandleBvalRequest(i, m), UNCHANGED scenario
    PROVE  IInv'
<1>. DEFINE entry == [src |-> m.src, value |-> m.value]
            repo == bvalRepo[i] \cup {entry}
            count == Count(repo, m.value)
<1>1. /\ UNCHANGED <<round, est, done, decisions, auxBroadcasted, auxRepo,
                     tryoutPending, advancePending, inputsTaken, inputPc>>
      /\ m.type = "bval"
      /\ m.round = round[i]
      /\ \A e \in bvalRepo[i] : e.src # m.src
      /\ bvalRepo' = [bvalRepo EXCEPT ![i] = repo]
      /\ Inputs' = Inputs
  BY DEF HandleBvalRequest, Current, Find, inputVars, Inputs
<1>2. /\ m.src \in Nodes
      /\ m.value \in Binary
      /\ m.src \in Correct => Bval(m.src, round[i], m.value) \in msgs
  BY <1>1, HandledMessage DEF IInv
<1>3. /\ bvalRepo' \in [Correct -> SUBSET Entry]
      /\ bvalRepo'[i] = repo
      /\ \A j \in Correct : j # i => bvalRepo'[j] = bvalRepo[j]
      /\ \A j \in Correct : \A e \in bvalRepo'[j] : e.src \in Nodes
      /\ \A j \in Correct : bvalRepo[j] \subseteq bvalRepo'[j]
  BY <1>1, <1>2 DEF IInv, TypeOK, Entry
<1>4. \/ UNCHANGED <<binValueSet, binValuePending>>
      \/ /\ count = 2 * F + 1
         /\ binValueSet' = [binValueSet EXCEPT ![i] = @ \cup {m.value}]
         /\ binValuePending' = [binValuePending EXCEPT ![i] = TRUE]
  BY DEF HandleBvalRequest, BinValueSetThreshold
<1>5. \/ UNCHANGED <<broadcastedBvalSet, msgs>>
      \/ /\ broadcastedBvalSet' =
                [broadcastedBvalSet EXCEPT ![i] = @ \cup {m.value}]
         /\ msgs' = msgs \cup {Bval(i, round[i], m.value)}
  BY DEF HandleBvalRequest
<1>6. TypeOK'
  <2>1. /\ binValueSet' \in [Correct -> SUBSET Binary]
        /\ binValuePending' \in [Correct -> BOOLEAN]
    <3>1. /\ binValueSet \in [Correct -> SUBSET Binary]
          /\ binValuePending \in [Correct -> BOOLEAN]
      BY DEF IInv, TypeOK
    <3>. HIDE DEF count
    <3>2. CASE UNCHANGED <<binValueSet, binValuePending>>
      BY <3>1, <3>2
    <3>3. CASE /\ binValueSet' = [binValueSet EXCEPT ![i] = @ \cup {m.value}]
               /\ binValuePending' = [binValuePending EXCEPT ![i] = TRUE]
      BY <1>2, <3>1, <3>3
    <3>. QED
      BY <1>4, <3>2, <3>3
  <2>2. broadcastedBvalSet' \in [Correct -> SUBSET Binary]
    BY <1>2, <1>5 DEF IInv, TypeOK
  <2>3. msgs' \subseteq {x \in Message : x.src \in Correct /\ x.round <= round[x.src]}
    BY <1>2, <1>5, OwnMessages DEF IInv, TypeOK, Bval
  <2>. QED
    BY <1>1, <1>3, <2>1, <2>2, <2>3 DEF IInv, TypeOK
<1>7. /\ msgs \subseteq msgs'
      /\ \A x \in msgs' : x \in msgs \/ x.type = "bval"
  BY <1>5 DEF Bval
<1>8. CallOpen'
  BY <1>1 DEF IInv, CallOpen
<1>9. FirstOnly'
  BY <1>1, <1>3 DEF IInv, FirstOnly
<1>10. EntriesSent'
  <2>1. ASSUME NEW j \in Correct, NEW e \in bvalRepo'[j], e.src \in Correct
        PROVE  Bval(e.src, round'[j], e.value) \in msgs'
    BY <1>1, <1>2, <1>3, <1>7, <2>1 DEF IInv, EntriesSent
  <2>2. ASSUME NEW j \in Correct, NEW e \in auxRepo'[j], e.src \in Correct
        PROVE  Aux(e.src, round'[j], e.value) \in msgs'
    BY <1>1, <1>7, <2>2 DEF IInv, EntriesSent
  <2>. QED
    BY <2>1, <2>2 DEF EntriesSent
<1>11. CountsReached'
  <2>1. ASSUME NEW j \in Correct, NEW v \in binValueSet'[j]
        PROVE  Count(bvalRepo'[j], v) >= 2 * F + 1
    <3>1. /\ Count(bvalRepo[j], v) \in Nat
          /\ Count(bvalRepo'[j], v) \in Nat
          /\ Count(bvalRepo[j], v) <= Count(bvalRepo'[j], v)
      BY <1>3, CountGrows
    <3>2. CASE v \in binValueSet[j]
      BY <3>1, <3>2, NodesAssumption DEF IInv, CountsReached
    <3>3. CASE v \notin binValueSet[j]
      <4>1. j = i /\ v = m.value /\ count = 2 * F + 1
        <5>. HIDE DEF count
        <5>1. binValueSet \in [Correct -> SUBSET Binary]
          BY DEF IInv, TypeOK
        <5>2. /\ count = 2 * F + 1
              /\ binValueSet' = [binValueSet EXCEPT ![i] = @ \cup {m.value}]
          BY <1>4, <2>1, <3>3
        <5>. QED
          BY <2>1, <3>3, <5>1, <5>2
      <4>2. bvalRepo'[j] = repo
        BY <1>3, <4>1
      <4>3. Count(bvalRepo'[j], v) = count
        BY <4>1, <4>2
      <4>4. count >= 2 * F + 1
        <5>. HIDE DEF count
        <5>. QED
          BY <4>1, NodesAssumption
      <4>. QED
        BY <4>3, <4>4
    <3>. QED
      BY <3>2, <3>3
  <2>. QED
    BY <1>1, <2>1 DEF IInv, CountsReached
<1>12. AuxMarked'
  BY <1>1, <1>7 DEF IInv, AuxMarked
<1>13. AuxBacked' /\ RoundBacked'
  <2>1. \A j \in Correct : round[j] <= round'[j] /\ round'[j] \in Nat
    BY <1>1 DEF IInv, TypeOK, Rounds
  <2>. QED
    BY <1>1, <1>7, <2>1, AuxBackedGrows, DecisionsGrow DEF IInv
<1>. QED
  BY <1>6, <1>8, <1>9, <1>10, <1>11, <1>12, <1>13 DEF IInv

LEMMA AuxIInv ==
    ASSUME IInv, NEW i \in Correct, NEW m \in msgs \cup scenario.faultyTo[i],
           HandleAuxRequest(i, m), UNCHANGED scenario
    PROVE  IInv'
<1>. DEFINE entry == [src |-> m.src, value |-> m.value]
            repo == IF Find(auxRepo[i], m.src) THEN auxRepo[i]
                    ELSE auxRepo[i] \cup {entry}
            enough == Count(repo, m.value) >= N - F
<1>1. /\ UNCHANGED <<round, est, done, decisions, binValueSet, broadcastedBvalSet,
                     auxBroadcasted, bvalRepo, binValuePending, advancePending,
                     inputsTaken, inputPc, msgs>>
      /\ m.type = "aux"
      /\ m.round = round[i]
      /\ auxRepo' = [auxRepo EXCEPT ![i] = repo]
      /\ tryoutPending' = [tryoutPending EXCEPT ![i] = @ \/ enough]
      /\ Inputs' = Inputs
  BY DEF HandleAuxRequest, Current, nodeVars, inputVars, Inputs,
         TryoutAgreementThreshold
<1>2. /\ m.src \in Nodes
      /\ m.value \in Binary
      /\ m.src \in Correct => Aux(m.src, round[i], m.value) \in msgs
  BY <1>1, HandledMessage DEF IInv
<1>3. repo \subseteq auxRepo[i] \cup {entry} /\ auxRepo[i] \subseteq repo
  OBVIOUS
<1>. HIDE DEF repo
<1>4. /\ auxRepo' \in [Correct -> SUBSET Entry]
      /\ auxRepo'[i] = repo
      /\ \A j \in Correct : j # i => auxRepo'[j] = auxRepo[j]
      /\ \A j \in Correct : \A e \in auxRepo'[j] : e.src \in Nodes
  BY <1>1, <1>2, <1>3 DEF IInv, TypeOK, Entry
<1>5. /\ tryoutPending' \in [Correct -> BOOLEAN]
      /\ \A j \in Correct : tryoutPending'[j] =>
             tryoutPending[j] \/ (j = i /\ enough)
  <2>1. tryoutPending \in [Correct -> BOOLEAN]
    BY DEF IInv, TypeOK
  <2>. HIDE DEF enough
  <2>2. tryoutPending' = [tryoutPending EXCEPT ![i] = tryoutPending[i] \/ enough]
    BY <1>1
  <2>. QED
    BY <2>1, <2>2, Zenon
<1>6. TypeOK'
  BY <1>1, <1>4, <1>5 DEF IInv, TypeOK
<1>7. CallOpen' /\ FirstOnly' /\ AuxMarked' /\ AuxBacked' /\ RoundBacked'
  BY <1>1 DEF IInv, CallOpen, FirstOnly, AuxMarked, AuxBacked, RoundBacked
<1>8. EntriesSent'
  <2>1. ASSUME NEW j \in Correct, NEW e \in auxRepo'[j], e.src \in Correct
        PROVE  Aux(e.src, round'[j], e.value) \in msgs'
    BY <1>1, <1>2, <1>3, <1>4, <2>1 DEF IInv, EntriesSent
  <2>. QED
    BY <1>1, <2>1 DEF IInv, EntriesSent
<1>9. CountsReached'
  <2>1. ASSUME NEW j \in Correct, tryoutPending'[j]
        PROVE  \E w \in Binary : Count(auxRepo'[j], w) >= N - F
    <3>1. CASE tryoutPending[j]
      <4>1. PICK w \in Binary : Count(auxRepo[j], w) >= N - F
        BY <3>1 DEF IInv, CountsReached
      <4>2. auxRepo[j] \subseteq auxRepo'[j]
        BY <1>3, <1>4
      <4>3. /\ Count(auxRepo[j], w) \in Nat
            /\ Count(auxRepo'[j], w) \in Nat
            /\ Count(auxRepo[j], w) <= Count(auxRepo'[j], w)
        BY <1>4, <4>2, CountGrows
      <4>. QED
        BY <4>1, <4>3, NodesAssumption, NodesFinite
    <3>2. CASE j = i /\ enough
      BY <1>2, <1>4, <3>2
    <3>. QED
      BY <1>5, <2>1, <3>1, <3>2
  <2>. QED
    BY <1>1, <2>1 DEF IInv, CountsReached
<1>. QED
  BY <1>6, <1>7, <1>8, <1>9 DEF IInv

LEMMA BroadcastAuxIInv ==
    ASSUME IInv, NEW i \in Correct, BroadcastAux(i), UNCHANGED scenario
    PROVE  IInv'
<1>1. /\ UNCHANGED <<round, est, done, decisions, binValueSet,
                     broadcastedBvalSet, bvalRepo, auxRepo, tryoutPending,
                     advancePending, inputsTaken, inputPc>>
      /\ binValuePending' = [binValuePending EXCEPT ![i] = FALSE]
      /\ auxBroadcasted' = [auxBroadcasted EXCEPT ![i] = TRUE]
      /\ msgs \subseteq msgs'
      /\ msgs' \subseteq msgs \cup {Aux(i, round[i], v) : v \in binValueSet[i]}
      /\ Inputs' = Inputs
  BY DEF BroadcastAux, repoVars, inputVars, Inputs
<1>2. /\ binValueSet[i] \subseteq Binary
      /\ \A v \in binValueSet[i] : Aux(i, round[i], v) \in Message
      /\ round[i] \in Nat
  BY OwnMessages DEF IInv, TypeOK, Rounds
<1>3. TypeOK'
  <2>1. msgs' \subseteq {x \in Message : x.src \in Correct /\ x.round <= round[x.src]}
    BY <1>1, <1>2 DEF IInv, TypeOK, Aux
  <2>. QED
    BY <1>1, <2>1 DEF IInv, TypeOK
<1>4. CallOpen' /\ FirstOnly' /\ EntriesSent' /\ CountsReached'
  BY <1>1 DEF IInv, CallOpen, FirstOnly, EntriesSent, CountsReached
<1>5. AuxMarked'
  <2>1. auxBroadcasted \in [Correct -> BOOLEAN]
    BY DEF IInv, TypeOK
  <2>2. \A x \in msgs' : x.src \in Correct /\ (x \in msgs \/ x.src = i)
    BY <1>1 DEF IInv, TypeOK, Aux
  <2>. QED
    BY <1>1, <2>1, <2>2 DEF IInv, AuxMarked
<1>6. \A r, v : BvalSenders(msgs', r, v) = BvalSenders(msgs, r, v)
  BY <1>1 DEF BvalSenders, Bval, Aux
<1>7. AuxBacked'
  <2>1. ASSUME NEW v \in binValueSet[i]
        PROVE  Cardinality(BvalSenders(msgs, round[i], v)) >= F + 1
    <3>1. Count(bvalRepo[i], v) >= 2 * F + 1
      BY DEF IInv, CountsReached
    <3>2. /\ \A e \in bvalRepo[i] : e.src \in Nodes
          /\ \A e \in bvalRepo[i] : e.src \in Correct /\ e.value = v =>
                e.src \in BvalSenders(msgs, round[i], v)
      BY DEF IInv, TypeOK, Entry, EntriesSent, BvalSenders, AuxSenders
    <3>3. 2 * F + 1 \in Int /\ (2 * F + 1) - F = F + 1
      BY NodesAssumption
    <3>4. BvalSenders(msgs, round[i], v) \subseteq Correct
      BY DEF BvalSenders, AuxSenders
    <3>. QED
      BY <3>1, <3>2, <3>3, <3>4, CorrectVoters
  <2>2. \A x \in msgs' : x.type = "aux" =>
          \/ x \in msgs
          \/ \E v \in binValueSet[i] : x.round = round[i] /\ x.value = v
    BY <1>1 DEF Aux
  <2>. QED
    BY <1>6, <2>1, <2>2 DEF IInv, AuxBacked
<1>8. RoundBacked'
  <2>1. \A j \in Correct : round[j] <= round'[j] /\ round'[j] \in Nat
    BY <1>1 DEF IInv, TypeOK, Rounds
  <2>. QED
    BY <1>1, <2>1, DecisionsGrow DEF IInv
<1>. QED
  BY <1>3, <1>4, <1>5, <1>7, <1>8 DEF IInv

LEMMA TryoutIInv ==
    ASSUME IInv, NEW i \in Correct, TryoutAgreement(i), UNCHANGED scenario
    PROVE  IInv'
<1>1. /\ UNCHANGED <<round, binValueSet, broadcastedBvalSet, auxBroadcasted,
                     bvalRepo, auxRepo, binValuePending, inputsTaken, inputPc,
                     msgs>>
      /\ tryoutPending[i]
      /\ tryoutPending' = [tryoutPending EXCEPT ![i] = FALSE]
      /\ Inputs' = Inputs
  BY DEF TryoutAgreement, repoVars, inputVars, Inputs
<1>2. Coin(round[i]) \in Binary
  BY DEF Coin, Binary
<1>3. \/ UNCHANGED <<est, done, decisions, advancePending>>
      \/ \E v \in Binary : AgreementFailed(i, v)
      \/ /\ binValueSet[i] = {Coin(round[i])}
         /\ AgreementSuccess(i, Coin(round[i]))
  BY <1>2 DEF TryoutAgreement
<1>4. TypeOK'
  <2>1. /\ est \in [Correct -> Binary \cup {Undefined}]
        /\ done \in [Correct -> BOOLEAN]
        /\ decisions \in [Correct -> SUBSET Binary]
        /\ advancePending \in [Correct -> BOOLEAN]
    BY DEF IInv, TypeOK
  <2>2. /\ est' \in [Correct -> Binary \cup {Undefined}]
        /\ done' \in [Correct -> BOOLEAN]
        /\ decisions' \in [Correct -> SUBSET Binary]
        /\ advancePending' \in [Correct -> BOOLEAN]
    <3>1. CASE UNCHANGED <<est, done, decisions, advancePending>>
      BY <2>1, <3>1
    <3>2. ASSUME NEW v \in Binary, AgreementFailed(i, v)
          PROVE  /\ est' \in [Correct -> Binary \cup {Undefined}]
                 /\ done' \in [Correct -> BOOLEAN]
                 /\ decisions' \in [Correct -> SUBSET Binary]
                 /\ advancePending' \in [Correct -> BOOLEAN]
      BY <2>1, <3>2 DEF AgreementFailed
    <3>3. CASE AgreementSuccess(i, Coin(round[i]))
      BY <1>2, <2>1, <3>3 DEF AgreementSuccess
    <3>. QED
      BY <1>3, <3>1, <3>2, <3>3
  <2>. QED
    BY <1>1, <2>2 DEF IInv, TypeOK
<1>5. CallOpen' /\ FirstOnly' /\ EntriesSent' /\ AuxMarked' /\ AuxBacked'
  BY <1>1 DEF IInv, CallOpen, FirstOnly, EntriesSent, AuxMarked, AuxBacked
<1>6. CountsReached'
  <2>1. tryoutPending \in [Correct -> BOOLEAN]
    BY DEF IInv, TypeOK
  <2>. QED
    BY <1>1, <2>1 DEF IInv, CountsReached
<1>7. RoundBacked'
  <2>. SUFFICES ASSUME NEW j \in Correct, NEW v \in decisions'[j]
                PROVE  \E r \in 1 .. round[j] :
                  /\ Coin(r) = v
                  /\ Cardinality(BvalSenders(msgs, r, v)) >= F + 1
                  /\ \E w \in Binary :
                        Cardinality(AuxSenders(msgs, r, w)) >= N - 2 * F
    BY <1>1 DEF RoundBacked
  <2>1. CASE v \in decisions[j]
    BY <2>1 DEF IInv, RoundBacked
  <2>2. CASE v \notin decisions[j]
    <3>1. /\ j = i
          /\ v = Coin(round[i])
          /\ v \in binValueSet[i]
      BY <1>3, <2>2 DEF AgreementFailed, AgreementSuccess, IInv, TypeOK
    <3>2. Cardinality(BvalSenders(msgs, round[i], v)) >= F + 1
      <4>1. Count(bvalRepo[i], v) >= 2 * F + 1
        BY <3>1 DEF IInv, CountsReached
      <4>2. /\ \A e \in bvalRepo[i] : e.src \in Nodes
            /\ \A e \in bvalRepo[i] : e.src \in Correct /\ e.value = v =>
                  e.src \in BvalSenders(msgs, round[i], v)
        BY DEF IInv, TypeOK, Entry, EntriesSent, BvalSenders, AuxSenders
      <4>3. 2 * F + 1 \in Int /\ (2 * F + 1) - F = F + 1
        BY NodesAssumption
      <4>4. BvalSenders(msgs, round[i], v) \subseteq Correct
        BY DEF BvalSenders, AuxSenders
      <4>. QED
        BY <4>1, <4>2, <4>3, <4>4, CorrectVoters
    <3>3. PICK w \in Binary : Count(auxRepo[i], w) >= N - F
      BY <1>1 DEF IInv, CountsReached
    <3>4. Cardinality(AuxSenders(msgs, round[i], w)) >= N - 2 * F
      <4>1. /\ \A e \in auxRepo[i] : e.src \in Nodes
            /\ \A e \in auxRepo[i] : e.src \in Correct /\ e.value = w =>
                  e.src \in AuxSenders(msgs, round[i], w)
        BY DEF IInv, TypeOK, Entry, EntriesSent, BvalSenders, AuxSenders
      <4>2. N - F \in Int /\ (N - F) - F = N - 2 * F
        BY NodesAssumption, NodesFinite
      <4>3. AuxSenders(msgs, round[i], w) \subseteq Correct
        BY DEF BvalSenders, AuxSenders
      <4>. QED
        BY <3>3, <4>1, <4>2, <4>3, CorrectVoters
    <3>5. round[i] \in 1 .. round[i]
      BY DEF IInv, TypeOK, Rounds
    <3>. QED
      BY <3>1, <3>2, <3>4, <3>5
  <2>. QED
    BY <2>1, <2>2
<1>. QED
  BY <1>4, <1>5, <1>6, <1>7 DEF IInv

LEMMA AdvanceIInv ==
    ASSUME IInv, NEW i \in Correct, AdvanceRound(i), UNCHANGED scenario
    PROVE  IInv'
<1>1. /\ round[i] < MaxRound
      /\ round' = [round EXCEPT ![i] = @ + 1]
      /\ est' = [est EXCEPT ![i] = EstValue(i)]
      /\ bvalRepo' = [bvalRepo EXCEPT ![i] = {}]
      /\ auxRepo' = [auxRepo EXCEPT ![i] = {}]
      /\ binValueSet' = [binValueSet EXCEPT ![i] = {}]
      /\ broadcastedBvalSet' = [broadcastedBvalSet EXCEPT ![i] = {}]
      /\ auxBroadcasted' = [auxBroadcasted EXCEPT ![i] = FALSE]
      /\ binValuePending' = [binValuePending EXCEPT ![i] = FALSE]
      /\ tryoutPending' = [tryoutPending EXCEPT ![i] = FALSE]
      /\ advancePending' = [advancePending EXCEPT ![i] = FALSE]
      /\ msgs' = msgs \cup {Bval(i, round[i] + 1, EstValue(i))}
      /\ UNCHANGED <<done, decisions, inputsTaken, inputPc>>
      /\ Inputs' = Inputs
  BY DEF AdvanceRound, inputVars, Inputs
<1>2. EstValue(i) \in Binary
  BY DEF EstValue, IInv, TypeOK, Binary
<1>3. /\ round \in [Correct -> Rounds]
      /\ round' \in [Correct -> Rounds]
      /\ round[i] \in Nat
      /\ \A j \in Correct : j # i => round'[j] = round[j]
      /\ round'[i] = round[i] + 1
      /\ \A j \in Correct : round[j] <= round'[j] /\ round'[j] \in Nat
  BY <1>1, InputAssumption DEF IInv, TypeOK, Rounds
<1>4. \A x \in msgs : /\ x \in Message
                      /\ x.src \in Correct
                      /\ x.round \in Nat
                      /\ x.round <= round[x.src]
  BY DEF IInv, TypeOK, Message, Rounds
<1>5. TypeOK'
  <2>1. Bval(i, round[i] + 1, EstValue(i)) \in Message
    BY <1>2, <1>3 DEF Bval, Message, Correct
  <2>2. msgs' \subseteq {x \in Message : x.src \in Correct /\ x.round <= round'[x.src]}
    BY <1>1, <1>3, <1>4, <2>1 DEF Bval
  <2>. QED
    BY <1>1, <1>2, <1>3, <2>2 DEF IInv, TypeOK
<1>6. CallOpen'
  BY <1>1 DEF IInv, CallOpen
<1>7. FirstOnly' /\ EntriesSent' /\ CountsReached'
  <2>1. \A j \in Correct :
          \/ /\ bvalRepo'[j] = {}
             /\ auxRepo'[j] = {}
             /\ binValueSet'[j] = {}
             /\ ~ tryoutPending'[j]
          \/ /\ bvalRepo'[j] = bvalRepo[j]
             /\ auxRepo'[j] = auxRepo[j]
             /\ binValueSet'[j] = binValueSet[j]
             /\ tryoutPending'[j] = tryoutPending[j]
             /\ round'[j] = round[j]
    BY <1>1, <1>3 DEF IInv, TypeOK
  <2>2. FirstOnly'
    BY <2>1 DEF IInv, FirstOnly
  <2>3. EntriesSent'
    <3>1. \A j \in Correct : \A e \in bvalRepo'[j] :
             e \in bvalRepo[j] /\ round'[j] = round[j]
      BY <2>1
    <3>2. \A j \in Correct : \A e \in auxRepo'[j] :
             e \in auxRepo[j] /\ round'[j] = round[j]
      BY <2>1
    <3>3. msgs \subseteq msgs'
      BY <1>1
    <3>. QED
      BY <3>1, <3>2, <3>3 DEF IInv, EntriesSent
  <2>4. CountsReached'
    BY <2>1 DEF IInv, CountsReached
  <2>. QED
    BY <2>2, <2>3, <2>4
<1>8. AuxMarked'
  <2>1. \A x \in msgs' : x.type = "aux" => x \in msgs
    BY <1>1 DEF Bval
  <2>2. \A x \in msgs : x.src = i => x.round # round'[i]
    BY <1>3, <1>4
  <2>3. \A j \in Correct : j # i => auxBroadcasted'[j] = auxBroadcasted[j]
    BY <1>1 DEF IInv, TypeOK
  <2>. QED
    BY <1>3, <1>4, <2>1, <2>2, <2>3 DEF IInv, AuxMarked
<1>9. AuxBacked' /\ RoundBacked'
  <2>1. \A x \in msgs' : x \in msgs \/ x.type = "bval"
    BY <1>1 DEF Bval
  <2>. QED
    BY <1>1, <1>3, <2>1, AuxBackedGrows, DecisionsGrow DEF IInv
<1>. QED
  BY <1>5, <1>6, <1>7, <1>8, <1>9 DEF IInv

LEMMA StepIInv ==
    ASSUME IInv, NEW i \in Correct, NodeStep(i), UNCHANGED scenario
    PROVE  IInv'
<1>1. ASSUME NEW m \in msgs \cup scenario.faultyTo[i], Handle(i, m)
      PROVE  IInv'
  BY <1>1, BvalIInv, AuxIInv DEF Handle
<1>. QED
  BY <1>1, CallIInv, SetIInv, BroadcastIInv, BroadcastAuxIInv, TryoutIInv,
     AdvanceIInv DEF NodeStep

LEMMA Invariance == Spec => []IInv
<1>1. IInv /\ [Next]_vars => IInv'
  <2>. SUFFICES ASSUME IInv, [Next]_vars PROVE IInv'
    OBVIOUS
  <2>1. ASSUME NEW i \in Correct, NodeStep(i), UNCHANGED scenario
        PROVE  IInv'
    BY <2>1, StepIInv
  <2>2. CASE UNCHANGED vars
    <3>1. UNCHANGED <<scenario, round, est, done, decisions, binValueSet,
                      broadcastedBvalSet, auxBroadcasted, bvalRepo, auxRepo,
                      binValuePending, tryoutPending, advancePending,
                      inputsTaken, inputPc, msgs>>
      BY <2>2 DEF vars, nodeVars, repoVars, signalVars, inputVars
    <3>. QED
      BY <3>1 DEF IInv, TypeOK, CallOpen, Inputs, FirstOnly, EntriesSent,
                  CountsReached, AuxMarked, AuxBacked, RoundBacked
  <2>. QED
    BY <2>1, <2>2 DEF Next
<1>. QED
  BY <1>1, InitIInv, PTL DEF Spec

-----------------------------------------------------------------------------
\* Every reachable state is well typed, and a correct node's messages are of
\* rounds it has reached, whatever ACS and the faulty nodes do (bba.go: BBA).
THEOREM TypeCorrect == Spec => []TypeOK
<1>1. IInv => TypeOK
  BY DEF IInv
<1>. QED
  BY <1>1, Invariance, PTL

\* BV-justification for every N > 3F: what a correct node tells in an AUX, F+1
\* correct nodes have broadcast as a BVAL of that round (bba.go:
\* handleBvalRequest, broadcastAuxOnceForRound).
THEOREM AuxsAreBacked == Spec => []AuxBacked
<1>1. IInv => AuxBacked
  BY DEF IInv
<1>. QED
  BY <1>1, Invariance, PTL

-----------------------------------------------------------------------------
(* One comes from ACS, Zero may not: Value reads an undefined estimate as  *)
(* Zero.                                                                   *)

OneGiven == \E j \in Correct : One \in Given[j]

OneHeld ==
    \/ \E m \in msgs : m.value = One
    \/ \E i \in Correct : est[i] = One \/ One \in decisions[i]

OneInv == OneHeld => OneGiven

\* What ACS has given it does not take back.
LEMMA GivenGrows ==
    ASSUME TypeOK, NEW i \in Correct, NodeStep(i), UNCHANGED scenario
    PROVE  /\ \A j \in Correct : Given[j] \subseteq Given'[j]
           /\ OneGiven => OneGiven'
           /\ SetInput(i) => NextInput(i) \in Given'[i]
<1>1. /\ inputsTaken \in [Correct -> Nat]
      /\ inputPc \in [Correct -> {"none", "set", "broadcast"}]
      /\ Inputs' = Inputs
  BY DEF TypeOK, Inputs
<1>2. ASSUME NEW j \in Correct
      PROVE  /\ Taken(j) \in Nat
             /\ Taken(j)' \in Nat
             /\ Taken(j) <= Taken(j)'
             /\ SetInput(i) => inputsTaken[i] + 1 = Taken(i)'
  <2>1. CASE CallHandleInput(i)
    BY <1>1, <2>1 DEF CallHandleInput, SetInput, Taken
  <2>2. CASE SetInput(i)
    BY <1>1, <2>2 DEF SetInput, Taken
  <2>3. CASE BroadcastInput(i)
    BY <1>1, <2>3 DEF BroadcastInput, SetInput, Taken
  <2>4. CASE UNCHANGED <<inputsTaken, inputPc>> /\ ~ SetInput(i)
    BY <1>1, <2>4 DEF Taken
  <2>5. \/ CallHandleInput(i) \/ SetInput(i) \/ BroadcastInput(i)
        \/ UNCHANGED <<inputsTaken, inputPc>>
    BY DEF NodeStep, Handle, HandleBvalRequest, HandleAuxRequest, BroadcastAux,
           TryoutAgreement, AdvanceRound, inputVars
  <2>. QED
    BY <2>1, <2>2, <2>3, <2>4, <2>5
<1>3. \A j \in Correct : Given[j] \subseteq Given'[j]
  BY <1>1, <1>2 DEF Given
<1>4. ASSUME SetInput(i) PROVE NextInput(i) \in Given'[i]
  <2>1. /\ inputsTaken[i] + 1 \in 1 .. Taken(i)'
        /\ Given'[i] = {Inputs[i][k] : k \in 1 .. Taken(i)'}
    BY <1>1, <1>2, <1>4 DEF Given
  <2>. QED
    BY <2>1 DEF NextInput
<1>. QED
  BY <1>3, <1>4 DEF OneGiven

\* A value that F+1 first BVALs count a correct node has broadcast.
LEMMA CorrectVoter ==
    ASSUME TypeOK, EntriesSent, NEW i \in Correct, NEW v,
           Count(bvalRepo[i], v) >= F + 1
    PROVE  \E j \in Correct : Bval(j, round[i], v) \in msgs
<1>. DEFINE T == BvalSenders(msgs, round[i], v)
<1>1. /\ \A e \in bvalRepo[i] : e.src \in Nodes
      /\ \A e \in bvalRepo[i] : e.src \in Correct /\ e.value = v => e.src \in T
      /\ T \subseteq Correct
  BY DEF TypeOK, Entry, EntriesSent, BvalSenders
<1>2. F + 1 \in Int /\ (F + 1) - F = 1
  BY NodesAssumption
<1>3. Cardinality(T) >= 1
  <2>. HIDE DEF T
  <2>. QED
    BY <1>1, <1>2, CorrectVoters
<1>4. T # {}
  BY <1>3, FS_EmptySet
<1>. QED
  BY <1>4 DEF BvalSenders

LEMMA BinValueVoter ==
    ASSUME IInv, NEW i \in Correct, NEW v \in binValueSet[i]
    PROVE  \E j \in Correct : Bval(j, round[i], v) \in msgs
<1>1. Count(bvalRepo[i], v) \in Nat /\ Count(bvalRepo[i], v) >= 2 * F + 1
  <2>1. \A e \in bvalRepo[i] : e.src \in Nodes
    BY DEF IInv, TypeOK, Entry
  <2>. QED
    BY <2>1, CountGrows DEF IInv, CountsReached
<1>2. Count(bvalRepo[i], v) >= F + 1
  BY <1>1, NodesAssumption
<1>. QED
  BY <1>2, CorrectVoter DEF IInv

\* ... the one just saved included.
LEMMA RelayedVoter ==
    ASSUME IInv, NEW i \in Correct, NEW m \in msgs \cup scenario.faultyTo[i],
           HandleBvalRequest(i, m),
           Count(bvalRepo[i] \cup {[src |-> m.src, value |-> m.value]}, m.value)
               >= F + 1
    PROVE  \E j \in Correct : Bval(j, round[i], m.value) \in msgs
<1>. DEFINE repo == bvalRepo[i] \cup {[src |-> m.src, value |-> m.value]}
            T == BvalSenders(msgs, round[i], m.value)
<1>1. /\ m.src \in Nodes
      /\ m.src \in Correct => Bval(m.src, round[i], m.value) \in msgs
  BY HandledMessage DEF IInv, HandleBvalRequest, Current
<1>2. /\ \A e \in repo : e.src \in Nodes
      /\ \A e \in repo : e.src \in Correct /\ e.value = m.value => e.src \in T
      /\ T \subseteq Correct
  BY <1>1 DEF IInv, TypeOK, EntriesSent, Entry, BvalSenders
<1>3. F + 1 \in Int /\ (F + 1) - F = 1 /\ Count(repo, m.value) >= F + 1
  BY NodesAssumption
<1>4. Cardinality(T) >= 1
  <2>. HIDE DEF T, repo
  <2>. QED
    BY <1>2, <1>3, CorrectVoters
<1>5. T # {}
  BY <1>4, FS_EmptySet
<1>. QED
  BY <1>5 DEF BvalSenders

LEMMA OneStep ==
    ASSUME IInv, IInv', OneInv, NEW i \in Correct, NodeStep(i),
           UNCHANGED scenario
    PROVE  OneInv'
<1>1. (OneGiven => OneGiven') /\ (SetInput(i) => NextInput(i) \in Given'[i])
  BY GivenGrows DEF IInv
<1>2. /\ est \in [Correct -> Binary \cup {Undefined}]
      /\ decisions \in [Correct -> SUBSET Binary]
      /\ binValueSet \in [Correct -> SUBSET Binary]
      /\ bvalRepo \in [Correct -> SUBSET Entry]
  BY DEF IInv, TypeOK
<1>3. ASSUME OneHeld' => OneHeld PROVE OneInv'
  BY <1>1, <1>3 DEF OneInv
<1>4. CASE CallHandleInput(i)
  BY <1>3, <1>4 DEF CallHandleInput, nodeVars, OneHeld
<1>5. CASE SetInput(i)
  <2>1. CASE NextInput(i) = One
    BY <1>1, <1>5, <2>1 DEF OneInv, OneGiven
  <2>2. CASE NextInput(i) # One
    BY <1>2, <1>3, <1>5, <2>2 DEF SetInput, OneHeld
  <2>. QED
    BY <2>1, <2>2
<1>6. CASE BroadcastInput(i)
  <2>1. NextInput(i) \in Given[i]
    <3>1. inputsTaken[i] + 1 \in 1 .. Taken(i)
      BY <1>6 DEF BroadcastInput, Taken, IInv, TypeOK
    <3>. QED
      BY <3>1 DEF NextInput, Given
  <2>2. CASE NextInput(i) = One
    BY <1>1, <2>1, <2>2 DEF OneInv, OneGiven
  <2>3. CASE NextInput(i) # One
    BY <1>3, <1>6, <2>3 DEF BroadcastInput, nodeVars, OneHeld, Bval
  <2>. QED
    BY <2>2, <2>3
<1>7. ASSUME NEW m \in msgs \cup scenario.faultyTo[i], HandleBvalRequest(i, m)
      PROVE  OneInv'
  <2>1. /\ UNCHANGED <<round, est, decisions>>
        /\ bvalRepo'[i] = bvalRepo[i] \cup {[src |-> m.src, value |-> m.value]}
        /\ \/ UNCHANGED msgs
           \/ /\ Count(bvalRepo'[i], m.value) = F + 1
              /\ msgs' = msgs \cup {Bval(i, round[i], m.value)}
    BY <1>2, <1>7 DEF HandleBvalRequest, BvalBroadcastThreshold
  <2>2. CASE UNCHANGED msgs
    BY <1>3, <2>1, <2>2 DEF OneHeld
  <2>3. CASE /\ Count(bvalRepo'[i], m.value) = F + 1
             /\ msgs' = msgs \cup {Bval(i, round[i], m.value)}
    <3>1. Count(bvalRepo[i] \cup {[src |-> m.src, value |-> m.value]}, m.value)
            >= F + 1
      BY <2>1, <2>3, NodesAssumption
    <3>2. \E j \in Correct : Bval(j, round[i], m.value) \in msgs
      BY <1>7, <3>1, RelayedVoter
    <3>3. (\E x \in msgs' : x.value = One) => \E x \in msgs : x.value = One
      BY <2>3, <3>2 DEF Bval
    <3>. QED
      BY <1>3, <2>1, <3>3 DEF OneHeld
  <2>. QED
    BY <2>1, <2>2, <2>3
<1>8. ASSUME NEW m \in msgs \cup scenario.faultyTo[i], HandleAuxRequest(i, m)
      PROVE  OneInv'
  BY <1>3, <1>8 DEF HandleAuxRequest, nodeVars, OneHeld
<1>9. CASE BroadcastAux(i)
  <2>1. \A x \in msgs' \ msgs : x.value \in binValueSet[i]
    BY <1>9 DEF BroadcastAux, Aux
  <2>2. One \in binValueSet[i] => \E x \in msgs : x.value = One
    BY BinValueVoter DEF Bval
  <2>3. (\E x \in msgs' : x.value = One) => \E x \in msgs : x.value = One
    BY <2>1, <2>2
  <2>. QED
    BY <1>3, <1>9, <2>3 DEF BroadcastAux, OneHeld
<1>10. CASE TryoutAgreement(i)
  <2>1. One \in binValueSet[i] => OneHeld
    BY BinValueVoter DEF OneHeld, Bval
  <2>2. Cardinality(binValueSet[i]) > 1 => One \in binValueSet[i]
    <3>1. ASSUME One \notin binValueSet[i]
          PROVE  binValueSet[i] = {} \/ binValueSet[i] = {Zero}
      BY <1>2, <3>1 DEF Binary, One, Zero
    <3>2. /\ Cardinality({}) = 0
          /\ Cardinality({Zero}) = 1
      BY FS_EmptySet, FS_Singleton
    <3>. QED
      BY <3>1, <3>2
  <2>3. ASSUME NEW v \in Binary, AgreementFailed(i, v), UNCHANGED msgs,
               v = One => One \in binValueSet[i]
        PROVE  OneInv'
    <3>1. /\ est' = [est EXCEPT ![i] = v]
          /\ UNCHANGED <<decisions, msgs>>
      BY <2>3 DEF AgreementFailed
    <3>2. CASE v = One
      BY <1>1, <2>1, <2>3, <3>2 DEF OneInv
    <3>3. CASE v # One
      BY <1>2, <1>3, <3>1, <3>3 DEF OneHeld
    <3>. QED
      BY <3>2, <3>3
  <2>4. ASSUME NEW v \in Binary, AgreementSuccess(i, v), UNCHANGED msgs,
               v \in binValueSet[i]
        PROVE  OneInv'
    BY <1>2, <1>3, <2>1, <2>4 DEF AgreementSuccess, OneHeld
  <2>5. Coin(round[i]) \in Binary
    BY DEF Coin, Binary
  <2>6. CASE UNCHANGED <<est, decisions, msgs>>
    BY <1>3, <2>6 DEF OneHeld
  <2>7. \/ UNCHANGED <<est, decisions, msgs>>
        \/ /\ UNCHANGED msgs
           /\ Cardinality(binValueSet[i]) > 1
           /\ AgreementFailed(i, Coin(round[i]))
        \/ /\ UNCHANGED msgs
           /\ \E v \in Binary : /\ binValueSet[i] = {v}
                                /\ \/ AgreementSuccess(i, v)
                                   \/ AgreementFailed(i, v)
    BY <1>10 DEF TryoutAgreement
  <2>. QED
    BY <2>2, <2>3, <2>4, <2>5, <2>6, <2>7
<1>11. CASE AdvanceRound(i)
  <2>1. EstValue(i) = One => est[i] = One
    BY DEF EstValue, Zero, One
  <2>2. /\ UNCHANGED decisions
        /\ est' = [est EXCEPT ![i] = EstValue(i)]
        /\ msgs' = msgs \cup {Bval(i, round[i] + 1, EstValue(i))}
    BY <1>11 DEF AdvanceRound
  <2>3. OneHeld' => OneHeld
    BY <1>2, <2>1, <2>2 DEF OneHeld, Bval
  <2>. QED
    BY <1>3, <2>3
<1>. QED
  BY <1>4, <1>5, <1>6, <1>7, <1>8, <1>9, <1>10, <1>11 DEF NodeStep, Handle

\* A decision rests on the coin, the BVALs and the AUXs of one round, although
\* its signal has waited in a channel, and One is decided only if ACS has given
\* One to a correct node (bba.go: tryoutAgreement; binary.go: Value; acs.go:254).
THEOREM DecisionsAreBacked == Spec => []DecisionBacked
<1>1. Init => OneInv
  BY DEF Init, OneInv, OneHeld, One, Undefined
<1>2. IInv /\ IInv' /\ OneInv /\ [Next]_vars => OneInv'
  <2>. SUFFICES ASSUME IInv, IInv', OneInv, [Next]_vars PROVE OneInv'
    OBVIOUS
  <2>1. CASE UNCHANGED vars
    BY <2>1 DEF vars, nodeVars, inputVars, OneInv, OneHeld, OneGiven, Given, Taken,
                Inputs
  <2>. QED
    BY <2>1, OneStep DEF Next
<1>3. IInv /\ OneInv => DecisionBacked
  <2>. SUFFICES ASSUME IInv, OneInv PROVE DecisionBacked
    OBVIOUS
  <2>1. \A i \in Correct : One \in decisions[i] => OneGiven
    BY DEF OneInv, OneHeld
  <2>. QED
    BY <2>1 DEF IInv, RoundBacked, DecisionBacked, OneGiven
<1>. QED
  BY <1>1, <1>2, <1>3, Invariance, PTL DEF Spec

\* Two values cannot both reach 2F+1 first BVALs if there are at most 4F+1
\* nodes.
LEMMA OneBinValue ==
    ASSUME IInv, N <= 4 * F + 1, NEW i \in Correct
    PROVE  \A v, w \in binValueSet[i] : v = w
<1>. SUFFICES ASSUME NEW v \in binValueSet[i], NEW w \in binValueSet[i], v # w
              PROVE  FALSE
  OBVIOUS
<1>. DEFINE Q == Voters(bvalRepo[i], v)
            R == Voters(bvalRepo[i], w)
<1>1. /\ Q \subseteq Nodes
      /\ R \subseteq Nodes
  BY DEF Voters, IInv, TypeOK, Entry
<1>2. Cardinality(Q) >= 2 * F + 1 /\ Cardinality(R) >= 2 * F + 1
  BY DEF IInv, CountsReached, Count
<1>3. Q \cap R = {}
  BY DEF IInv, FirstOnly, Voters
<1>. HIDE DEF Q, R
<1>4. /\ IsFiniteSet(Nodes)
      /\ Cardinality(Q) \in Nat
      /\ Cardinality(R) \in Nat
  BY <1>1, NodesFinite, FS_Subset, FS_CardinalityType
<1>5. Cardinality(Q) + Cardinality(R) > Cardinality(Nodes)
  BY <1>2, <1>4, NodesFinite, NodesAssumption DEF N
<1>. QED
  BY <1>1, <1>3, <1>4, <1>5, FS_MajoritiesIntersect

\* A correct node shares one AUX in a round as long as N is at most 4F+1, the
\* sizes the configuration is made for (N = 3F+1) among them: the first BVAL of
\* each sender counts, and auxBroadcasted is reset with the round (bba.go:
\* saveBvalIfNotExist, broadcastAuxOnceForRound).
THEOREM AuxsAreSingle == N <= 4 * F + 1 => (Spec => []OneAux)
<1>. SUFFICES ASSUME N <= 4 * F + 1 PROVE Spec => []OneAux
  OBVIOUS
<1>1. Init => OneAux
  BY DEF Init, OneAux
<1>2. IInv /\ OneAux /\ [Next]_vars => OneAux'
  <2>. SUFFICES ASSUME IInv, OneAux, [Next]_vars PROVE OneAux'
    OBVIOUS
  <2>1. CASE \A m \in msgs' : m \in msgs \/ m.type = "bval"
    BY <2>1 DEF OneAux
  <2>2. ASSUME NEW i \in Correct, BroadcastAux(i) PROVE OneAux'
    <3>1. /\ \A m \in msgs' \ msgs :
                /\ ~ auxBroadcasted[i]
                /\ \E v \in binValueSet[i] : m = Aux(i, round[i], v)
      BY <2>2 DEF BroadcastAux
    <3>2. \A m \in msgs' \ msgs : \A x \in msgs :
             x.type = "aux" /\ x.src = i => x.round # round[i]
      BY <3>1 DEF IInv, AuxMarked
    <3>3. \A m1, m2 \in msgs' \ msgs : m1 = m2
      BY <3>1, OneBinValue
    <3>4. \A m \in msgs' \ msgs : m.src = i /\ m.round = round[i]
      BY <3>1 DEF Aux
    <3>. QED
      BY <3>2, <3>3, <3>4 DEF OneAux
  <2>3. ASSUME NEW i \in Correct, NodeStep(i), ~ BroadcastAux(i)
        PROVE  \A m \in msgs' : m \in msgs \/ m.type = "bval"
    <3>1. CASE CallHandleInput(i) \/ SetInput(i) \/ TryoutAgreement(i)
      BY <3>1 DEF CallHandleInput, SetInput, TryoutAgreement
    <3>2. CASE BroadcastInput(i) \/ AdvanceRound(i)
      BY <3>2 DEF BroadcastInput, AdvanceRound, Bval
    <3>3. ASSUME NEW m, Handle(i, m)
          PROVE  \A x \in msgs' : x \in msgs \/ x.type = "bval"
      BY <3>3 DEF Handle, HandleBvalRequest, HandleAuxRequest, Bval
    <3>. QED
      BY <2>3, <3>1, <3>2, <3>3 DEF NodeStep
  <2>4. CASE UNCHANGED vars
    BY <2>1, <2>4 DEF vars
  <2>. QED
    BY <2>1, <2>2, <2>3, <2>4 DEF Next
<1>. QED
  BY <1>1, <1>2, Invariance, PTL DEF Spec
-----------------------------------------------------------------------------
(* A value that all correct nodes are given and no faulty node shares is   *)
(* decided when the network rests: in round 1, whose coin is One, or in    *)
(* round 2.                                                                *)

LastRound(v) == IF v = One THEN 1 ELSE 2

Passed(i, r) == round[i] > r \/ (round[i] = r /\ advancePending[i])

\* What the counts of the round have caused.
Relayed(i) ==
    /\ \A w \in broadcastedBvalSet[i] : Bval(i, round[i], w) \in msgs
    /\ \A w \in Binary :
          F >= 1 /\ Count(bvalRepo[i], w) >= F + 1 => w \in broadcastedBvalSet[i]
    /\ \A w \in Binary : Count(bvalRepo[i], w) >= 2 * F + 1 => w \in binValueSet[i]
    /\ \A w \in Binary : Aux(i, round[i], w) \in msgs => w \in binValueSet[i]

\* What a signal or a flag stands for.
Meant(i) ==
    /\ binValuePending[i] => binValueSet[i] # {}
    /\ done[i] => decisions[i] # {} /\ (advancePending[i] \/ round[i] > 1)
    /\ round[i] = 1 /\ est[i] # Undefined =>
          inputPc[i] = "broadcast" \/ inputsTaken[i] >= 1 \/ advancePending[i]

\* Only v is told until the round that decides it.
OneVoice(v) == \A m \in msgs : m.round <= LastRound(v) => m.value = v

Carried(v, i) ==
    /\ v = Zero /\ round[i] <= 2 => est[i] # One
    /\ Unhelped(v) => \A e \in auxRepo[i] : e.src \in Faulty => e.value # v

\* A round is left after v has been relayed, the last one with a decision; only
\* the AUXs of faulty nodes can spare one of N-F correct ones for v.
PassedWith(v, i) ==
    \A r \in 1 .. LastRound(v) : Passed(i, r) =>
        /\ Unhelped(v) => Cardinality(AuxSenders(msgs, r, v)) >= N - F
        /\ F >= 1 => Bval(i, r, v) \in msgs
        /\ r = LastRound(v) => done[i]

\* Only v is decided, and in no other round.
Faithful(v, i) ==
    /\ decisions[i] \subseteq {v}
    /\ decisions[i] # {} => done[i]
    /\ done[i] => Passed(i, LastRound(v))

\* What the node does not owe any more it has sent or signalled.
Shared(v, i) ==
    round[i] <= LastRound(v) =>
        /\ v \in binValueSet[i] =>
              binValuePending[i] \/ Aux(i, round[i], v) \in msgs
        /\ auxBroadcasted[i] => Aux(i, round[i], v) \in msgs
        /\ Find(auxRepo[i], i) /\ Count(auxRepo[i], v) >= N - F =>
              tryoutPending[i] \/ advancePending[i] \/ done[i]

Started(v, i) ==
    /\ round[i] = 1 /\ inputsTaken[i] >= 1 => Bval(i, 1, v) \in msgs
    /\ LastRound(v) = 2 /\ round[i] >= 2 => Bval(i, 2, v) \in msgs

Ledger(i) == Relayed(i) /\ Meant(i)

Course(v, i) ==
    /\ Carried(v, i)
    /\ PassedWith(v, i)
    /\ Faithful(v, i)
    /\ Shared(v, i)
    /\ Started(v, i)

RestInv ==
    /\ \A i \in Correct : Ledger(i)
    /\ \A v \in Binary : Unanimous(v) =>
          OneVoice(v) /\ \A i \in Correct : Course(v, i)

\* A request does not count for another value ...
LEMMA CountOther ==
    ASSUME NEW repo, NEW e, NEW w, w # e.value
    PROVE  Count(repo \cup {e}, w) = Count(repo, w)
<1>1. {x \in repo \cup {e} : x.value = w} = {x \in repo : x.value = w}
  OBVIOUS
<1>. QED
  BY <1>1 DEF Count, Voters

\* ... and the first one of a sender counts one for its own.
LEMMA CountStep ==
    ASSUME NEW repo, \A e \in repo : e.src \in Nodes, NEW s \in Nodes, NEW v,
           ~ Find(repo, s)
    PROVE  /\ Count(repo \cup {[src |-> s, value |-> v]}, v) = Count(repo, v) + 1
           /\ \A w : w # v =>
                 Count(repo \cup {[src |-> s, value |-> v]}, w) = Count(repo, w)
           /\ \A w : Count(repo, w) \in Nat
<1>1. \A w : Voters(repo, w) \subseteq Nodes
  BY DEF Voters
<1>2. Voters(repo \cup {[src |-> s, value |-> v]}, v) = Voters(repo, v) \cup {s}
  <2>. DEFINE e == [src |-> s, value |-> v]
  <2>1. e.src = s /\ e.value = v
    OBVIOUS
  <2>. HIDE DEF e
  <2>2. {x \in repo \cup {e} : x.value = v} = {x \in repo : x.value = v} \cup {e}
    BY <2>1
  <2>3. Voters(repo \cup {e}, v) = Voters(repo, v) \cup {e.src}
    BY <2>2 DEF Voters
  <2>. QED
    BY <2>1, <2>3 DEF e
<1>3. s \notin Voters(repo, v)
  BY DEF Voters, Find
<1>4. \A w : w # v =>
        Voters(repo \cup {[src |-> s, value |-> v]}, w) = Voters(repo, w)
  BY DEF Voters
<1>5. \A w : IsFiniteSet(Voters(repo, w)) /\ Count(repo, w) \in Nat
  BY <1>1, NodesFinite, FS_Subset, FS_CardinalityType DEF Count
<1>. QED
  BY <1>2, <1>3, <1>4, <1>5, FS_AddElement DEF Count

\* The input of a call when all inputs are v.
LEMMA UnanimousInput ==
    ASSUME IInv, NEW v, Unanimous(v), NEW i \in Correct, inputPc[i] # "none"
    PROVE  NextInput(i) = v /\ inputsTaken[i] = 0
<1>1. Inputs[i] = <<v>> /\ inputsTaken[i] \in Nat /\ inputsTaken[i] < Len(Inputs[i])
  BY DEF Unanimous, IInv, TypeOK, CallOpen
<1>2. inputsTaken[i] = 0
  BY <1>1
<1>. QED
  BY <1>1, <1>2 DEF NextInput

LEMMA OnlyValue ==
    ASSUME IInv, NEW v \in Binary, OneVoice(v), NEW i \in Correct,
           round[i] <= LastRound(v)
    PROVE  \A w \in binValueSet[i] : w = v
BY BinValueVoter DEF OneVoice, Bval

\* A tryout of an early round has N-F correct AUXs for v behind it.
LEMMA TryoutBacked ==
    ASSUME IInv, NEW v \in Binary, Unhelped(v), OneVoice(v), NEW i \in Correct,
           Carried(v, i), round[i] <= LastRound(v), tryoutPending[i]
    PROVE  Cardinality(AuxSenders(msgs, round[i], v)) >= N - F
<1>1. PICK w \in Binary : Count(auxRepo[i], w) >= N - F
  BY DEF IInv, CountsReached
<1>2. /\ \A e \in auxRepo[i] : e.src \in Nodes
      /\ \A e \in auxRepo[i] : \A u : e.src \in Correct /\ e.value = u =>
            e.src \in AuxSenders(msgs, round[i], u)
      /\ \A u : AuxSenders(msgs, round[i], u) \subseteq Correct
  BY DEF IInv, TypeOK, Entry, EntriesSent, AuxSenders
<1>3. w = v
  <2>1. N - F \in Int /\ (N - F) - F >= 1
    BY NodesAssumption, NodesFinite
  <2>2. Cardinality(AuxSenders(msgs, round[i], w)) >= (N - F) - F
    BY <1>1, <1>2, <2>1, CorrectVoters
  <2>3. AuxSenders(msgs, round[i], w) # {}
    <3>1. Cardinality(AuxSenders(msgs, round[i], w)) \in Nat
      BY <1>2, SpeakersGrow
    <3>2. Cardinality(AuxSenders(msgs, round[i], w)) # 0
      BY <2>1, <2>2, <3>1, NodesFinite, NodesAssumption
    <3>. QED
      BY <3>2, FS_EmptySet
  <2>. QED
    BY <2>3 DEF AuxSenders, OneVoice, Aux
<1>4. Voters(auxRepo[i], v) \subseteq AuxSenders(msgs, round[i], v)
  BY <1>2 DEF Voters, Carried, Correct
<1>5. /\ Cardinality(Voters(auxRepo[i], v)) \in Nat
      /\ Cardinality(AuxSenders(msgs, round[i], v)) \in Nat
      /\ Cardinality(Voters(auxRepo[i], v))
            <= Cardinality(AuxSenders(msgs, round[i], v))
  BY <1>2, <1>4, SpeakersGrow
<1>. QED
  BY <1>1, <1>3, <1>5, NodesFinite, NodesAssumption DEF Count

\* A round once left stays accounted for.
LEMMA PassedKept ==
    ASSUME NEW v, NEW i, PassedWith(v, i), msgs \subseteq msgs',
           done[i] => done'[i], UNCHANGED scenario,
           \A r \in 1 .. LastRound(v) : Passed(i, r)' => Passed(i, r)
    PROVE  PassedWith(v, i)'
<1>. SUFFICES ASSUME NEW r \in 1 .. LastRound(v), Passed(i, r)
              PROVE  /\ Unhelped(v) =>
                            Cardinality(AuxSenders(msgs', r, v)) >= N - F
                     /\ F >= 1 => Bval(i, r, v) \in msgs'
                     /\ r = LastRound(v) => done'[i]
  BY DEF PassedWith, Unhelped
<1>1. /\ Unhelped(v) => Cardinality(AuxSenders(msgs, r, v)) >= N - F
      /\ F >= 1 => Bval(i, r, v) \in msgs
      /\ r = LastRound(v) => done[i]
  BY DEF PassedWith
<1>2. /\ Cardinality(AuxSenders(msgs, r, v)) \in Nat
      /\ Cardinality(AuxSenders(msgs', r, v)) \in Nat
      /\ Cardinality(AuxSenders(msgs, r, v)) <= Cardinality(AuxSenders(msgs', r, v))
  BY SendersGrow
<1>3. Unhelped(v) => Cardinality(AuxSenders(msgs', r, v)) >= N - F
  BY <1>1, <1>2, NodesFinite, NodesAssumption
<1>. QED
  BY <1>1, <1>3

\* The requests a node has saved come from nodes.
LEMMA SavedFromNodes ==
    ASSUME TypeOK, NEW i \in Correct
    PROVE  /\ \A e \in bvalRepo[i] : e.src \in Nodes
           /\ \A e \in auxRepo[i] : e.src \in Nodes
           /\ \A w : Count(bvalRepo[i], w) \in Nat
           /\ \A w : Count(auxRepo[i], w) \in Nat
<1>1. /\ \A e \in bvalRepo[i] : e.src \in Nodes
      /\ \A e \in auxRepo[i] : e.src \in Nodes
  BY DEF TypeOK, Entry
<1>. QED
  BY <1>1, CountGrows

LEMMA CallRest ==
    ASSUME IInv, NEW v \in Binary, NEW i \in Correct, Ledger(i),
           CallHandleInput(i), UNCHANGED scenario
    PROVE  /\ Ledger(i)'
           /\ Unanimous(v) /\ OneVoice(v) /\ Course(v, i) =>
                 OneVoice(v)' /\ Course(v, i)'
<1>1. /\ UNCHANGED <<round, est, done, decisions, binValueSet, broadcastedBvalSet,
                     auxBroadcasted, bvalRepo, auxRepo, binValuePending,
                     tryoutPending, advancePending, inputsTaken, msgs>>
      /\ inputPc[i] = "none"
  BY DEF CallHandleInput, nodeVars, repoVars, signalVars
<1>. QED
  BY <1>1 DEF Ledger, Relayed, Meant, OneVoice, Course, Carried, Unhelped,
              PassedWith, Passed, Faithful, Shared, Started

LEMMA SetRest ==
    ASSUME IInv, NEW v \in Binary, NEW i \in Correct, Ledger(i),
           SetInput(i), UNCHANGED scenario
    PROVE  /\ Ledger(i)'
           /\ Unanimous(v) /\ OneVoice(v) /\ Course(v, i) =>
                 OneVoice(v)' /\ Course(v, i)'
<1>1. /\ UNCHANGED <<round, done, decisions, binValueSet, broadcastedBvalSet,
                     auxBroadcasted, bvalRepo, auxRepo, binValuePending,
                     tryoutPending, advancePending, inputsTaken, msgs>>
      /\ inputPc[i] = "set"
      /\ inputPc'[i] = "broadcast"
      /\ est'[i] = NextInput(i)
  BY DEF SetInput, repoVars, signalVars, IInv, TypeOK
<1>2. Ledger(i)'
  BY <1>1 DEF Ledger, Relayed, Meant
<1>3. ASSUME Unanimous(v), OneVoice(v), Course(v, i)
      PROVE  OneVoice(v)' /\ Course(v, i)'
  <2>1. est'[i] = v
    BY <1>1, <1>3, UnanimousInput
  <2>. QED
    BY <1>1, <1>3, <2>1 DEF OneVoice, Course, Carried, Unhelped, PassedWith,
                            Passed, Faithful, Shared, Started, Zero, One
<1>. QED
  BY <1>2, <1>3

LEMMA BroadcastRest ==
    ASSUME IInv, NEW v \in Binary, NEW i \in Correct, Ledger(i),
           BroadcastInput(i), UNCHANGED scenario
    PROVE  /\ Ledger(i)'
           /\ Unanimous(v) /\ OneVoice(v) /\ Course(v, i) =>
                 OneVoice(v)' /\ Course(v, i)'
<1>1. /\ UNCHANGED <<round, est, done, decisions, binValueSet, broadcastedBvalSet,
                     auxBroadcasted, bvalRepo, auxRepo, binValuePending,
                     tryoutPending, advancePending>>
      /\ inputPc[i] = "broadcast"
      /\ inputsTaken'[i] >= 1
      /\ msgs' = msgs \cup {Bval(i, round[i], NextInput(i))}
      /\ msgs \subseteq msgs'
      /\ \A x \in msgs' : x.type = "aux" => x \in msgs
  BY DEF BroadcastInput, nodeVars, repoVars, signalVars, IInv, TypeOK, Bval
<1>2. Ledger(i)'
  <2>1. Relayed(i)'
    BY <1>1 DEF Ledger, Relayed, Aux
  <2>2. Meant(i)'
    BY <1>1 DEF Ledger, Meant
  <2>. QED
    BY <2>1, <2>2 DEF Ledger
<1>3. ASSUME Unanimous(v), OneVoice(v), Course(v, i)
      PROVE  OneVoice(v)' /\ Course(v, i)'
  <2>1. NextInput(i) = v
    BY <1>1, <1>3, UnanimousInput
  <2>2. OneVoice(v)'
    BY <1>1, <1>3, <2>1 DEF OneVoice, Bval
  <2>3. Carried(v, i)' /\ Faithful(v, i)'
    BY <1>1, <1>3 DEF Course, Carried, Unhelped, Faithful, Passed
  <2>4. PassedWith(v, i)'
    BY <1>1, <1>3, PassedKept DEF Course, Passed
  <2>5. Shared(v, i)'
    BY <1>1, <1>3 DEF Course, Shared, Aux
  <2>6. Started(v, i)'
    BY <1>1, <1>3, <2>1 DEF Course, Started
  <2>. QED
    BY <2>2, <2>3, <2>4, <2>5, <2>6 DEF Course
<1>. QED
  BY <1>2, <1>3

LEMMA BvalRest ==
    ASSUME IInv, NEW v \in Binary, NEW i \in Correct, Ledger(i),
           NEW m \in msgs \cup scenario.faultyTo[i],
           HandleBvalRequest(i, m), UNCHANGED scenario
    PROVE  /\ Ledger(i)'
           /\ Unanimous(v) /\ OneVoice(v) /\ Course(v, i) =>
                 OneVoice(v)' /\ Course(v, i)'
<1>. DEFINE repo == bvalRepo[i] \cup {[src |-> m.src, value |-> m.value]}
            count == Count(repo, m.value)
<1>1. /\ UNCHANGED <<round, est, done, decisions, auxBroadcasted, auxRepo,
                     tryoutPending, advancePending, inputsTaken, inputPc>>
      /\ ~ Find(bvalRepo[i], m.src)
      /\ bvalRepo'[i] = repo
      /\ IF count = 2 * F + 1
         THEN /\ binValueSet'[i] = binValueSet[i] \cup {m.value}
              /\ binValuePending'[i]
         ELSE /\ binValueSet'[i] = binValueSet[i]
              /\ binValuePending'[i] = binValuePending[i]
      /\ IF /\ count = F + 1
            /\ count # 2 * F + 1
            /\ m.value \notin broadcastedBvalSet[i]
         THEN /\ broadcastedBvalSet'[i] = broadcastedBvalSet[i] \cup {m.value}
              /\ msgs' = msgs \cup {Bval(i, round[i], m.value)}
         ELSE /\ broadcastedBvalSet'[i] = broadcastedBvalSet[i]
              /\ msgs' = msgs
  <2>1. /\ bvalRepo \in [Correct -> SUBSET Entry]
        /\ binValueSet \in [Correct -> SUBSET Binary]
        /\ binValuePending \in [Correct -> BOOLEAN]
        /\ broadcastedBvalSet \in [Correct -> SUBSET Binary]
    BY DEF IInv, TypeOK
  <2>2. /\ bvalRepo' = [bvalRepo EXCEPT ![i] = repo]
        /\ IF count = 2 * F + 1
           THEN /\ binValueSet' = [binValueSet EXCEPT ![i] = @ \cup {m.value}]
                /\ binValuePending' = [binValuePending EXCEPT ![i] = TRUE]
           ELSE UNCHANGED <<binValueSet, binValuePending>>
        /\ IF /\ count = F + 1
              /\ count # 2 * F + 1
              /\ m.value \notin broadcastedBvalSet[i]
           THEN /\ broadcastedBvalSet' =
                     [broadcastedBvalSet EXCEPT ![i] = @ \cup {m.value}]
                /\ msgs' = msgs \cup {Bval(i, round[i], m.value)}
           ELSE UNCHANGED <<broadcastedBvalSet, msgs>>
    BY DEF HandleBvalRequest, BinValueSetThreshold, BvalBroadcastThreshold
  <2>3. /\ UNCHANGED <<round, est, done, decisions, auxBroadcasted, auxRepo,
                       tryoutPending, advancePending, inputsTaken, inputPc>>
        /\ ~ Find(bvalRepo[i], m.src)
    BY DEF HandleBvalRequest, inputVars
  <2>. HIDE DEF count, repo
  <2>4. bvalRepo'[i] = repo
    BY <2>1, <2>2
  <2>5. IF count = 2 * F + 1
        THEN /\ binValueSet'[i] = binValueSet[i] \cup {m.value}
             /\ binValuePending'[i]
        ELSE /\ binValueSet'[i] = binValueSet[i]
             /\ binValuePending'[i] = binValuePending[i]
    BY <2>1, <2>2
  <2>6. IF /\ count = F + 1
           /\ count # 2 * F + 1
           /\ m.value \notin broadcastedBvalSet[i]
        THEN /\ broadcastedBvalSet'[i] = broadcastedBvalSet[i] \cup {m.value}
             /\ msgs' = msgs \cup {Bval(i, round[i], m.value)}
        ELSE /\ broadcastedBvalSet'[i] = broadcastedBvalSet[i]
             /\ msgs' = msgs
    BY <2>1, <2>2
  <2>. QED
    BY <2>3, <2>4, <2>5, <2>6
<1>2. /\ m.src \in Nodes
      /\ m.value \in Binary
      /\ \A e \in bvalRepo[i] : e.src \in Nodes
  BY HandledMessage, SavedFromNodes DEF IInv
<1>3. /\ count = Count(bvalRepo[i], m.value) + 1
      /\ \A w : w # m.value => Count(repo, w) = Count(bvalRepo[i], w)
      /\ \A w : Count(bvalRepo[i], w) \in Nat
  BY <1>1, <1>2, CountStep
<1>4. \A w : w = m.value => Count(repo, w) = count
  OBVIOUS
<1>5. count >= F + 1 => \E j \in Correct : Bval(j, round[i], m.value) \in msgs
  BY RelayedVoter
<1>. HIDE DEF repo, count
<1>6. /\ msgs \subseteq msgs'
      /\ \A x \in msgs' : x.type = "aux" => x \in msgs
      /\ binValueSet[i] \subseteq binValueSet'[i]
      /\ broadcastedBvalSet[i] \subseteq broadcastedBvalSet'[i]
      /\ \A w \in broadcastedBvalSet'[i] :
            w \in broadcastedBvalSet[i] \/ Bval(i, round[i], w) \in msgs'
      /\ \A w \in binValueSet'[i] :
            w \in binValueSet[i] \/ (w = m.value /\ binValuePending'[i])
      /\ binValuePending[i] => binValuePending'[i]
      /\ binValuePending'[i] => binValuePending[i] \/ m.value \in binValueSet'[i]
  BY <1>1 DEF Bval
<1>7. Ledger(i)'
  <2>1. ASSUME NEW w \in Binary, F >= 1, Count(repo, w) >= F + 1
        PROVE  w \in broadcastedBvalSet'[i]
    <3>1. CASE Count(bvalRepo[i], w) >= F + 1
      BY <1>6, <2>1, <3>1 DEF Ledger, Relayed
    <3>2. CASE ~ (Count(bvalRepo[i], w) >= F + 1)
      <4>1. w = m.value /\ count = F + 1 /\ count # 2 * F + 1
        BY <1>3, <1>4, <2>1, <3>2, NodesAssumption
      <4>. QED
        BY <1>1, <4>1
    <3>. QED
      BY <3>1, <3>2
  <2>2. ASSUME NEW w \in Binary, Count(repo, w) >= 2 * F + 1
        PROVE  w \in binValueSet'[i]
    <3>1. CASE Count(bvalRepo[i], w) >= 2 * F + 1
      BY <1>6, <3>1 DEF Ledger, Relayed
    <3>2. CASE ~ (Count(bvalRepo[i], w) >= 2 * F + 1)
      <4>1. w = m.value /\ count = 2 * F + 1
        BY <1>3, <1>4, <2>2, <3>2, NodesAssumption
      <4>. QED
        BY <1>1, <4>1
    <3>. QED
      BY <3>1, <3>2
  <2>3. Relayed(i)'
    <3>1. \A w \in broadcastedBvalSet'[i] : Bval(i, round'[i], w) \in msgs'
      BY <1>1, <1>6 DEF Ledger, Relayed
    <3>2. \A w \in Binary : Aux(i, round'[i], w) \in msgs' => w \in binValueSet'[i]
      BY <1>1, <1>6 DEF Ledger, Relayed, Aux
    <3>. QED
      BY <1>1, <2>1, <2>2, <3>1, <3>2 DEF Relayed
  <2>4. Meant(i)'
    BY <1>1, <1>6 DEF Ledger, Meant
  <2>. QED
    BY <2>3, <2>4 DEF Ledger
<1>8. ASSUME Unanimous(v), OneVoice(v), Course(v, i)
      PROVE  OneVoice(v)' /\ Course(v, i)'
  <2>1. OneVoice(v)'
    <3>1. CASE msgs' = msgs
      BY <1>8, <3>1 DEF OneVoice
    <3>2. CASE msgs' = msgs \cup {Bval(i, round[i], m.value)} /\ count = F + 1
      <4>1. count >= F + 1
        BY <3>2, NodesAssumption
      <4>2. round[i] <= LastRound(v) => m.value = v
        BY <1>5, <1>8, <4>1 DEF OneVoice, Bval
      <4>. QED
        BY <1>8, <3>2, <4>2 DEF OneVoice, Bval
    <3>. QED
      BY <1>1, <3>1, <3>2
  <2>2. Carried(v, i)' /\ Faithful(v, i)'
    BY <1>1, <1>8 DEF Course, Carried, Unhelped, Faithful, Passed
  <2>3. PassedWith(v, i)'
    BY <1>1, <1>6, <1>8, PassedKept DEF Course, Passed
  <2>4. Shared(v, i)'
    BY <1>1, <1>6, <1>8 DEF Course, Shared
  <2>5. Started(v, i)'
    BY <1>1, <1>6, <1>8 DEF Course, Started
  <2>. QED
    BY <2>1, <2>2, <2>3, <2>4, <2>5 DEF Course
<1>. QED
  BY <1>7, <1>8

LEMMA AuxRest ==
    ASSUME IInv, NEW v \in Binary, NEW i \in Correct, Ledger(i),
           NEW m \in msgs \cup scenario.faultyTo[i],
           HandleAuxRequest(i, m), UNCHANGED scenario
    PROVE  /\ Ledger(i)'
           /\ Unanimous(v) /\ OneVoice(v) /\ Course(v, i) =>
                 OneVoice(v)' /\ Course(v, i)'
<1>. DEFINE repo == IF Find(auxRepo[i], m.src) THEN auxRepo[i]
                    ELSE auxRepo[i] \cup {[src |-> m.src, value |-> m.value]}
<1>1. /\ UNCHANGED <<round, est, done, decisions, binValueSet, broadcastedBvalSet,
                     auxBroadcasted, bvalRepo, binValuePending, advancePending,
                     inputsTaken, inputPc, msgs>>
      /\ m.type = "aux"
      /\ m.round = round[i]
      /\ auxRepo' = [auxRepo EXCEPT ![i] = repo]
      /\ tryoutPending' = [tryoutPending EXCEPT ![i] =
             tryoutPending[i] \/ Count(repo, m.value) >= N - F]
  BY DEF HandleAuxRequest, Current, nodeVars, inputVars, TryoutAgreementThreshold
<1>2. /\ m.src \in Nodes
      /\ m.src \in Correct => m \in msgs
      /\ m.src \in Faulty => m \in scenario.faultyTo[i]
      /\ \A e \in auxRepo[i] : e.src \in Nodes
  BY HandledMessage, SavedFromNodes DEF IInv, TypeOK, Correct
<1>3. /\ \A e \in repo : e \in auxRepo[i] \/ (e.src = m.src /\ e.value = m.value)
      /\ \A w : w # m.value => Count(repo, w) = Count(auxRepo[i], w)
  <2>. DEFINE entry == [src |-> m.src, value |-> m.value]
  <2>1. /\ repo = auxRepo[i] \/ repo = auxRepo[i] \cup {entry}
        /\ entry.src = m.src
        /\ entry.value = m.value
    OBVIOUS
  <2>. HIDE DEF repo, entry
  <2>. QED
    BY <2>1, CountOther
<1>4. /\ auxRepo'[i] = repo
      /\ tryoutPending[i] => tryoutPending'[i]
      /\ Count(repo, m.value) >= N - F => tryoutPending'[i]
  <2>1. auxRepo \in [Correct -> SUBSET Entry] /\ tryoutPending \in [Correct -> BOOLEAN]
    BY DEF IInv, TypeOK
  <2>. HIDE DEF repo
  <2>2. auxRepo'[i] = repo
    BY <1>1, <2>1
  <2>3. tryoutPending'[i] = (tryoutPending[i] \/ Count(repo, m.value) >= N - F)
    BY <1>1, <2>1, Zenon
  <2>. QED
    BY <2>2, <2>3
<1>. HIDE DEF repo
<1>5. Ledger(i)'
  BY <1>1 DEF Ledger, Relayed, Meant
<1>6. ASSUME Unanimous(v), OneVoice(v), Course(v, i)
      PROVE  OneVoice(v)' /\ Course(v, i)'
  <2>1. OneVoice(v)' /\ Started(v, i)' /\ Faithful(v, i)'
    BY <1>1, <1>6 DEF OneVoice, Course, Started, Faithful, Passed
  <2>2. Carried(v, i)'
    <3>1. Unhelped(v) /\ m.src \in Faulty => m.value # v
      BY <1>1, <1>2 DEF Unhelped
    <3>2. Unhelped(v)' = Unhelped(v)
      BY DEF Unhelped
    <3>. QED
      BY <1>1, <1>3, <1>4, <1>6, <3>1, <3>2 DEF Course, Carried
  <2>3. PassedWith(v, i)'
    BY <1>1, <1>6, PassedKept DEF Course, Passed
  <2>4. ASSUME round[i] <= LastRound(v), Find(repo, i), Count(repo, v) >= N - F
        PROVE  tryoutPending'[i] \/ advancePending[i] \/ done[i]
    <3>1. CASE m.value = v
      BY <1>4, <2>4, <3>1
    <3>2. CASE m.value # v
      <4>1. m.src # i
        BY <1>1, <1>2, <1>6, <2>4, <3>2 DEF OneVoice
      <4>2. Find(auxRepo[i], i) /\ Count(auxRepo[i], v) >= N - F
        BY <1>3, <2>4, <3>2, <4>1 DEF Find
      <4>. QED
        BY <1>4, <1>6, <2>4, <4>2 DEF Course, Shared
    <3>. QED
      BY <3>1, <3>2
  <2>5. Shared(v, i)'
    BY <1>1, <1>4, <1>6, <2>4 DEF Course, Shared
  <2>. QED
    BY <2>1, <2>2, <2>3, <2>5 DEF Course
<1>. QED
  BY <1>5, <1>6

LEMMA BroadcastAuxRest ==
    ASSUME IInv, NEW v \in Binary, NEW i \in Correct, Ledger(i),
           BroadcastAux(i), UNCHANGED scenario
    PROVE  /\ Ledger(i)'
           /\ Unanimous(v) /\ OneVoice(v) /\ Course(v, i) =>
                 OneVoice(v)' /\ Course(v, i)'
<1>1. /\ UNCHANGED <<round, est, done, decisions, binValueSet,
                     broadcastedBvalSet, bvalRepo, auxRepo, tryoutPending,
                     advancePending, inputsTaken, inputPc>>
      /\ binValuePending[i]
      /\ ~ binValuePending'[i]
      /\ auxBroadcasted'[i]
      /\ msgs \subseteq msgs'
      /\ ~ auxBroadcasted[i] =>
            \A w \in binValueSet[i] : Aux(i, round[i], w) \in msgs'
      /\ \A x \in msgs' \ msgs : /\ x.type = "aux"
                                 /\ x.round = round[i]
                                 /\ x.value \in binValueSet[i]
  BY DEF BroadcastAux, repoVars, inputVars, Aux, IInv, TypeOK
<1>2. Ledger(i)'
  <2>1. \A w \in Binary : Aux(i, round'[i], w) \in msgs' => w \in binValueSet'[i]
    BY <1>1 DEF Ledger, Relayed, Aux
  <2>2. Relayed(i)'
    BY <1>1, <2>1 DEF Ledger, Relayed
  <2>3. Meant(i)'
    BY <1>1 DEF Ledger, Meant
  <2>. QED
    BY <2>2, <2>3 DEF Ledger
<1>3. ASSUME Unanimous(v), OneVoice(v), Course(v, i)
      PROVE  OneVoice(v)' /\ Course(v, i)'
  <2>1. round[i] <= LastRound(v) => \A w \in binValueSet[i] : w = v
    BY <1>3, OnlyValue
  <2>2. OneVoice(v)'
    BY <1>1, <1>3, <2>1 DEF OneVoice
  <2>3. Carried(v, i)' /\ Faithful(v, i)' /\ Started(v, i)'
    BY <1>1, <1>3 DEF Course, Carried, Unhelped, Faithful, Passed, Started
  <2>4. PassedWith(v, i)'
    BY <1>1, <1>3, PassedKept DEF Course, Passed
  <2>5. round[i] <= LastRound(v) => Aux(i, round[i], v) \in msgs'
    <3>1. CASE auxBroadcasted[i]
      BY <1>1, <1>3, <3>1 DEF Course, Shared
    <3>2. CASE ~ auxBroadcasted[i]
      BY <1>1, <2>1, <3>2 DEF Ledger, Meant
    <3>. QED
      BY <3>1, <3>2
  <2>6. Shared(v, i)'
    BY <1>1, <1>3, <2>5 DEF Course, Shared
  <2>. QED
    BY <2>2, <2>3, <2>4, <2>6 DEF Course
<1>. QED
  BY <1>2, <1>3

LEMMA TryoutRest ==
    ASSUME IInv, NEW v \in Binary, NEW i \in Correct, Ledger(i),
           TryoutAgreement(i), UNCHANGED scenario
    PROVE  /\ Ledger(i)'
           /\ Unanimous(v) /\ OneVoice(v) /\ Course(v, i) =>
                 OneVoice(v)' /\ Course(v, i)'
<1>. DEFINE coin == Coin(round[i])
<1>1. /\ UNCHANGED <<round, binValueSet, broadcastedBvalSet, auxBroadcasted,
                     bvalRepo, auxRepo, binValuePending, inputsTaken, inputPc,
                     msgs>>
      /\ tryoutPending[i]
      /\ coin \in Binary
  BY DEF TryoutAgreement, repoVars, inputVars, Coin, Binary
<1>2. \/ /\ done[i] \/ binValueSet[i] = {}
         /\ UNCHANGED <<est, done, decisions, advancePending>>
      \/ /\ Cardinality(binValueSet[i]) > 1
         /\ est'[i] = coin
         /\ UNCHANGED <<done, decisions>>
         /\ advancePending'[i]
      \/ /\ \E w \in Binary : /\ binValueSet[i] = {w}
                              /\ w # coin
                              /\ est'[i] = w
         /\ UNCHANGED <<done, decisions>>
         /\ advancePending'[i]
      \/ /\ binValueSet[i] = {coin}
         /\ ~ done[i]
         /\ UNCHANGED est
         /\ decisions'[i] = decisions[i] \cup {coin}
         /\ advancePending'[i]
         /\ done'[i]
  <2>1. /\ est \in [Correct -> Binary \cup {Undefined}]
        /\ done \in [Correct -> BOOLEAN]
        /\ decisions \in [Correct -> SUBSET Binary]
        /\ advancePending \in [Correct -> BOOLEAN]
    BY DEF IInv, TypeOK
  <2>. HIDE DEF coin
  <2>2. ASSUME NEW w \in Binary, AgreementFailed(i, w)
        PROVE  est'[i] = w /\ advancePending'[i] /\ UNCHANGED <<done, decisions>>
    BY <2>1, <2>2 DEF AgreementFailed
  <2>3. ASSUME NEW w \in Binary, AgreementSuccess(i, w)
        PROVE  /\ UNCHANGED est
               /\ decisions'[i] = decisions[i] \cup {w}
               /\ advancePending'[i]
               /\ done'[i]
    BY <2>1, <2>3 DEF AgreementSuccess
  <2>4. \/ /\ done[i] \/ binValueSet[i] = {}
           /\ UNCHANGED <<est, done, decisions, advancePending>>
        \/ Cardinality(binValueSet[i]) > 1 /\ AgreementFailed(i, coin)
        \/ \E w \in Binary : /\ binValueSet[i] = {w}
                             /\ w # coin
                             /\ AgreementFailed(i, w)
        \/ /\ binValueSet[i] = {coin}
           /\ ~ done[i]
           /\ AgreementSuccess(i, coin)
    BY DEF TryoutAgreement, coin
  <2>. QED
    BY <1>1, <2>2, <2>3, <2>4
<1>. HIDE DEF coin
<1>3. /\ done[i] => done'[i]
      /\ advancePending[i] => advancePending'[i]
  BY <1>2
<1>4. Ledger(i)'
  <2>1. Relayed(i)'
    BY <1>1 DEF Ledger, Relayed
  <2>2. Meant(i)'
    BY <1>1, <1>2 DEF Ledger, Meant
  <2>. QED
    BY <2>1, <2>2 DEF Ledger
<1>5. ASSUME Unanimous(v), OneVoice(v), Course(v, i)
      PROVE  OneVoice(v)' /\ Course(v, i)'
  <2>1. OneVoice(v)' /\ Started(v, i)'
    BY <1>1, <1>5 DEF OneVoice, Course, Started
  <2>2. ASSUME round[i] <= LastRound(v)
        PROVE  binValueSet[i] = {} \/ binValueSet[i] = {v}
    BY <1>5, <2>2, OnlyValue
  <2>3. round[i] <= LastRound(v) => ~ (Cardinality(binValueSet[i]) > 1)
    <3>1. Cardinality({}) = 0 /\ Cardinality({v}) = 1
      BY FS_EmptySet, FS_Singleton
    <3>2. /\ binValueSet[i] = {} => Cardinality(binValueSet[i]) = 0
          /\ binValueSet[i] = {v} => Cardinality(binValueSet[i]) = 1
      BY <3>1
    <3>. QED
      BY <2>2, <3>2
  <2>4. Carried(v, i)'
    <3>1. ASSUME v = Zero, round[i] <= 2 PROVE est'[i] # One
      <4>1. round[i] <= LastRound(v) /\ est[i] # One
        BY <1>5, <3>1 DEF Course, Carried, LastRound, Zero, One
      <4>2. est'[i] = est[i] \/ est'[i] = v
        BY <1>2, <2>2, <2>3, <4>1
      <4>. QED
        BY <3>1, <4>1, <4>2 DEF Zero, One
    <3>. QED
      BY <1>1, <1>5, <3>1 DEF Course, Carried, Unhelped
  <2>5. ASSUME round[i] <= LastRound(v), binValueSet[i] # {}
        PROVE  /\ Unhelped(v) =>
                      Cardinality(AuxSenders(msgs, round[i], v)) >= N - F
               /\ F >= 1 => Bval(i, round[i], v) \in msgs
    <3>1. Unhelped(v) => Cardinality(AuxSenders(msgs, round[i], v)) >= N - F
      BY <1>1, <1>5, <2>5, TryoutBacked DEF Course
    <3>2. v \in binValueSet[i]
      BY <2>2, <2>5
    <3>3. Count(bvalRepo[i], v) \in Nat /\ Count(bvalRepo[i], v) >= 2 * F + 1
      BY <3>2, SavedFromNodes DEF IInv, CountsReached
    <3>4. Count(bvalRepo[i], v) >= F + 1
      BY <3>3, NodesAssumption
    <3>5. F >= 1 => Bval(i, round[i], v) \in msgs
      BY <3>4 DEF Ledger, Relayed
    <3>. QED
      BY <3>1, <3>5
  <2>6. PassedWith(v, i)'
    <3>1. CASE \A r \in 1 .. LastRound(v) : Passed(i, r)' => Passed(i, r)
      BY <1>1, <1>3, <1>5, <3>1, PassedKept DEF Course
    <3>2. CASE ~ \A r \in 1 .. LastRound(v) : Passed(i, r)' => Passed(i, r)
      <4>1. /\ ~ advancePending[i]
            /\ advancePending'[i]
            /\ round[i] \in 1 .. LastRound(v)
        BY <1>1, <3>2 DEF Passed
      <4>2. /\ round[i] <= LastRound(v)
            /\ binValueSet[i] = {v}
        <5>1. round[i] <= LastRound(v)
          BY <4>1 DEF LastRound
        <5>2. binValueSet[i] # {}
          BY <1>2, <2>3, <4>1, <5>1
        <5>. QED
          BY <2>2, <5>1, <5>2
      <4>3. round[i] = LastRound(v) => done'[i]
        <5>1. round[i] = LastRound(v) => coin = v
          BY DEF LastRound, coin, Coin, Binary, Zero, One
        <5>. QED
          BY <1>2, <2>3, <4>1, <4>2, <5>1
      <4>4. ASSUME NEW r \in 1 .. LastRound(v), Passed(i, r)'
            PROVE  Passed(i, r) \/ r = round[i]
        BY <1>1, <4>4 DEF Passed
      <4>5. \A r \in 1 .. LastRound(v) : Passed(i, r) =>
              /\ Unhelped(v) => Cardinality(AuxSenders(msgs', r, v)) >= N - F
              /\ F >= 1 => Bval(i, r, v) \in msgs'
              /\ r = LastRound(v) => done'[i]
        BY <1>1, <1>3, <1>5 DEF Course, PassedWith
      <4>6. Unhelped(v)' = Unhelped(v)
        BY DEF Unhelped
      <4>. QED
        BY <1>1, <2>5, <4>2, <4>3, <4>4, <4>5, <4>6 DEF PassedWith
    <3>. QED
      BY <3>1, <3>2
  <2>7. Faithful(v, i)'
    <3>1. CASE UNCHANGED <<done, decisions>>
      <4>1. Passed(i, LastRound(v)) => Passed(i, LastRound(v))'
        BY <1>1, <1>3 DEF Passed
      <4>. QED
        BY <1>5, <3>1, <4>1 DEF Course, Faithful
    <3>2. CASE /\ binValueSet[i] = {coin}
               /\ ~ done[i]
               /\ decisions'[i] = decisions[i] \cup {coin}
               /\ advancePending'[i]
               /\ done'[i]
      <4>1. ~ Passed(i, LastRound(v))
        BY <1>5, <3>2 DEF Course, PassedWith, LastRound
      <4>2. round[i] <= LastRound(v) /\ round[i] \in Nat /\ round[i] >= 1
        BY <4>1 DEF Passed, IInv, TypeOK, Rounds, LastRound
      <4>3. coin = v
        BY <1>5, <3>2, <4>2, OnlyValue
      <4>4. round[i] = LastRound(v)
        BY <4>2, <4>3 DEF coin, Coin, LastRound, Zero, One
      <4>5. Passed(i, LastRound(v))'
        BY <1>1, <3>2, <4>4 DEF Passed
      <4>. QED
        BY <1>5, <3>2, <4>3, <4>5 DEF Course, Faithful
    <3>. QED
      BY <1>2, <3>1, <3>2
  <2>8. Shared(v, i)'
    <3>1. ASSUME round[i] <= LastRound(v), Find(auxRepo[i], i)
          PROVE  advancePending'[i] \/ done'[i]
      <4>1. PICK e \in auxRepo[i] : e.src = i
        BY <3>1 DEF Find
      <4>2. Aux(i, round[i], e.value) \in msgs /\ e.value \in Binary
        BY <4>1 DEF IInv, TypeOK, Entry, EntriesSent
      <4>3. binValueSet[i] # {}
        BY <4>2 DEF Ledger, Relayed
      <4>. QED
        BY <1>2, <4>3
    <3>. QED
      BY <1>1, <1>5, <3>1 DEF Course, Shared
  <2>. QED
    BY <2>1, <2>4, <2>6, <2>7, <2>8 DEF Course
<1>. QED
  BY <1>4, <1>5

LEMMA AdvanceRest ==
    ASSUME IInv, NEW v \in Binary, NEW i \in Correct, Ledger(i),
           AdvanceRound(i), UNCHANGED scenario
    PROVE  /\ Ledger(i)'
           /\ Unanimous(v) /\ OneVoice(v) /\ Course(v, i) =>
                 OneVoice(v)' /\ Course(v, i)'
<1>1. /\ advancePending[i]
      /\ round'[i] = round[i] + 1
      /\ est'[i] = EstValue(i)
      /\ bvalRepo'[i] = {}
      /\ auxRepo'[i] = {}
      /\ binValueSet'[i] = {}
      /\ broadcastedBvalSet'[i] = {}
      /\ ~ auxBroadcasted'[i]
      /\ ~ binValuePending'[i]
      /\ ~ tryoutPending'[i]
      /\ ~ advancePending'[i]
      /\ msgs' = msgs \cup {Bval(i, round[i] + 1, EstValue(i))}
      /\ msgs \subseteq msgs'
      /\ \A x \in msgs' : x.type = "aux" => x \in msgs
      /\ UNCHANGED <<done, decisions, inputsTaken, inputPc>>
  BY DEF AdvanceRound, inputVars, IInv, TypeOK, Bval
<1>2. /\ round[i] \in Nat
      /\ round[i] >= 1
      /\ \A x \in msgs : x.round <= round[x.src]
      /\ EstValue(i) \in Binary
  BY DEF IInv, TypeOK, Rounds, EstValue, Binary
<1>3. Ledger(i)'
  <2>1. \A w : Count({}, w) = 0
    BY FS_EmptySet DEF Count, Voters
  <2>2. \A w \in Binary : ~ (Aux(i, round'[i], w) \in msgs')
    BY <1>1, <1>2 DEF Aux
  <2>3. ~ (0 >= F + 1) /\ ~ (0 >= 2 * F + 1)
    BY NodesAssumption
  <2>4. Relayed(i)'
    BY <1>1, <2>1, <2>2, <2>3 DEF Relayed
  <2>5. Meant(i)'
    BY <1>1, <1>2 DEF Ledger, Meant
  <2>. QED
    BY <2>4, <2>5 DEF Ledger
<1>4. ASSUME Unanimous(v), OneVoice(v), Course(v, i)
      PROVE  OneVoice(v)' /\ Course(v, i)'
  <2>1. ASSUME v = Zero, round[i] <= 2 PROVE EstValue(i) = v
    BY <1>2, <1>4, <2>1 DEF Course, Carried, EstValue, Binary, Zero, One, Undefined
  <2>2. OneVoice(v)'
    <3>1. ASSUME round[i] + 1 <= LastRound(v) PROVE EstValue(i) = v
      BY <1>2, <2>1, <3>1 DEF LastRound, Binary
    <3>. QED
      BY <1>1, <1>4, <3>1 DEF OneVoice, Bval
  <2>3. Carried(v, i)' /\ Faithful(v, i)'
    <3>1. Passed(i, LastRound(v)) => Passed(i, LastRound(v))'
      BY <1>1, <1>2 DEF Passed, LastRound
    <3>. QED
      BY <1>1, <1>2, <1>4, <2>1, <3>1 DEF Course, Carried, Faithful, Zero, One
  <2>4. PassedWith(v, i)'
    <3>1. \A r \in 1 .. LastRound(v) : Passed(i, r)' => Passed(i, r)
      BY <1>1, <1>2 DEF Passed, LastRound
    <3>. QED
      BY <1>1, <1>4, <3>1, PassedKept DEF Course
  <2>5. Shared(v, i)'
    BY <1>1 DEF Shared, Find
  <2>6. Started(v, i)'
    <3>1. CASE round[i] >= 2
      BY <1>1, <1>2, <1>4, <3>1 DEF Course, Started
    <3>2. CASE round[i] = 1 /\ LastRound(v) = 2
      <4>1. v = Zero
        BY <3>2 DEF LastRound, Binary
      <4>2. EstValue(i) = v
        BY <2>1, <3>2, <4>1
      <4>. QED
        BY <1>1, <3>2, <4>2 DEF Started
    <3>3. CASE round[i] = 1 /\ LastRound(v) # 2
      BY <1>1, <3>3 DEF Started
    <3>. QED
      BY <1>2, <3>1, <3>2, <3>3
  <2>. QED
    BY <2>2, <2>3, <2>4, <2>5, <2>6 DEF Course
<1>. QED
  BY <1>3, <1>4

\* A step of i leaves the other nodes alone and tells what i has to say.
LEMMA OthersRest ==
    ASSUME IInv, NEW v \in Binary, NEW i \in Correct, NodeStep(i),
           UNCHANGED scenario, NEW j \in Correct, j # i
    PROVE  /\ Ledger(j) => Ledger(j)'
           /\ Course(v, j) => Course(v, j)'
<1>1. /\ round'[j] = round[j]
      /\ est'[j] = est[j]
      /\ done'[j] = done[j]
      /\ decisions'[j] = decisions[j]
      /\ binValueSet'[j] = binValueSet[j]
      /\ broadcastedBvalSet'[j] = broadcastedBvalSet[j]
      /\ auxBroadcasted'[j] = auxBroadcasted[j]
      /\ bvalRepo'[j] = bvalRepo[j]
      /\ auxRepo'[j] = auxRepo[j]
      /\ binValuePending'[j] = binValuePending[j]
      /\ tryoutPending'[j] = tryoutPending[j]
      /\ advancePending'[j] = advancePending[j]
      /\ inputsTaken'[j] = inputsTaken[j]
      /\ inputPc'[j] = inputPc[j]
      /\ msgs \subseteq msgs'
      /\ \A x \in msgs' \ msgs : x.src = i
  <2>. USE DEF IInv, TypeOK
  <2>1. CASE CallHandleInput(i)
    BY <2>1 DEF CallHandleInput, nodeVars, repoVars, signalVars
  <2>2. CASE SetInput(i)
    BY <2>2 DEF SetInput, repoVars, signalVars
  <2>3. CASE BroadcastInput(i)
    BY <2>3 DEF BroadcastInput, nodeVars, repoVars, signalVars, Bval
  <2>4. ASSUME NEW m \in msgs \cup scenario.faultyTo[i], HandleBvalRequest(i, m)
        PROVE  <1>1!:
    BY <2>4 DEF HandleBvalRequest, inputVars, Bval
  <2>5. ASSUME NEW m \in msgs \cup scenario.faultyTo[i], HandleAuxRequest(i, m)
        PROVE  <1>1!:
    BY <2>5 DEF HandleAuxRequest, nodeVars, inputVars
  <2>6. CASE BroadcastAux(i)
    BY <2>6 DEF BroadcastAux, repoVars, inputVars, Aux
  <2>7. CASE TryoutAgreement(i)
    BY <2>7 DEF TryoutAgreement, AgreementFailed, AgreementSuccess, repoVars,
                inputVars
  <2>8. CASE AdvanceRound(i)
    BY <2>8 DEF AdvanceRound, inputVars, Bval
  <2>. QED
    BY <2>1, <2>2, <2>3, <2>4, <2>5, <2>6, <2>7, <2>8 DEF NodeStep, Handle
<1>2. \A r, w : Aux(j, r, w) \in msgs' => Aux(j, r, w) \in msgs
  BY <1>1 DEF Aux
<1>3. Ledger(j) => Ledger(j)'
  BY <1>1, <1>2 DEF Ledger, Relayed, Meant
<1>4. ASSUME Course(v, j) PROVE Course(v, j)'
  <2>1. PassedWith(v, j)'
    BY <1>1, <1>4, PassedKept DEF Course, Passed
  <2>2. Carried(v, j)' /\ Faithful(v, j)' /\ Shared(v, j)' /\ Started(v, j)'
    BY <1>1, <1>4 DEF Course, Carried, Unhelped, Faithful, Passed, Shared, Started
  <2>. QED
    BY <2>1, <2>2 DEF Course
<1>. QED
  BY <1>3, <1>4

LEMMA StepRest ==
    ASSUME IInv, NEW v \in Binary, NEW i \in Correct, Ledger(i), NodeStep(i),
           UNCHANGED scenario
    PROVE  /\ Ledger(i)'
           /\ Unanimous(v) /\ OneVoice(v) /\ Course(v, i) =>
                 OneVoice(v)' /\ Course(v, i)'
<1>1. ASSUME NEW m \in msgs \cup scenario.faultyTo[i], Handle(i, m)
      PROVE  /\ Ledger(i)'
             /\ Unanimous(v) /\ OneVoice(v) /\ Course(v, i) =>
                   OneVoice(v)' /\ Course(v, i)'
  BY <1>1, BvalRest, AuxRest DEF Handle
<1>. QED
  BY <1>1, CallRest, SetRest, BroadcastRest, BroadcastAuxRest, TryoutRest,
     AdvanceRest DEF NodeStep

LEMMA RestInvariance == Spec => []RestInv
<1>1. Init => RestInv
  <2>. SUFFICES ASSUME Init PROVE RestInv
    OBVIOUS
  <2>1. ASSUME NEW i \in Correct PROVE Ledger(i)
    <3>1. \A w : Count({}, w) = 0
      BY FS_EmptySet DEF Count, Voters
    <3>2. ~ (0 >= F + 1) /\ ~ (0 >= 2 * F + 1)
      BY NodesAssumption
    <3>. QED
      BY <3>1, <3>2 DEF Init, Ledger, Relayed, Meant
  <2>2. ASSUME NEW i \in Correct, NEW v \in Binary PROVE Course(v, i)
    <3>1. Carried(v, i)
      BY DEF Init, Carried, One, Undefined
    <3>2. PassedWith(v, i)
      BY DEF Init, PassedWith, Passed, LastRound
    <3>3. Faithful(v, i) /\ Shared(v, i) /\ Started(v, i)
      BY DEF Init, Faithful, Shared, Started, Find
    <3>. QED
      BY <3>1, <3>2, <3>3 DEF Course
  <2>3. \A v \in Binary : OneVoice(v)
    BY DEF Init, OneVoice
  <2>. QED
    BY <2>1, <2>2, <2>3 DEF RestInv
<1>2. IInv /\ RestInv /\ [Next]_vars => RestInv'
  <2>. SUFFICES ASSUME IInv, RestInv, [Next]_vars PROVE RestInv'
    OBVIOUS
  <2>1. ASSUME NEW i \in Correct, NodeStep(i), UNCHANGED scenario
        PROVE  RestInv'
    <3>1. ASSUME NEW j \in Correct PROVE Ledger(j)'
      BY <2>1, StepRest, OthersRest DEF RestInv, Binary
    <3>2. ASSUME NEW v \in Binary, Unanimous(v)'
          PROVE  OneVoice(v)' /\ \A j \in Correct : Course(v, j)'
      <4>1. Unanimous(v)
        BY <2>1, <3>2 DEF Unanimous, Inputs
      <4>2. OneVoice(v)' /\ Course(v, i)'
        BY <2>1, <4>1, StepRest DEF RestInv
      <4>3. ASSUME NEW j \in Correct, j # i PROVE Course(v, j)'
        BY <2>1, <4>1, <4>3, OthersRest DEF RestInv
      <4>. QED
        BY <4>2, <4>3
    <3>. QED
      BY <3>1, <3>2 DEF RestInv
  <2>2. CASE UNCHANGED vars
    BY <2>2 DEF vars, nodeVars, repoVars, signalVars, inputVars, RestInv, Ledger,
                Relayed, Meant, Unanimous, Unhelped, Inputs, OneVoice, Course,
                Carried, PassedWith, Passed, Faithful, Shared, Started
  <2>. QED
    BY <2>1, <2>2 DEF Next
<1>. QED
  BY <1>1, <1>2, Invariance, PTL DEF Spec

\* At rest, the messages of correct nodes have all been counted.
LEMMA AllCounted ==
    ASSUME IInv, NEW v \in Binary, OneVoice(v), NEW i \in Correct, AtRest(i),
           round[i] <= LastRound(v)
    PROVE  /\ Cardinality(BvalSenders(msgs, round[i], v)) <= Count(bvalRepo[i], v)
           /\ Cardinality(AuxSenders(msgs, round[i], v)) <= Count(auxRepo[i], v)
           /\ Cardinality(BvalSenders(msgs, round[i], v)) \in Nat
           /\ Cardinality(AuxSenders(msgs, round[i], v)) \in Nat
           /\ Count(bvalRepo[i], v) \in Nat
           /\ Count(auxRepo[i], v) \in Nat
           /\ Aux(i, round[i], v) \in msgs => Find(auxRepo[i], i)
<1>1. ASSUME NEW j \in Correct, Bval(j, round[i], v) \in msgs
      PROVE  j \in Voters(bvalRepo[i], v)
  <2>1. PICK e \in bvalRepo[i] : e.src = j
    BY <1>1 DEF AtRest, Current, Find, Bval
  <2>2. Bval(j, round[i], e.value) \in msgs
    BY <2>1 DEF IInv, EntriesSent
  <2>3. e.value = v
    BY <2>2 DEF OneVoice, Bval
  <2>. QED
    BY <2>1, <2>3 DEF Voters
<1>2. ASSUME NEW j \in Correct, Aux(j, round[i], v) \in msgs
      PROVE  j \in Voters(auxRepo[i], v) /\ Find(auxRepo[i], j)
  <2>1. PICK e \in auxRepo[i] : e.src = j
    BY <1>2 DEF AtRest, Current, Find, Aux
  <2>2. Aux(j, round[i], e.value) \in msgs
    BY <2>1 DEF IInv, EntriesSent
  <2>3. e.value = v
    BY <2>2 DEF OneVoice, Aux
  <2>. QED
    BY <2>1, <2>3 DEF Voters, Find
<1>3. /\ BvalSenders(msgs, round[i], v) \subseteq Voters(bvalRepo[i], v)
      /\ AuxSenders(msgs, round[i], v) \subseteq Voters(auxRepo[i], v)
  BY <1>1, <1>2 DEF BvalSenders, AuxSenders
<1>4. /\ Voters(bvalRepo[i], v) \subseteq Nodes
      /\ Voters(auxRepo[i], v) \subseteq Nodes
  BY SavedFromNodes DEF IInv, Voters
<1>5. IsFiniteSet(Voters(bvalRepo[i], v)) /\ IsFiniteSet(Voters(auxRepo[i], v))
  BY <1>4, NodesFinite, FS_Subset
<1>6. /\ Cardinality(BvalSenders(msgs, round[i], v)) <= Count(bvalRepo[i], v)
      /\ IsFiniteSet(BvalSenders(msgs, round[i], v))
  BY <1>3, <1>5, FS_Subset DEF Count
<1>7. /\ Cardinality(AuxSenders(msgs, round[i], v)) <= Count(auxRepo[i], v)
      /\ IsFiniteSet(AuxSenders(msgs, round[i], v))
  BY <1>3, <1>5, FS_Subset DEF Count
<1>. QED
  BY <1>2, <1>5, <1>6, <1>7, FS_CardinalityType DEF Count

\* The correct nodes are enough for every threshold.
LEMMA CorrectEnough ==
    /\ Cardinality(Correct) \in Nat
    /\ Cardinality(Correct) >= N - F
    /\ N - F >= 2 * F + 1
<1>1. /\ Correct = Nodes \ (Nodes \cap Faulty)
      /\ Nodes \cap Faulty = Faulty
  BY NodesAssumption DEF Correct
<1>2. Cardinality(Nodes \ Faulty) = Cardinality(Nodes) - Cardinality(Nodes \cap Faulty)
  BY NodesFinite, FS_Difference
<1>3. Cardinality(Correct) = N - Cardinality(Faulty)
  BY <1>1, <1>2 DEF Correct, N
<1>. QED
  BY <1>3, NodesFinite, NodesAssumption, FS_CardinalityType

\* At rest, a round that all correct nodes have reached is left by each of them,
\* or the node has decided: the BVALs of all are there, because the node that has
\* left the round proves that F+1 correct nodes have told v and everybody has
\* relayed it, or because everybody is in the round with v as its estimate.
LEMMA RoundLeft ==
    ASSUME IInv, RestInv, MaxRound >= 2, NEW v \in Binary, Unanimous(v),
           Unhelped(v),
           \A i \in Correct : AtRest(i),
           NEW r \in 1 .. LastRound(v), \A i \in Correct : round[i] >= r,
           NEW i \in Correct
    PROVE  Passed(i, r) \/ done[i]
<1>. SUFFICES ASSUME ~ Passed(i, r), ~ done[i] PROVE FALSE
  OBVIOUS
<1>1. /\ OneVoice(v)
      /\ \A j \in Correct : Ledger(j) /\ Course(v, j)
      /\ \A j \in Correct : round[j] \in Nat
  BY DEF RestInv, IInv, TypeOK, Rounds
<1>2. r \in Nat /\ r <= LastRound(v)
  BY DEF LastRound
<1>3. \A j \in Correct : Passed(j, r) \/ (round[j] = r /\ ~ advancePending[j])
  BY <1>1, <1>2 DEF Passed
<1>4. ASSUME NEW j \in Correct, round[j] = r
      PROVE  /\ Cardinality(BvalSenders(msgs, r, v)) <= Count(bvalRepo[j], v)
             /\ Cardinality(AuxSenders(msgs, r, v)) <= Count(auxRepo[j], v)
             /\ Cardinality(BvalSenders(msgs, r, v)) \in Nat
             /\ Cardinality(AuxSenders(msgs, r, v)) \in Nat
             /\ Count(bvalRepo[j], v) \in Nat
             /\ Count(auxRepo[j], v) \in Nat
             /\ Aux(j, r, v) \in msgs => Find(auxRepo[j], j)
  BY <1>1, <1>2, <1>4, AllCounted
<1>5. ASSUME NEW j \in Correct, round[j] = r,
             Cardinality(BvalSenders(msgs, r, v)) >= 2 * F + 1
      PROVE  Aux(j, r, v) \in msgs
  <2>1. Count(bvalRepo[j], v) >= 2 * F + 1
    BY <1>4, <1>5, NodesAssumption
  <2>2. v \in binValueSet[j]
    BY <1>1, <2>1 DEF Ledger, Relayed
  <2>. QED
    BY <1>1, <1>2, <1>5, <2>2 DEF Course, Shared, AtRest
<1>6. ASSUME BvalSenders(msgs, r, v) = Correct
      PROVE  Cardinality(BvalSenders(msgs, r, v)) >= 2 * F + 1
  BY <1>6, CorrectEnough, NodesAssumption, NodesFinite
<1>7. /\ Cardinality(BvalSenders(msgs, r, v)) >= 2 * F + 1
      /\ Cardinality(AuxSenders(msgs, r, v)) >= N - F
  <2>1. CASE \E j \in Correct : Passed(j, r)
    <3>1. PICK j \in Correct : Passed(j, r)
      BY <2>1
    <3>2. Cardinality(AuxSenders(msgs, r, v)) >= N - F
      BY <1>1, <3>1 DEF Course, PassedWith
    <3>3. Cardinality(BvalSenders(msgs, r, v)) >= F + 1
      <4>1. AuxSenders(msgs, r, v) # {}
        <5>1. Cardinality(AuxSenders(msgs, r, v)) \in Nat
          BY SpeakersGrow DEF AuxSenders
        <5>2. Cardinality(AuxSenders(msgs, r, v)) # 0
          BY <3>2, <5>1, CorrectEnough, NodesAssumption, NodesFinite
        <5>. QED
          BY <5>2, FS_EmptySet
      <4>. QED
        BY <4>1 DEF AuxSenders, Aux, IInv, AuxBacked
    <3>4. CASE F = 0
      BY <3>2, <3>3, <3>4
    <3>5. CASE F >= 1
      <4>1. ASSUME NEW k \in Correct PROVE Bval(k, r, v) \in msgs
        <5>1. CASE Passed(k, r)
          BY <1>1, <3>5, <5>1 DEF Course, PassedWith
        <5>2. CASE round[k] = r
          <6>1. Count(bvalRepo[k], v) >= F + 1
            BY <1>4, <3>3, <5>2, NodesAssumption
          <6>. QED
            BY <1>1, <3>5, <5>2, <6>1 DEF Ledger, Relayed
        <5>. QED
          BY <1>3, <5>1, <5>2
      <4>2. BvalSenders(msgs, r, v) = Correct
        BY <4>1 DEF BvalSenders
      <4>. QED
        BY <1>6, <3>2, <4>2
    <3>. QED
      BY <3>4, <3>5, NodesAssumption
  <2>2. CASE \A j \in Correct : ~ Passed(j, r)
    <3>1. \A j \in Correct : round[j] = r /\ ~ advancePending[j]
      BY <1>3, <2>2
    <3>2. ASSUME NEW j \in Correct PROVE Bval(j, r, v) \in msgs
      <4>1. CASE r = 1
        <5>1. inputsTaken[j] \in Nat /\ Inputs[j] = <<v>> /\ inputPc[j] = "none"
          BY DEF IInv, TypeOK, Unanimous, AtRest
        <5>2. inputsTaken[j] >= 1
          <6>1. CASE inputsTaken[j] = 0
            <7>1. ~ Idle(j)
              BY <5>1, <6>1 DEF AtRest
            <7>2. round[j] = 1 /\ est[j] # Undefined
              BY <3>1, <4>1, <7>1 DEF Idle
            <7>. QED
              BY <1>1, <3>1, <5>1, <7>2 DEF Ledger, Meant
          <6>. QED
            BY <5>1, <6>1
        <5>. QED
          BY <1>1, <3>1, <4>1, <5>2 DEF Course, Started
      <4>2. CASE r = 2
        BY <1>1, <1>2, <3>1, <4>2 DEF Course, Started, LastRound
      <4>. QED
        BY <1>2, <4>1, <4>2 DEF LastRound
    <3>3. Cardinality(BvalSenders(msgs, r, v)) >= 2 * F + 1
      <4>1. BvalSenders(msgs, r, v) = Correct
        BY <3>2 DEF BvalSenders
      <4>. QED
        BY <1>6, <4>1
    <3>4. AuxSenders(msgs, r, v) = Correct
      BY <1>5, <3>1, <3>3 DEF AuxSenders
    <3>. QED
      BY <3>3, <3>4, CorrectEnough
  <2>. QED
    BY <2>1, <2>2
<1>8. round[i] = r /\ ~ advancePending[i]
  BY <1>3
<1>9. Find(auxRepo[i], i)
  BY <1>4, <1>5, <1>7, <1>8
<1>10. Count(auxRepo[i], v) >= N - F
  BY <1>4, <1>7, <1>8, NodesFinite, NodesAssumption
<1>. QED
  BY <1>1, <1>2, <1>8, <1>9, <1>10 DEF Course, Shared, AtRest

\* For every N > 3F, every choice of the faulty nodes' BVALs and of their AUXs for
\* the other value: the network cannot come to rest on unanimous inputs with an
\* undecided correct node, although the run loop drops signals and requests of
\* other rounds (bba.go: run, handleAuxRequest, tryoutAgreement, advanceRound).
THEOREM UnanimousDecides == Spec => []DecidedAtRest
<1>1. IInv /\ RestInv => DecidedAtRest
  <2>. SUFFICES ASSUME IInv, RestInv, NEW v \in Binary, Unanimous(v),
                       Unhelped(v), MaxRound >= 2,
                       \A i \in Correct : AtRest(i), NEW i \in Correct
                PROVE  decisions[i] # {}
    BY DEF DecidedAtRest
  <2>1. /\ \A j \in Correct : round[j] \in Nat /\ round[j] >= 1
        /\ 1 \in 1 .. LastRound(v)
        /\ LastRound(v) \in {1, 2}
    BY DEF IInv, TypeOK, Rounds, LastRound
  <2>2. \A j \in Correct : done[j] =>
           decisions[j] # {} /\ (advancePending[j] \/ round[j] > 1)
    BY DEF RestInv, Ledger, Meant
  <2>3. \A j \in Correct : Passed(j, 1)
    BY <2>1, <2>2, RoundLeft DEF Passed
  <2>4. Passed(i, LastRound(v)) \/ done[i]
    <3>1. CASE LastRound(v) = 1
      BY <2>3, <3>1
    <3>2. CASE LastRound(v) = 2
      <4>1. \A j \in Correct : round[j] >= 2
        BY <2>1, <2>3 DEF Passed, AtRest
      <4>. QED
        BY <3>2, <4>1, RoundLeft
    <3>. QED
      BY <2>1, <3>1, <3>2
  <2>5. LastRound(v) \in 1 .. LastRound(v)
    BY <2>1
  <2>. QED
    BY <2>2, <2>4, <2>5 DEF RestInv, Course, PassedWith
<1>. QED
  BY <1>1, Invariance, RestInvariance, PTL

-----------------------------------------------------------------------------
(* Unanimous inputs: validity, agreement, and the abstract specification.  *)

\* If all correct processes propose the same value, the other one cannot be
\* decided (docs/BBA-EN.md:19).
Validity ==
    \A v \in Binary : Unanimous(v) => \A i \in Correct : decisions[i] \subseteq {v}

\* The other value is never decided, whatever the faulty nodes send, F at most of
\* N > 3F (bba.go: handleBvalRequest, tryoutAgreement, advanceRound).
THEOREM UnanimousValidity == Spec => []Validity
<1>1. RestInv => Validity
  BY DEF RestInv, Course, Faithful, Validity
<1>. QED
  BY <1>1, RestInvariance, PTL

\* Agreement and the estimates it rests on, when ACS gives all correct nodes the
\* same value: whoever leaves the deciding round has decided in it. Without the
\* premise two values may be decided (bba.go: agreementSuccess).
THEOREM UnanimousSettles ==
    Spec => []((\E v \in Binary : Unanimous(v)) => Settled)
<1>1. IInv /\ RestInv => ((\E v \in Binary : Unanimous(v)) => Settled)
  <2>. SUFFICES ASSUME IInv, RestInv, NEW v \in Binary, Unanimous(v),
                       NEW i \in Correct, NEW j \in Correct, NEW u \in decisions[i]
                PROVE  /\ \A w \in decisions[j] : u = w
                       /\ ~ (~ done[j] /\ round[j] > DecisionRound(i))
    BY DEF Settled
  <2>1. \A k \in Correct : /\ Faithful(v, k)
                           /\ PassedWith(v, k)
                           /\ round[k] \in Nat
    BY DEF RestInv, Course, IInv, TypeOK, Rounds
  <2>2. /\ LastRound(v) \in 1 .. LastRound(v)
        /\ LastRound(v) \in Nat
    BY DEF LastRound
  <2>3. DecisionRound(i) \in Int /\ DecisionRound(i) >= LastRound(v)
    BY <2>1, <2>2 DEF Faithful, Passed, DecisionRound
  <2>4. round[j] > LastRound(v) => done[j]
    BY <2>1, <2>2 DEF PassedWith, Passed
  <2>5. round[j] > DecisionRound(i) => done[j]
    BY <2>1, <2>2, <2>3, <2>4
  <2>. QED
    BY <2>1, <2>5 DEF Faithful
<1>. QED
  BY <1>1, Invariance, RestInvariance, PTL

\* Nothing is said before some node is given a value.
SomeGiven == \E j \in Correct : Given[j] # {}

Heard == msgs # {} \/ (\E i \in Correct : advancePending[i]) => SomeGiven

LEMMA HeardStep ==
    ASSUME IInv, Heard, NEW i \in Correct, NodeStep(i), UNCHANGED scenario
    PROVE  Heard'
<1>1. SomeGiven => SomeGiven'
  BY GivenGrows DEF IInv, SomeGiven
<1>2. ASSUME (msgs # {} \/ \E j \in Correct : advancePending[j])
                \/ (msgs' = {} /\ \A j \in Correct : ~ advancePending'[j])
      PROVE  Heard'
  BY <1>1, <1>2 DEF Heard
<1>3. CASE UNCHANGED <<msgs, advancePending>>
  BY <1>2, <1>3
<1>4. CASE BroadcastInput(i)
  <2>1. inputsTaken[i] + 1 \in 1 .. Taken(i)
    BY <1>4 DEF BroadcastInput, Taken, IInv, TypeOK
  <2>2. SomeGiven
    BY <2>1 DEF SomeGiven, Given
  <2>. QED
    BY <1>1, <2>2 DEF Heard
<1>5. ASSUME NEW m \in msgs \cup scenario.faultyTo[i], HandleBvalRequest(i, m),
             msgs' # msgs
      PROVE  Heard'
  <2>1. Count(bvalRepo[i] \cup {[src |-> m.src, value |-> m.value]}, m.value)
          = F + 1
    BY <1>5 DEF HandleBvalRequest, BvalBroadcastThreshold
  <2>2. Count(bvalRepo[i] \cup {[src |-> m.src, value |-> m.value]}, m.value)
          >= F + 1
    BY <2>1, NodesAssumption
  <2>3. msgs # {}
    BY <1>5, <2>2, RelayedVoter
  <2>. QED
    BY <1>2, <2>3
<1>6. binValueSet[i] # {} => msgs # {}
  BY BinValueVoter
<1>7. CASE BroadcastAux(i)
  <2>1. msgs' # msgs => binValueSet[i] # {}
    BY <1>7 DEF BroadcastAux
  <2>2. UNCHANGED advancePending
    BY <1>7 DEF BroadcastAux
  <2>. QED
    BY <1>2, <1>3, <1>6, <2>1, <2>2
<1>8. CASE TryoutAgreement(i)
  <2>1. CASE binValueSet[i] # {}
    BY <1>2, <1>6, <2>1
  <2>2. CASE binValueSet[i] = {}
    <3>1. ~ (Cardinality(binValueSet[i]) > 1)
      BY <2>2, FS_EmptySet
    <3>2. UNCHANGED <<msgs, advancePending>>
      BY <1>8, <2>2, <3>1 DEF TryoutAgreement
    <3>. QED
      BY <1>3, <3>2
  <2>. QED
    BY <2>1, <2>2
<1>9. CASE AdvanceRound(i)
  BY <1>2, <1>9 DEF AdvanceRound
<1>10. CASE CallHandleInput(i) \/ SetInput(i)
  BY <1>3, <1>10 DEF CallHandleInput, SetInput, signalVars
<1>11. ASSUME NEW m \in msgs \cup scenario.faultyTo[i], Handle(i, m)
       PROVE  Heard'
  BY <1>3, <1>5, <1>11 DEF Handle, HandleBvalRequest, HandleAuxRequest
<1>. QED
  BY <1>4, <1>7, <1>8, <1>9, <1>10, <1>11 DEF NodeStep

LEMMA HeardInvariance == Spec => []Heard
<1>1. Init => Heard
  BY DEF Init, Heard
<1>2. IInv /\ Heard /\ [Next]_vars => Heard'
  <2>. SUFFICES ASSUME IInv, Heard, [Next]_vars PROVE Heard'
    OBVIOUS
  <2>1. CASE UNCHANGED vars
    BY <2>1 DEF vars, signalVars, inputVars, Heard, SomeGiven, Given, Taken, Inputs
  <2>. QED
    BY <2>1, HeardStep DEF Next
<1>. QED
  BY <1>1, <1>2, Invariance, PTL DEF Spec

\* A step gives a value, decides one, or does neither.
LEMMA StepRefines ==
    ASSUME IInv, RestInv, Heard, NEW v \in Binary, Unanimous(v),
           NEW i \in Correct, NodeStep(i), UNCHANGED scenario
    PROVE  BA!Next \/ UNCHANGED <<Given, decisions>>
<1>1. /\ inputsTaken \in [Correct -> Nat]
      /\ inputPc \in [Correct -> {"none", "set", "broadcast"}]
      /\ decisions \in [Correct -> SUBSET Binary]
      /\ Inputs' = Inputs
  BY DEF IInv, TypeOK, Inputs
<1>2. CASE SetInput(i)
  <2>1. /\ Taken(i) = inputsTaken[i]
        /\ Taken(i)' = inputsTaken[i] + 1
        /\ \A j \in Correct : j # i => Taken(j)' = Taken(j)
    BY <1>1, <1>2 DEF SetInput, Taken
  <2>2. 1 .. Taken(i)' = (1 .. Taken(i)) \cup {inputsTaken[i] + 1}
    BY <1>1, <2>1
  <2>3. Given' = [Given EXCEPT ![i] = @ \cup {NextInput(i)}]
    <3>1. Given'[i] = Given[i] \cup {NextInput(i)}
      <4>1. /\ Given'[i] = {Inputs[i][k] : k \in 1 .. Taken(i)'}
            /\ Given[i] = {Inputs[i][k] : k \in 1 .. Taken(i)}
        BY <1>1 DEF Given
      <4>. QED
        BY <2>2, <4>1 DEF NextInput
    <3>2. \A j \in Correct : j # i => Given'[j] = Given[j]
      BY <1>1, <2>1 DEF Given
    <3>3. Given' = [j \in Correct |-> Given'[j]] /\ Given = [j \in Correct |-> Given[j]]
      BY DEF Given
    <3>. QED
      BY <3>1, <3>2, <3>3
  <2>4. NextInput(i) \in Binary
    BY <1>2, InputValue DEF SetInput
  <2>5. UNCHANGED decisions
    BY <1>2 DEF SetInput
  <2>. QED
    BY <2>3, <2>4, <2>5 DEF BA!Next, BA!Give
<1>3. ASSUME ~ SetInput(i) PROVE UNCHANGED Given
  <2>1. CASE CallHandleInput(i)
    BY <1>1, <2>1 DEF CallHandleInput, Given, Taken
  <2>2. CASE BroadcastInput(i)
    <3>1. \A j \in Correct : Taken(j)' = Taken(j)
      BY <1>1, <2>2 DEF BroadcastInput, Taken
    <3>. QED
      BY <1>1, <3>1 DEF Given
  <2>3. CASE UNCHANGED <<inputsTaken, inputPc>>
    BY <1>1, <2>3 DEF Given, Taken
  <2>4. \/ CallHandleInput(i) \/ BroadcastInput(i)
        \/ UNCHANGED <<inputsTaken, inputPc>>
    BY <1>3 DEF NodeStep, Handle, HandleBvalRequest, HandleAuxRequest,
                BroadcastAux, TryoutAgreement, AdvanceRound, inputVars
  <2>. QED
    BY <2>1, <2>2, <2>3, <2>4
<1>4. CASE TryoutAgreement(i)
  <2>1. UNCHANGED Given
    BY <1>1, <1>4 DEF TryoutAgreement, inputVars, Given, Taken
  <2>2. CASE UNCHANGED decisions
    BY <2>1, <2>2
  <2>3. CASE ~ UNCHANGED decisions
    <3>1. PICK u \in Binary : /\ ~ done[i]
                              /\ binValueSet[i] = {u}
                              /\ u = Coin(round[i])
                              /\ decisions' = [decisions EXCEPT ![i] = @ \cup {u}]
      BY <1>4, <2>3 DEF TryoutAgreement, AgreementFailed, AgreementSuccess
    <3>2. \A j \in Correct : Course(v, j)
      BY DEF RestInv
    <3>3. OneVoice(v)
      BY DEF RestInv
    <3>4. round[i] <= LastRound(v)
      <4>1. LastRound(v) \in 1 .. LastRound(v) /\ round[i] \in Nat
        BY DEF LastRound, IInv, TypeOK, Rounds
      <4>2. ~ Passed(i, LastRound(v))
        BY <3>1, <3>2, <4>1 DEF Course, PassedWith
      <4>. QED
        BY <4>1, <4>2 DEF Passed
    <3>5. u = v
      BY <3>1, <3>3, <3>4, OnlyValue
    <3>6. \A j \in Correct : decisions[j] \subseteq {v}
      BY <3>2 DEF Course, Faithful
    <3>7. decisions[i] = {}
      BY <3>1, <3>2 DEF Course, Faithful
    <3>8. \E j \in Correct : v \in Given[j]
      <4>1. SomeGiven
        BY <3>1, BinValueVoter DEF Heard
      <4>2. PICK j \in Correct : Given[j] # {}
        BY <4>1 DEF SomeGiven
      <4>3. 1 \in 1 .. Taken(j) /\ Inputs[j][1] = v
        BY <1>1, <4>2 DEF Given, Taken, Unanimous
      <4>4. v \in Given[j]
        BY <4>2, <4>3 DEF Given
      <4>. QED
        BY <4>4
    <3>9. decisions' = [decisions EXCEPT ![i] = {v}]
      BY <1>1, <3>1, <3>5, <3>7
    <3>10. BA!Decide(i, v)
      BY <2>1, <3>6, <3>7, <3>8, <3>9 DEF BA!Decide
    <3>. QED
      BY <3>10 DEF BA!Next
  <2>. QED
    BY <2>2, <2>3
<1>5. CASE ~ SetInput(i) /\ ~ TryoutAgreement(i)
  <2>1. UNCHANGED decisions
    BY <1>5 DEF NodeStep, CallHandleInput, BroadcastInput, Handle,
                HandleBvalRequest, HandleAuxRequest, BroadcastAux, AdvanceRound,
                nodeVars
  <2>. QED
    BY <1>3, <1>5, <2>1
<1>. QED
  BY <1>2, <1>4, <1>5

\* bba.go implements BinaryAgreement when ACS gives all correct nodes the same
\* value: one decision a node, for that value, after somebody was given it
\* (bba.go: HandleInput, agreementSuccess).
THEOREM UnanimousRefinesBA ==
    Spec /\ (\E v \in Binary : Unanimous(v)) => ImplementsBA
<1>. DEFINE OneInput == \E v \in Binary : Unanimous(v)
<1>1. Init => BA!Init
  BY DEF Init, BA!Init, Given, Taken
<1>2. OneInput /\ [Next]_vars => OneInput'
  BY DEF Next, vars, Unanimous, Inputs
<1>3. IInv /\ RestInv /\ Heard /\ OneInput /\ [Next]_vars => [BA!Next]_(BA!vars)
  <2>. SUFFICES ASSUME IInv, RestInv, Heard, OneInput, [Next]_vars
                PROVE  BA!Next \/ UNCHANGED <<Given, decisions>>
    BY DEF BA!vars
  <2>1. CASE UNCHANGED vars
    BY <2>1 DEF vars, nodeVars, inputVars, Given, Taken, Inputs
  <2>. QED
    BY <2>1, StepRefines DEF Next
<1>. HIDE DEF OneInput
<1>4. Spec /\ OneInput => ImplementsBA
  BY <1>1, <1>2, <1>3, Invariance, RestInvariance, HeardInvariance, PTL
     DEF Spec, ImplementsBA, BA!Spec
<1>. QED
  BY <1>4 DEF OneInput
=============================================================================
