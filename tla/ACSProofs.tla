----------------------------- MODULE ACSProofs -----------------------------
(* Proofs about ACS for every set of nodes that meets NodesAssumption.     *)
EXTENDS ACSImplementsCS, FiniteSetTheorems, TLAPS

LEMMA NodesFinite ==
    /\ N \in Nat
    /\ IsFiniteSet(Nodes)
    /\ IsFiniteSet(Faulty)
    /\ Cardinality(Faulty) \in Nat
<1>1. N \in Nat /\ IsFiniteSet(Nodes)
  BY NodesAssumption, FS_CardinalityType DEF N
<1>2. IsFiniteSet(Faulty)
  BY NodesAssumption, FS_Subset
<1>. QED
  BY <1>1, <1>2, FS_CardinalityType

\* The size of a set of nodes grows with the set and is at most N.
LEMMA SubsetSize ==
    ASSUME NEW S, NEW T, S \subseteq T, T \subseteq Nodes
    PROVE  /\ IsFiniteSet(S)
           /\ Cardinality(S) \in Nat
           /\ Cardinality(T) \in Nat
           /\ Cardinality(S) <= Cardinality(T)
           /\ Cardinality(T) <= N
           /\ Cardinality(S) = N => S = Nodes
<1>1. IsFiniteSet(S) /\ IsFiniteSet(T) /\ S \subseteq Nodes
  BY NodesFinite, FS_Subset
<1>2. /\ Cardinality(S) \in Nat
      /\ Cardinality(T) \in Nat
      /\ Cardinality(S) <= Cardinality(T)
  BY <1>1, FS_CardinalityType, FS_Subset
<1>3. Cardinality(T) <= N /\ (Cardinality(S) = N => S = Nodes)
  BY <1>1, NodesFinite, FS_Subset DEF N
<1>. QED
  BY <1>1, <1>2, <1>3

LEMMA DoneWithNodes ==
    ASSUME NEW result, NEW S
    PROVE  DoneWith(result, S) \subseteq Nodes
BY DEF DoneWith

LEMMA DoneWithGrows ==
    ASSUME NEW result, NEW next, NEW S,
           \A p \in Nodes : result[p] \in S => next[p] \in S
    PROVE  Cardinality(DoneWith(result, S)) <= Cardinality(DoneWith(next, S))
<1>1. DoneWith(result, S) \subseteq DoneWith(next, S)
  BY DEF DoneWith
<1>. QED
  BY <1>1, DoneWithNodes, SubsetSize

-----------------------------------------------------------------------------
(* The inductive invariant.                                                *)

Success(result) == Cardinality(DoneWith(result, {One})) >= N - F

\* There is at most one waiting signal for each decision received.
ChanCounted ==
    \A i \in Correct : agreementChan[i] <= CountDoneAgreement(agreementResult[i])

\* A node has received what the agreement decided.
ResultsSound ==
    \A i \in Correct, p \in Nodes :
        agreementResult[i][p] # Undefined => agreementResult[i][p] = decision[p]

\* Where there is a signal, a Zero input or a Zero decision, N-F agreements have
\* decided One.
ZeroBacked ==
    /\ \A i \in Correct : agreementChan[i] > 0 => Success(decision)
    /\ \A i \in Correct, p \in Nodes : Zero \in inputs[i][p] => Success(decision)
    /\ \A p \in Nodes : decision[p] = Zero => Success(decision)

\* The one batch of a node is made of all decisions for One.
BatchComplete ==
    \A i \in Correct :
        \/ batches[i] = <<>>
        \/ /\ dec[i]
           /\ \A p \in Nodes : decision[p] # Undefined
           /\ batches[i] = <<DoneWith(decision, {One})>>

IInv == TypeOK /\ ChanCounted /\ ResultsSound /\ ZeroBacked /\ BatchComplete

LEMMA InitIInv == Init => IInv
<1>. SUFFICES ASSUME Init PROVE IInv
  OBVIOUS
<1>1. \A i \in Correct : /\ CountDoneAgreement(agreementResult[i]) \in Nat
                         /\ agreementChan[i] = 0
  BY DoneWithNodes, SubsetSize DEF Init, CountDoneAgreement
<1>2. TypeOK
  BY NodesFinite DEF Init, TypeOK, AgreementChanSize, BinaryState, Binary,
                     Undefined
<1>3. ChanCounted
  BY <1>1 DEF ChanCounted
<1>4. ResultsSound /\ ZeroBacked /\ BatchComplete
  BY DEF Init, ResultsSound, ZeroBacked, BatchComplete, Undefined, Zero
<1>. QED
  BY <1>2, <1>3, <1>4 DEF IInv

-----------------------------------------------------------------------------
(* One lemma for each action.                                              *)

LEMMA InputIInv == ASSUME IInv, NEW p \in Nodes, HandleInput(p) PROVE IInv'
BY DEF HandleInput, nodeVars, IInv, TypeOK, ChanCounted, CountDoneAgreement,
       ResultsSound, ZeroBacked, BatchComplete, Success, DoneWith

LEMMA DecideIInv ==
    ASSUME IInv, NEW p \in Nodes, NEW v \in Binary, Decide(p, v)
    PROVE  IInv'
<1>1. /\ decision[p] = Undefined
      /\ decision' = [decision EXCEPT ![p] = v]
      /\ UNCHANGED <<broadcasts, empty, nodeVars>>
  BY DEF Decide
<1>2. TypeOK'
  BY <1>1 DEF IInv, TypeOK, nodeVars, BinaryState
<1>3. \A q \in Nodes : decision[q] # Undefined => decision'[q] = decision[q]
  BY <1>1 DEF IInv, TypeOK
<1>4. ChanCounted' /\ ResultsSound'
  BY <1>1, <1>3 DEF IInv, TypeOK, ChanCounted, CountDoneAgreement, DoneWith,
                    ResultsSound, nodeVars, BinaryState, Binary, Undefined
<1>5. Success(decision) => Success(decision')
  <2>1. \A q \in Nodes : decision[q] \in {One} => decision'[q] \in {One}
    BY <1>3 DEF One, Undefined
  <2>2. Cardinality(DoneWith(decision, {One}))
          <= Cardinality(DoneWith(decision', {One}))
    BY <2>1, DoneWithGrows
  <2>3. /\ Cardinality(DoneWith(decision, {One})) \in Nat
        /\ Cardinality(DoneWith(decision', {One})) \in Nat
    BY DoneWithNodes, SubsetSize
  <2>. QED
    BY <2>2, <2>3, NodesFinite, NodesAssumption DEF Success
<1>6. v = Zero => Success(decision)
  <2>1. PICK i \in Correct : v \in inputs[i][p]
    BY DEF Decide
  <2>. QED
    BY <2>1 DEF IInv, ZeroBacked
<1>7. ZeroBacked'
  BY <1>1, <1>5, <1>6 DEF IInv, TypeOK, ZeroBacked, nodeVars
<1>8. BatchComplete'
  BY <1>1 DEF IInv, BatchComplete, nodeVars
<1>. QED
  BY <1>2, <1>4, <1>7, <1>8 DEF IInv

\* Completing with decisions that are the agreements' own makes the one batch.
LEMMA CompleteAgreement ==
    ASSUME IInv, NEW i \in Correct, NEW data, NEW result,
           \A p \in Nodes : result[p] # Undefined => result[p] = decision[p],
           TryCompleteAgreement(i, data, result),
           UNCHANGED decision
    PROVE  /\ BatchComplete'
           /\ dec' \in [Correct -> BOOLEAN]
           /\ batches' \in [Correct -> Seq(SUBSET Nodes)]
<1>. DEFINE agreed == DoneWith(result, {One})
<1>1. /\ dec \in [Correct -> BOOLEAN]
      /\ batches \in [Correct -> Seq(SUBSET Nodes)]
      /\ BatchComplete
  BY DEF IInv, TypeOK
<1>2. CASE UNCHANGED <<batches, dec>>
  BY <1>1, <1>2 DEF BatchComplete
<1>3. CASE /\ ~ dec[i]
           /\ CountDoneAgreement(result) = N
           /\ batches' = [batches EXCEPT ![i] = Append(@, agreed)]
           /\ dec' = [dec EXCEPT ![i] = TRUE]
  <2>1. batches[i] = <<>>
    BY <1>1, <1>3 DEF BatchComplete
  <2>2. agreed \in SUBSET Nodes
    BY DoneWithNodes
  <2>3. DoneWith(result, Binary) = Nodes
    BY <1>3, DoneWithNodes, SubsetSize DEF CountDoneAgreement
  <2>4. \A p \in Nodes : result[p] = decision[p] /\ decision[p] # Undefined
    BY <2>3 DEF DoneWith, Binary, Zero, One, Undefined
  <2>5. agreed = DoneWith(decision, {One})
    BY <2>4 DEF DoneWith
  <2>6. batches'[i] = <<agreed>>
    BY <1>1, <1>3, <2>1, <2>2
  <2>7. BatchComplete'
    BY <1>1, <1>3, <2>4, <2>5, <2>6 DEF BatchComplete
  <2>8. dec' \in [Correct -> BOOLEAN]
    BY <1>1, <1>3
  <2>9. batches' \in [Correct -> Seq(SUBSET Nodes)]
    <3>. HIDE DEF agreed
    <3>1. Append(batches[i], agreed) \in Seq(SUBSET Nodes)
      BY <2>1, <2>2
    <3>. QED
      BY <1>1, <1>3, <3>1
  <2>. QED
    BY <2>7, <2>8, <2>9
<1>. QED
  BY <1>2, <1>3 DEF TryCompleteAgreement, AgreementDoneThreshold

LEMMA DataIInv ==
    ASSUME IInv, NEW i \in Correct, NEW p \in Nodes, ReceiveData(i, p)
    PROVE  IInv'
<1>1. /\ broadcastResult' = [broadcastResult EXCEPT ![i] = @ \cup {p}]
      /\ agreementStarted' = [agreementStarted EXCEPT ![i] = @ \cup {p}]
      /\ UNCHANGED <<envVars, agreementResult, busy, agreementChan>>
      /\ TryCompleteAgreement(i, broadcastResult'[i], agreementResult[i])
  BY DEF ReceiveData, AcceptData
<1>2. /\ inputs' \in [Correct -> [Nodes -> SUBSET Binary]]
      /\ \A j \in Correct, q \in Nodes :
            Zero \in inputs'[j][q] => Zero \in inputs[j][q]
  BY DEF ReceiveData, AcceptData, IInv, TypeOK, Binary, Zero, One
<1>3. /\ BatchComplete'
      /\ dec' \in [Correct -> BOOLEAN]
      /\ batches' \in [Correct -> Seq(SUBSET Nodes)]
  BY <1>1, CompleteAgreement DEF IInv, ResultsSound, envVars
<1>4. TypeOK'
  BY <1>1, <1>2, <1>3 DEF IInv, TypeOK, envVars
<1>5. ChanCounted' /\ ResultsSound' /\ ZeroBacked'
  BY <1>1, <1>2 DEF IInv, ChanCounted, CountDoneAgreement, DoneWith,
                    ResultsSound, ZeroBacked, Success, envVars
<1>. QED
  BY <1>3, <1>4, <1>5 DEF IInv

LEMMA BinaryIInv ==
    ASSUME IInv, NEW i \in Correct, NEW p \in Nodes, ReceiveBinary(i, p)
    PROVE  IInv'
<1>. DEFINE old == agreementResult[i]
            new == agreementResult'[i]
<1>1. /\ agreementResult' = [agreementResult EXCEPT ![i][p] = decision[p]]
      /\ decision[p] # Undefined
      /\ old[p] = Undefined
      /\ UNCHANGED <<envVars, broadcastResult, agreementStarted, inputs, busy>>
      /\ TryCompleteAgreement(i, broadcastResult[i], new)
  BY DEF ReceiveBinary, ProcessAgreement
<1>2. /\ decision[p] \in Binary
      /\ agreementResult' \in [Correct -> [Nodes -> BinaryState]]
      /\ \A j \in Correct \ {i} : agreementResult'[j] = agreementResult[j]
      /\ new = [old EXCEPT ![p] = decision[p]]
      /\ old \in [Nodes -> BinaryState]
  BY <1>1 DEF IInv, TypeOK, BinaryState
<1>3. ResultsSound'
  BY <1>1, <1>2 DEF IInv, ResultsSound, envVars
<1>4. /\ BatchComplete'
      /\ dec' \in [Correct -> BOOLEAN]
      /\ batches' \in [Correct -> Seq(SUBSET Nodes)]
  <2>1. \A q \in Nodes : new[q] # Undefined => new[q] = decision[q]
    BY <1>1, <1>3 DEF ResultsSound, envVars
  <2>. QED
    BY <1>1, <2>1, CompleteAgreement DEF envVars
<1>5. CountDoneAgreement(new) = CountDoneAgreement(old) + 1
  <2>1. /\ DoneWith(new, Binary) = DoneWith(old, Binary) \cup {p}
        /\ p \notin DoneWith(old, Binary)
    BY <1>1, <1>2 DEF DoneWith, Binary, Zero, One, Undefined
  <2>2. IsFiniteSet(DoneWith(old, Binary))
    BY DoneWithNodes, SubsetSize
  <2>. QED
    BY <2>1, <2>2, FS_AddElement DEF CountDoneAgreement
<1>6. /\ agreementChan' \in [Correct -> Nat]
      /\ \A j \in Correct \ {i} : agreementChan'[j] = agreementChan[j]
      /\ agreementChan'[i] <= agreementChan[i] + 1
      /\ agreementChan'[i] > 0 => Success(decision)
  <2>1. CASE UNCHANGED agreementChan
    BY <2>1 DEF IInv, TypeOK, AgreementChanSize, ZeroBacked
  <2>2. CASE /\ CountSuccessDoneAgreement(new) = AgreementThreshold
             /\ agreementChan' = [agreementChan EXCEPT ![i] = @ + 1]
    <3>1. \A q \in Nodes : new[q] \in {One} => decision[q] \in {One}
      BY <1>1, <1>3 DEF ResultsSound, envVars, One, Undefined
    <3>2. Cardinality(DoneWith(new, {One}))
            <= Cardinality(DoneWith(decision, {One}))
      BY <3>1, DoneWithGrows
    <3>3. Cardinality(DoneWith(decision, {One})) \in Nat
      BY DoneWithNodes, SubsetSize
    <3>4. Success(decision)
      BY <2>2, <3>2, <3>3, NodesFinite, NodesAssumption
         DEF Success, CountSuccessDoneAgreement, AgreementThreshold
    <3>. QED
      BY <2>2, <3>4 DEF IInv, TypeOK, AgreementChanSize
  <2>. QED
    BY <2>1, <2>2 DEF ReceiveBinary, ProcessAgreement
<1>7. /\ ChanCounted'
      /\ \A j \in Correct : CountDoneAgreement(agreementResult'[j]) <= N
  <2>1. /\ CountDoneAgreement(old) \in Nat
        /\ \A j \in Correct : CountDoneAgreement(agreementResult'[j]) <= N
    BY DoneWithNodes, SubsetSize DEF CountDoneAgreement
  <2>2. agreementChan[i] \in Nat
    BY DEF IInv, TypeOK, AgreementChanSize
  <2>3. agreementChan'[i] <= CountDoneAgreement(new)
    BY <1>5, <1>6, <2>1, <2>2 DEF IInv, ChanCounted
  <2>4. \A j \in Correct \ {i} :
          agreementChan'[j] <= CountDoneAgreement(agreementResult'[j])
    BY <1>2, <1>6 DEF IInv, ChanCounted
  <2>. QED
    BY <2>1, <2>3, <2>4 DEF ChanCounted, CountDoneAgreement, DoneWith
<1>8. TypeOK'
  <2>1. agreementChan' \in [Correct -> 0 .. AgreementChanSize]
    <3>1. ASSUME NEW j \in Correct
          PROVE  agreementChan'[j] <= N
      <4>1. CountDoneAgreement(agreementResult'[j]) \in Nat
        BY DoneWithNodes, SubsetSize DEF CountDoneAgreement
      <4>2. agreementChan'[j] <= CountDoneAgreement(agreementResult'[j])
        BY <1>7 DEF ChanCounted, CountDoneAgreement, DoneWith
      <4>. QED
        BY <1>6, <1>7, <4>1, <4>2, NodesFinite
    <3>. QED
      BY <1>6, <3>1, NodesFinite DEF AgreementChanSize
  <2>. QED
    BY <1>1, <1>2, <1>4, <2>1 DEF IInv, TypeOK, envVars
<1>9. ZeroBacked'
  BY <1>1, <1>6 DEF IInv, ZeroBacked, Success, DoneWith, envVars
<1>. QED
  BY <1>3, <1>4, <1>7, <1>8, <1>9 DEF IInv

LEMMA SendZeroIInv ==
    ASSUME IInv, NEW i \in Correct, SendZeroToIdleBba(i)
    PROVE  IInv'
<1>. DEFINE unstarted == {p \in Nodes \ busy[i] : inputs[i][p] = {}}
<1>1. /\ agreementChan[i] > 0
      /\ agreementChan' = [agreementChan EXCEPT ![i] = @ - 1]
      /\ UNCHANGED <<envVars, broadcastResult, agreementResult,
                     agreementStarted, dec, batches>>
  BY DEF SendZeroToIdleBba
<1>2. PICK notIdle \in SUBSET unstarted :
        /\ busy' = [busy EXCEPT ![i] = @ \cup notIdle]
        /\ inputs' = [inputs EXCEPT ![i] = [p \in Nodes |->
                         IF p \in unstarted \ notIdle THEN {Zero} ELSE @[p]]]
  BY DEF SendZeroToIdleBba
<1>3. Success(decision)
  BY <1>1 DEF IInv, ZeroBacked
<1>4. TypeOK'
  <2>1. busy' \in [Correct -> SUBSET Nodes]
    BY <1>2 DEF IInv, TypeOK
  <2>2. inputs' \in [Correct -> [Nodes -> SUBSET Binary]]
    BY <1>2 DEF IInv, TypeOK, Binary
  <2>3. agreementChan' \in [Correct -> 0 .. AgreementChanSize]
    BY <1>1, NodesFinite DEF IInv, TypeOK, AgreementChanSize
  <2>. QED
    BY <1>1, <2>1, <2>2, <2>3 DEF IInv, TypeOK, envVars
<1>5. ChanCounted'
  <2>1. \A j \in Correct : agreementChan'[j] <= agreementChan[j]
    BY <1>1 DEF IInv, TypeOK, AgreementChanSize
  <2>2. \A j \in Correct : /\ agreementChan[j] \in Int
                           /\ agreementChan'[j] \in Int
    BY <1>4 DEF IInv, TypeOK, AgreementChanSize
  <2>3. \A j \in Correct : CountDoneAgreement(agreementResult[j]) \in Nat
    BY DoneWithNodes, SubsetSize DEF CountDoneAgreement
  <2>. QED
    BY <1>1, <2>1, <2>2, <2>3
       DEF IInv, ChanCounted, CountDoneAgreement, DoneWith
<1>6. ResultsSound' /\ BatchComplete'
  BY <1>1 DEF IInv, ResultsSound, BatchComplete, DoneWith, envVars
<1>7. ZeroBacked'
  BY <1>1, <1>3 DEF IInv, ZeroBacked, Success, DoneWith, envVars
<1>. QED
  BY <1>4, <1>5, <1>6, <1>7 DEF IInv

LEMMA Invariance == Spec => []IInv
<1>1. IInv /\ [Next]_vars => IInv'
  <2>. SUFFICES ASSUME IInv, [Next]_vars PROVE IInv'
    OBVIOUS
  <2>1. ASSUME NEW p \in Nodes, HandleInput(p) PROVE IInv'
    BY <2>1, InputIInv
  <2>2. ASSUME NEW p \in Nodes, NEW v \in Binary, Decide(p, v) PROVE IInv'
    BY <2>2, DecideIInv
  <2>3. ASSUME NEW i \in Correct, NEW p \in Nodes, ReceiveData(i, p)
        PROVE  IInv'
    BY <2>3, DataIInv
  <2>4. ASSUME NEW i \in Correct, NEW p \in Nodes, ReceiveBinary(i, p)
        PROVE  IInv'
    BY <2>4, BinaryIInv
  <2>5. ASSUME NEW i \in Correct, SendZeroToIdleBba(i) PROVE IInv'
    BY <2>5, SendZeroIInv
  <2>6. CASE UNCHANGED vars
    BY <2>6 DEF vars, envVars, IInv, TypeOK, ChanCounted, CountDoneAgreement,
                ResultsSound, ZeroBacked, BatchComplete, Success, DoneWith
  <2>. QED
    BY <2>1, <2>2, <2>3, <2>4, <2>5, <2>6 DEF Next
<1>. QED
  BY <1>1, InitIInv, PTL DEF Spec

-----------------------------------------------------------------------------
\* What a node has put on the channel.
LEMMA OutputsComplete ==
    ASSUME IInv, NEW i \in Correct
    PROVE  /\ Len(batches[i]) <= 1
           /\ \A b \in Outputs(i) : /\ b = DoneWith(decision, {One})
                                    /\ \A p \in Nodes : decision[p] # Undefined
<1>1. CASE batches[i] = <<>>
  BY <1>1 DEF Outputs
<1>2. CASE batches[i] # <<>>
  <2>. DEFINE batch == DoneWith(decision, {One})
  <2>1. batches[i] = <<batch>> /\ \A p \in Nodes : decision[p] # Undefined
    BY <1>2 DEF IInv, BatchComplete
  <2>. HIDE DEF batch
  <2>2. Len(batches[i]) = 1 /\ batches[i][1] = batch
    BY <2>1
  <2>3. \A b \in Outputs(i) : b = batch
    BY <2>2 DEF Outputs
  <2>. QED
    BY <2>1, <2>2, <2>3 DEF batch
<1>. QED
  BY <1>1, <1>2

\* The variables of ACS keep their shape, and agreementChan, which run both
\* fills and empties, never holds more than N signals: run does not block on it
\* (acs.go: processAgreement).
THEOREM ChanNeverFull == Spec => []TypeOK
<1>1. IInv => TypeOK
  BY DEF IInv
<1>. QED
  BY <1>1, Invariance, PTL

\* Correct nodes put the same members in their batches, for every number of
\* nodes and faults below it (acs.go: tryCompleteAgreement).
THEOREM BatchesAgree == Spec => []BatchAgreement
<1>1. IInv => BatchAgreement
  BY OutputsComplete DEF BatchAgreement
<1>. QED
  BY <1>1, Invariance, PTL

\* The decisions a batch is made of are enough for it.
LEMMA BatchSizes == IInv => BatchValidity
<1>. SUFFICES ASSUME IInv, NEW i \in Correct, NEW b \in Outputs(i)
              PROVE  /\ Cardinality(b) >= N - F
                     /\ Cardinality(b \ Faulty) >= N - 2 * F
  BY DEF BatchValidity
<1>1. /\ b = DoneWith(decision, {One})
      /\ \A p \in Nodes : decision[p] # Undefined
  BY OutputsComplete
<1>2. Cardinality(b) >= N - F
  <2>1. CASE \E p \in Nodes : decision[p] = Zero
    BY <1>1, <2>1 DEF IInv, ZeroBacked, Success
  <2>2. CASE \A p \in Nodes : decision[p] # Zero
    <3>1. b = Nodes
      BY <1>1, <2>2 DEF IInv, TypeOK, BinaryState, Binary, DoneWith
    <3>. QED
      BY <3>1, NodesFinite, NodesAssumption DEF N
  <2>. QED
    BY <2>1, <2>2
<1>3. b \subseteq Nodes /\ IsFiniteSet(b)
  BY <1>1, DoneWithNodes, SubsetSize
<1>4. Cardinality(b \ Faulty) >= N - 2 * F
  <2>1. Cardinality(b \ Faulty) = Cardinality(b) - Cardinality(b \cap Faulty)
    BY <1>3, FS_Difference
  <2>2. /\ Cardinality(b \cap Faulty) <= Cardinality(Faulty)
        /\ Cardinality(b \cap Faulty) \in Nat
        /\ Cardinality(b) \in Nat
    BY <1>3, NodesFinite, FS_Intersection, FS_CardinalityType
  <2>. QED
    BY <1>2, <2>1, <2>2, NodesFinite, NodesAssumption
<1>. QED
  BY <1>2, <1>4

\* A batch has contributions of N-F members, N-2F of them correct (acs.go:
\* sendZeroToIdleBba after processAgreement).
THEOREM BatchesValid == Spec => []BatchValidity
BY BatchSizes, Invariance, PTL

\* A node puts at most one batch on the channel (acs.go: dec).
THEOREM BatchesAreSingle == Spec => []OneBatch
<1>1. IInv => OneBatch
  BY OutputsComplete DEF OneBatch
<1>. QED
  BY <1>1, Invariance, PTL

-----------------------------------------------------------------------------
(* ACS implements CommonSubset.                                            *)

\* What a node has received has been broadcast.
DataSent == \A i \in Correct : broadcastResult[i] \subseteq broadcasts

LEMMA DataSentInvariance == Spec => []DataSent
<1>1. Init => DataSent
  BY DEF Init, DataSent
<1>2. TypeOK /\ DataSent /\ [Next]_vars => DataSent'
  <2>. SUFFICES ASSUME TypeOK, DataSent, [Next]_vars PROVE DataSent'
    OBVIOUS
  <2>1. ASSUME NEW i \in Correct, NEW p \in Nodes, ReceiveData(i, p)
        PROVE  DataSent'
    BY <2>1 DEF ReceiveData, AcceptData, envVars, TypeOK, DataSent
  <2>2. CASE \E p \in Nodes : HandleInput(p)
    BY <2>2 DEF HandleInput, nodeVars, DataSent
  <2>3. CASE UNCHANGED <<broadcasts, broadcastResult>>
    BY <2>3 DEF DataSent
  <2>4. ASSUME NEW i \in Correct, NEW p \in Nodes, ReceiveBinary(i, p)
        PROVE  DataSent'
    BY <2>3, <2>4 DEF ReceiveBinary, ProcessAgreement, envVars
  <2>5. ASSUME NEW i \in Correct, SendZeroToIdleBba(i) PROVE DataSent'
    BY <2>3, <2>5 DEF SendZeroToIdleBba, envVars
  <2>6. CASE \E p \in Nodes, v \in Binary : Decide(p, v)
    BY <2>3, <2>6 DEF Decide, nodeVars
  <2>7. CASE UNCHANGED vars
    BY <2>3, <2>7 DEF vars, envVars
  <2>. QED
    BY <2>1, <2>2, <2>4, <2>5, <2>6, <2>7 DEF Next
<1>. QED
  BY <1>1, <1>2, ChanNeverFull, PTL DEF Spec

LEMMA SubsetInit == Init => CS!Init
BY DEF Init, CS!Init

\* Completing appends a batch of members whose data has come, or does nothing.
LEMMA CompleteStep ==
    ASSUME IInv, NEW i \in Correct, NEW data, NEW result,
           TryCompleteAgreement(i, data, result)
    PROVE  \/ batches' = batches
           \/ /\ batches[i] = <<>>
              /\ \E b \in SUBSET Nodes :
                    /\ b \subseteq data
                    /\ batches' = [batches EXCEPT ![i] = <<b>>]
<1>. DEFINE agreed == DoneWith(result, {One})
<1>1. CASE UNCHANGED <<batches, dec>>
  BY <1>1
<1>2. CASE /\ ~ dec[i]
           /\ agreed \subseteq data \ empty
           /\ batches' = [batches EXCEPT ![i] = Append(@, agreed)]
  <2>1. batches[i] = <<>> /\ agreed \in SUBSET Nodes
    BY <1>2, DoneWithNodes DEF IInv, BatchComplete
  <2>. HIDE DEF agreed
  <2>2. Append(batches[i], agreed) = <<agreed>>
    BY <2>1
  <2>3. batches' = [batches EXCEPT ![i] = <<agreed>>]
    BY <1>2, <2>2
  <2>. QED
    BY <1>2, <2>1, <2>3
<1>. QED
  BY <1>1, <1>2 DEF TryCompleteAgreement

\* The batch that appears is everybody's, large enough, and of members whose
\* broadcasts have delivered.
LEMMA OutputStep ==
    ASSUME IInv, IInv', DataSent', NEW i \in Correct, NEW b \in SUBSET Nodes,
           batches[i] = <<>>,
           b \subseteq broadcastResult'[i],
           batches' = [batches EXCEPT ![i] = <<b>>],
           UNCHANGED <<broadcasts, decision>>
    PROVE  CS!Output(i, b)
<1>1. batches \in [Correct -> Seq(SUBSET Nodes)]
  BY DEF IInv, TypeOK
<1>2. batches'[i] = <<b>>
  BY <1>1
<1>3. b = DoneWith(decision', {One})
  <2>. DEFINE agreed == DoneWith(decision', {One})
  <2>1. batches'[i] = <<>> \/ batches'[i] = <<agreed>>
    BY DEF IInv, BatchComplete, DoneWith
  <2>. HIDE DEF agreed
  <2>2. b = agreed
    BY <1>2, <2>1
  <2>. QED
    BY <2>2 DEF agreed
<1>4. \A j \in Correct : batches[j] \in {<<>>, <<b>>}
  BY <1>3 DEF IInv, BatchComplete, DoneWith
<1>5. b \subseteq broadcasts
  BY DEF DataSent
<1>6. Cardinality(b) >= N - F
  <2>1. BatchValidity'
    BY BatchSizes, PTL
  <2>2. b \in Outputs(i)'
    BY <1>2 DEF Outputs
  <2>. QED
    BY <2>1, <2>2 DEF BatchValidity
<1>. QED
  BY <1>4, <1>5, <1>6 DEF CS!Output

LEMMA SubsetRefines ==
    ASSUME IInv, IInv', DataSent', [Next]_vars
    PROVE  CS!Next \/ UNCHANGED <<broadcasts, batches>>
<1>1. ASSUME NEW p \in Nodes, HandleInput(p) PROVE CS!Next
  BY <1>1 DEF HandleInput, nodeVars, CS!Next, CS!Propose
<1>2. ASSUME NEW p \in Nodes, NEW v \in Binary, Decide(p, v)
      PROVE  UNCHANGED <<broadcasts, batches>>
  BY <1>2 DEF Decide, nodeVars
<1>3. ASSUME NEW i \in Correct, NEW p \in Nodes, ReceiveData(i, p)
      PROVE  CS!Next \/ UNCHANGED <<broadcasts, batches>>
  <2>1. /\ TryCompleteAgreement(i, broadcastResult'[i], agreementResult[i])
        /\ UNCHANGED <<broadcasts, decision>>
    BY <1>3 DEF ReceiveData, AcceptData, envVars
  <2>2. \/ batches' = batches
        \/ /\ batches[i] = <<>>
           /\ \E b \in SUBSET Nodes :
                 /\ b \subseteq broadcastResult'[i]
                 /\ batches' = [batches EXCEPT ![i] = <<b>>]
    BY <2>1, CompleteStep
  <2>3. ASSUME NEW b \in SUBSET Nodes, batches[i] = <<>>,
               b \subseteq broadcastResult'[i],
               batches' = [batches EXCEPT ![i] = <<b>>]
        PROVE  CS!Output(i, b)
    BY <2>1, <2>3, OutputStep
  <2>. QED
    BY <2>1, <2>2, <2>3 DEF CS!Next
<1>4. ASSUME NEW i \in Correct, NEW p \in Nodes, ReceiveBinary(i, p)
      PROVE  CS!Next \/ UNCHANGED <<broadcasts, batches>>
  <2>1. /\ TryCompleteAgreement(i, broadcastResult'[i], agreementResult'[i])
        /\ UNCHANGED <<broadcasts, decision>>
        /\ UNCHANGED broadcastResult
    BY <1>4 DEF ReceiveBinary, ProcessAgreement, envVars
  <2>2. \/ batches' = batches
        \/ /\ batches[i] = <<>>
           /\ \E b \in SUBSET Nodes :
                 /\ b \subseteq broadcastResult[i]
                 /\ batches' = [batches EXCEPT ![i] = <<b>>]
    BY <2>1, CompleteStep
  <2>3. ASSUME NEW b \in SUBSET Nodes, batches[i] = <<>>,
               b \subseteq broadcastResult[i],
               batches' = [batches EXCEPT ![i] = <<b>>]
        PROVE  CS!Output(i, b)
    BY <2>1, <2>3, OutputStep
  <2>. QED
    BY <2>1, <2>2, <2>3 DEF CS!Next
<1>5. ASSUME NEW i \in Correct, SendZeroToIdleBba(i)
      PROVE  UNCHANGED <<broadcasts, batches>>
  BY <1>5 DEF SendZeroToIdleBba, envVars
<1>6. CASE UNCHANGED vars
  BY <1>6 DEF vars, envVars
<1>. QED
  BY <1>1, <1>2, <1>3, <1>4, <1>5, <1>6 DEF Next

\* acs.go implements CommonSubset for every number of nodes: at most one batch
\* for each node, everybody's the same, of N-F members or more, all of whom
\* have proposed (acs.go: tryCompleteAgreement, agreementSuccess).
THEOREM ACSRefinesCS == Spec => ImplementsCS
<1>1. IInv /\ IInv' /\ DataSent' /\ [Next]_vars
         => [CS!Next]_<<broadcasts, batches>>
  BY SubsetRefines
<1>2. [CS!Next]_<<broadcasts, batches>> => [CS!Next]_(CS!vars)
  BY DEF CS!vars
<1>. QED
  BY <1>1, <1>2, SubsetInit, Invariance, DataSentInvariance, PTL
     DEF Spec, ImplementsCS, CS!Spec
-----------------------------------------------------------------------------
(* The network does not come to rest without batches: what Completes asks  *)
(* of fair behaviours, of single states.                                   *)

\* No broadcast, agreement or loop that Fairness relies on has a step left.
AtRest ==
    /\ Correct \subseteq broadcasts
    /\ \A p \in Nodes :
          (\A i \in Correct : TakesPart(i, p)) => decision[p] # Undefined
    /\ \A i \in Correct :
          /\ broadcasts \subseteq broadcastResult[i]
          /\ \A p \in Nodes :
                decision[p] # Undefined => agreementResult[i][p] # Undefined
          /\ agreementChan[i] = 0

BatchAtRest ==
    AtRest =>
        \/ \E p \in empty : decision[p] = One
        \/ \A i \in Correct : batches[i] # <<>>

\* One is passed with the data, and only then.
OneWithData ==
    /\ \A i \in Correct :
          /\ agreementStarted[i] = broadcastResult[i]
          /\ \A p \in Nodes : One \in inputs[i][p] <=> p \in broadcastResult[i]
    /\ \A p \in Nodes :
          decision[p] = One => \E i \in Correct : One \in inputs[i][p]

\* A node that has seen N-F decisions for One has its signal still, or takes
\* part in every agreement.
ZerosFed ==
    \A i \in Correct :
        Success(agreementResult[i]) =>
            agreementChan[i] > 0 \/ \A p \in Nodes : TakesPart(i, p)

Complete(i) ==
    LET agreed == DoneWith(agreementResult[i], {One}) IN
    /\ CountDoneAgreement(agreementResult[i]) = AgreementDoneThreshold
    /\ agreed \subseteq broadcastResult[i] \ empty
    /\ agreed # {}

\* Whatever came last, data or decision, the batch was tried then.
Tried ==
    \A i \in Correct :
        /\ Complete(i) => dec[i]
        /\ dec[i] => batches[i] # <<>>

RestInv == OneWithData /\ ZerosFed /\ Tried

LEMMA RestInit == Init => RestInv
<1>. SUFFICES ASSUME Init PROVE RestInv
  OBVIOUS
<1>1. OneWithData
  BY DEF Init, OneWithData, Undefined, One
<1>2. \A i \in Correct : DoneWith(agreementResult[i], {One}) = {}
  BY DEF Init, DoneWith, Undefined, One
<1>3. \A i \in Correct : Cardinality(DoneWith(agreementResult[i], {One})) = 0
  BY <1>2, FS_EmptySet
<1>4. ZerosFed
  BY <1>3, NodesFinite, NodesAssumption DEF ZerosFed, Success
<1>5. Tried
  BY <1>2 DEF Init, Tried, Complete
<1>. QED
  BY <1>1, <1>4, <1>5 DEF RestInv

\* TryCompleteAgreement leaves no complete batch behind.
LEMMA TriedStep ==
    ASSUME TypeOK, Tried, NEW i \in Correct,
           TryCompleteAgreement(i, broadcastResult'[i], agreementResult'[i]),
           UNCHANGED empty,
           \A j \in Correct : j # i =>
              /\ broadcastResult'[j] = broadcastResult[j]
              /\ agreementResult'[j] = agreementResult[j]
    PROVE  Tried'
<1>. DEFINE agreed == DoneWith(agreementResult'[i], {One})
            ready == /\ CountDoneAgreement(agreementResult'[i]) = AgreementDoneThreshold
                     /\ agreed \subseteq broadcastResult'[i] \ empty
                     /\ agreed # {}
<1>1. ready <=> Complete(i)'
  BY DEF Complete, DoneWith, CountDoneAgreement, AgreementDoneThreshold, N
<1>2. \A j \in Correct : j # i => (Complete(j)' <=> Complete(j))
  BY DEF Complete, DoneWith, CountDoneAgreement, AgreementDoneThreshold, N
<1>3. CASE /\ batches' = [batches EXCEPT ![i] = Append(@, agreed)]
           /\ dec' = [dec EXCEPT ![i] = TRUE]
  <2>1. /\ dec'[i]
        /\ \A j \in Correct : j # i => dec'[j] = dec[j] /\ batches'[j] = batches[j]
        /\ batches'[i] = Append(batches[i], agreed)
        /\ batches[i] \in Seq(SUBSET Nodes)
    BY <1>3 DEF TypeOK
  <2>2. batches'[i] # <<>>
    <3>1. agreed \in SUBSET Nodes
      BY DoneWithNodes
    <3>. HIDE DEF agreed
    <3>. QED
      BY <2>1, <3>1
  <2>. QED
    BY <1>2, <2>1, <2>2 DEF Tried
<1>4. CASE ~ (~ dec[i] /\ ready) /\ UNCHANGED <<batches, dec>>
  BY <1>1, <1>2, <1>4 DEF Tried
<1>. QED
  BY <1>3, <1>4 DEF TryCompleteAgreement

LEMMA DecideRest ==
    ASSUME TypeOK, RestInv, NEW p \in Nodes, NEW v \in Binary, Decide(p, v)
    PROVE  RestInv'
<1>1. /\ \E i \in Correct : v \in inputs[i][p]
      /\ decision' = [decision EXCEPT ![p] = v]
      /\ UNCHANGED <<broadcasts, empty, nodeVars>>
  BY DEF Decide
<1>2. OneWithData'
  BY <1>1 DEF RestInv, OneWithData, TypeOK, nodeVars
<1>3. ZerosFed' /\ Tried'
  BY <1>1 DEF RestInv, ZerosFed, Tried, Complete, Success, DoneWith, TakesPart,
              CountDoneAgreement, AgreementDoneThreshold, nodeVars
<1>. QED
  BY <1>2, <1>3 DEF RestInv

LEMMA DataRest ==
    ASSUME TypeOK, RestInv, NEW i \in Correct, NEW p \in Nodes, ReceiveData(i, p)
    PROVE  RestInv'
<1>1. /\ broadcastResult' = [broadcastResult EXCEPT ![i] = @ \cup {p}]
      /\ inputs' = IF p \in agreementStarted[i] THEN inputs
                   ELSE [inputs EXCEPT ![i][p] = @ \cup {One}]
      /\ agreementStarted' = [agreementStarted EXCEPT ![i] = @ \cup {p}]
      /\ UNCHANGED <<decision, empty, agreementResult, busy, agreementChan>>
      /\ TryCompleteAgreement(i, broadcastResult'[i], agreementResult'[i])
  BY DEF ReceiveData, AcceptData, envVars
<1>2. \A j \in Correct, q \in Nodes :
         /\ inputs[j][q] \subseteq inputs'[j][q]
         /\ ~ (j = i /\ q = p) => inputs'[j][q] = inputs[j][q]
         /\ j = i /\ q = p => One \in inputs'[j][q]
  BY <1>1 DEF RestInv, OneWithData, TypeOK
<1>3. \A j \in Correct :
         /\ j # i => /\ broadcastResult'[j] = broadcastResult[j]
                     /\ agreementStarted'[j] = agreementStarted[j]
         /\ j = i => /\ broadcastResult'[j] = broadcastResult[j] \cup {p}
                     /\ agreementStarted'[j] = agreementStarted[j] \cup {p}
  BY <1>1 DEF TypeOK
<1>4. OneWithData'
  <2>1. ASSUME NEW j \in Correct
        PROVE  /\ agreementStarted'[j] = broadcastResult'[j]
               /\ \A q \in Nodes : One \in inputs'[j][q] <=> q \in broadcastResult'[j]
    <3>1. /\ agreementStarted[j] = broadcastResult[j]
          /\ \A q \in Nodes : One \in inputs[j][q] <=> q \in broadcastResult[j]
      BY DEF RestInv, OneWithData
    <3>2. CASE j = i
      <4>1. \A q \in Nodes :
               /\ q = p => One \in inputs'[j][q] /\ q \in broadcastResult'[j]
               /\ q # p => inputs'[j][q] = inputs[j][q]
               /\ q # p => (q \in broadcastResult'[j] <=> q \in broadcastResult[j])
        BY <1>2, <1>3, <3>2
      <4>2. agreementStarted'[j] = broadcastResult'[j]
        BY <1>3, <3>1, <3>2
      <4>3. ASSUME NEW q \in Nodes
            PROVE  One \in inputs'[j][q] <=> q \in broadcastResult'[j]
        <5>1. CASE q = p
          BY <4>1, <5>1, Zenon
        <5>2. CASE q # p
          BY <3>1, <4>1, <5>2, Zenon
        <5>. QED
          BY <5>1, <5>2
      <4>. QED
        BY <4>2, <4>3
    <3>3. CASE j # i
      BY <1>2, <1>3, <3>1, <3>3
    <3>. QED
      BY <3>2, <3>3
  <2>2. ASSUME NEW q \in Nodes, decision'[q] = One
        PROVE  \E j \in Correct : One \in inputs'[j][q]
    BY <1>1, <1>2, <2>2 DEF RestInv, OneWithData
  <2>. QED
    BY <2>1, <2>2 DEF OneWithData
<1>5. ZerosFed'
  BY <1>1, <1>2 DEF RestInv, ZerosFed, Success, DoneWith, TakesPart
<1>6. Tried'
  BY <1>1, <1>3, TriedStep DEF RestInv
<1>. QED
  BY <1>4, <1>5, <1>6 DEF RestInv

\* The count of decisions for One does not pass N-F unnoticed.
LEMMA BinaryRest ==
    ASSUME TypeOK, RestInv, NEW i \in Correct, NEW p \in Nodes, ReceiveBinary(i, p)
    PROVE  RestInv'
<1>1. /\ agreementResult' = [agreementResult EXCEPT ![i][p] = decision[p]]
      /\ IF CountSuccessDoneAgreement(agreementResult'[i]) = AgreementThreshold
         THEN agreementChan' = [agreementChan EXCEPT ![i] = @ + 1]
         ELSE UNCHANGED agreementChan
      /\ UNCHANGED <<decision, empty, broadcastResult, agreementStarted, inputs, busy>>
      /\ TryCompleteAgreement(i, broadcastResult'[i], agreementResult'[i])
  BY DEF ReceiveBinary, ProcessAgreement, envVars
<1>2. \A j \in Correct : j # i =>
         /\ agreementResult'[j] = agreementResult[j]
         /\ agreementChan'[j] = agreementChan[j]
  BY <1>1 DEF TypeOK
<1>3. OneWithData'
  BY <1>1 DEF RestInv, OneWithData
<1>4. ASSUME Success(agreementResult'[i])
      PROVE  agreementChan'[i] > 0 \/ \A q \in Nodes : TakesPart(i, q)
  <2>. DEFINE old == DoneWith(agreementResult[i], {One})
              new == DoneWith(agreementResult'[i], {One})
  <2>1. new \subseteq old \cup {p}
    BY <1>1 DEF TypeOK, DoneWith
  <2>2. IsFiniteSet(old) /\ Cardinality(old) \in Nat /\ Cardinality(new) \in Nat
    BY DoneWithNodes, SubsetSize
  <2>3. Cardinality(new) <= Cardinality(old) + 1
    <3>. HIDE DEF old, new
    <3>1. /\ IsFiniteSet(old \cup {p})
          /\ Cardinality(old \cup {p}) = Cardinality(old)
                \/ Cardinality(old \cup {p}) = Cardinality(old) + 1
      BY <2>2, FS_AddElement, Zenon
    <3>2. Cardinality(new) <= Cardinality(old \cup {p})
      BY <2>1, <3>1, FS_Subset
    <3>. QED
      BY <2>2, <3>1, <3>2
  <2>4. CASE Cardinality(new) = N - F
    <3>1. agreementChan'[i] = agreementChan[i] + 1
      BY <1>1, <2>4 DEF CountSuccessDoneAgreement, AgreementThreshold, TypeOK
    <3>. QED
      BY <3>1 DEF TypeOK
  <2>5. CASE Cardinality(new) # N - F
    <3>1. Success(agreementResult[i])
      BY <1>4, <2>2, <2>3, <2>5, NodesFinite, NodesAssumption DEF Success
    <3>2. agreementChan' = agreementChan
      BY <1>1, <2>5 DEF CountSuccessDoneAgreement, AgreementThreshold
    <3>. QED
      BY <3>1, <3>2 DEF RestInv, ZerosFed
  <2>. QED
    BY <2>4, <2>5
<1>5. ZerosFed'
  BY <1>1, <1>2, <1>4 DEF RestInv, ZerosFed, Success, DoneWith, TakesPart
<1>6. Tried'
  BY <1>1, <1>2, TriedStep DEF RestInv
<1>. QED
  BY <1>3, <1>5, <1>6 DEF RestInv

LEMMA ZeroRest ==
    ASSUME TypeOK, RestInv, NEW i \in Correct, SendZeroToIdleBba(i)
    PROVE  RestInv'
<1>. DEFINE unstarted == {p \in Nodes \ busy[i] : inputs[i][p] = {}}
<1>1. PICK notIdle \in SUBSET unstarted :
         /\ busy' = [busy EXCEPT ![i] = @ \cup notIdle]
         /\ inputs' = [inputs EXCEPT ![i] = [p \in Nodes |->
                IF p \in unstarted \ notIdle THEN {Zero} ELSE @[p]]]
  BY DEF SendZeroToIdleBba
<1>2. /\ agreementChan' = [agreementChan EXCEPT ![i] = @ - 1]
      /\ UNCHANGED <<decision, empty, broadcastResult, agreementResult,
                     agreementStarted, dec, batches>>
  BY DEF SendZeroToIdleBba, envVars
<1>3. \A p \in Nodes :
         inputs'[i][p] = IF p \in unstarted \ notIdle THEN {Zero} ELSE inputs[i][p]
  BY <1>1 DEF TypeOK
<1>4. \A j \in Correct : j # i =>
         /\ inputs'[j] = inputs[j]
         /\ busy'[j] = busy[j]
         /\ agreementChan'[j] = agreementChan[j]
  BY <1>1, <1>2 DEF TypeOK
<1>5. \A j \in Correct, p \in Nodes : One \in inputs'[j][p] <=> One \in inputs[j][p]
  BY <1>3, <1>4 DEF One, Zero
<1>6. OneWithData'
  BY <1>2, <1>5 DEF RestInv, OneWithData
<1>7. \A p \in Nodes : TakesPart(i, p)'
  <2>1. busy'[i] = busy[i] \cup notIdle
    BY <1>1 DEF TypeOK
  <2>. QED
    BY <1>3, <2>1 DEF TakesPart
<1>8. ZerosFed'
  BY <1>2, <1>4, <1>7 DEF RestInv, ZerosFed, Success, DoneWith, TakesPart
<1>9. Tried'
  BY <1>2 DEF RestInv, Tried, Complete, DoneWith, CountDoneAgreement,
              AgreementDoneThreshold
<1>. QED
  BY <1>6, <1>8, <1>9 DEF RestInv

LEMMA RestInvariance == Spec => []RestInv
<1>1. TypeOK /\ RestInv /\ [Next]_vars => RestInv'
  <2>. SUFFICES ASSUME TypeOK, RestInv, [Next]_vars PROVE RestInv'
    OBVIOUS
  <2>1. CASE UNCHANGED <<envVars, nodeVars>> \/ \E p \in Nodes : HandleInput(p)
    BY <2>1 DEF HandleInput, envVars, nodeVars, RestInv, OneWithData, ZerosFed,
                Tried, Complete, Success, DoneWith, TakesPart,
                CountDoneAgreement, AgreementDoneThreshold
  <2>2. CASE UNCHANGED vars
    BY <2>1, <2>2 DEF vars, nodeVars
  <2>. QED
    BY <2>1, <2>2, DecideRest, DataRest, BinaryRest, ZeroRest DEF Next
<1>. QED
  BY <1>1, RestInit, ChanNeverFull, PTL DEF Spec

\* N-F agreements have decided One: the correct members', unless one of these
\* decided Zero, which somebody had to be told by then.
LEMMA RestSuccess ==
    ASSUME IInv, RestInv, AtRest
    PROVE  Success(decision)
<1>1. \A p \in Correct : decision[p] # Undefined
  BY DEF AtRest, RestInv, OneWithData, TakesPart, Correct
<1>2. CASE \E p \in Correct : decision[p] = Zero
  BY <1>2 DEF IInv, ZeroBacked, Correct
<1>3. CASE \A p \in Correct : decision[p] # Zero
  <2>1. Correct \subseteq DoneWith(decision, {One})
    BY <1>1, <1>3 DEF IInv, TypeOK, BinaryState, Binary, DoneWith, Correct
  <2>2. Cardinality(Correct) = N - Cardinality(Faulty)
    <3>1. Nodes \cap Faulty = Faulty
      BY NodesAssumption
    <3>. QED
      BY <3>1, NodesFinite, FS_Difference DEF Correct, N
  <2>3. Cardinality(Correct) <= Cardinality(DoneWith(decision, {One}))
    BY <2>1, DoneWithNodes, SubsetSize
  <2>. QED
    BY <2>2, <2>3, NodesFinite, NodesAssumption, DoneWithNodes, SubsetSize
       DEF Success
<1>. QED
  BY <1>2, <1>3

LEMMA RestCompletes == IInv /\ RestInv /\ DataSent => BatchAtRest
<1>. SUFFICES ASSUME IInv, RestInv, DataSent, AtRest,
                     \A p \in empty : decision[p] # One,
                     NEW i \in Correct
              PROVE  batches[i] # <<>>
  BY DEF BatchAtRest
<1>1. \A j \in Correct, p \in Nodes :
         decision[p] # Undefined => agreementResult[j][p] = decision[p]
  BY DEF AtRest, IInv, ResultsSound
<1>2. \A j \in Correct :
         DoneWith(decision, {One}) \subseteq DoneWith(agreementResult[j], {One})
  BY <1>1 DEF DoneWith, One, Undefined
<1>3. \A j \in Correct : Success(agreementResult[j])
  <2>. SUFFICES ASSUME NEW j \in Correct PROVE Success(agreementResult[j])
    OBVIOUS
  <2>1. /\ Cardinality(DoneWith(decision, {One})) \in Nat
        /\ Cardinality(DoneWith(agreementResult[j], {One})) \in Nat
        /\ Cardinality(DoneWith(decision, {One}))
              <= Cardinality(DoneWith(agreementResult[j], {One}))
    BY <1>2, DoneWithNodes, SubsetSize
  <2>2. Cardinality(DoneWith(decision, {One})) >= N - F
    BY RestSuccess DEF Success
  <2>. QED
    BY <2>1, <2>2, NodesFinite, NodesAssumption DEF Success
<1>4. \A p \in Nodes : decision[p] # Undefined
  BY <1>3 DEF AtRest, RestInv, ZerosFed
<1>. DEFINE agreed == DoneWith(agreementResult[i], {One})
<1>5. agreed = DoneWith(decision, {One})
  BY <1>1, <1>4 DEF DoneWith
<1>6. CountDoneAgreement(agreementResult[i]) = AgreementDoneThreshold
  <2>1. DoneWith(agreementResult[i], Binary) = Nodes
    BY <1>1, <1>4 DEF IInv, TypeOK, BinaryState, DoneWith
  <2>. QED
    BY <2>1 DEF CountDoneAgreement, AgreementDoneThreshold, N
<1>7. agreed # {}
  <2>1. Cardinality(agreed) >= N - F
    BY <1>3 DEF Success
  <2>2. N - F > 0
    BY NodesFinite, NodesAssumption
  <2>3. agreed = {} => Cardinality(agreed) = 0
    BY FS_EmptySet
  <2>. HIDE DEF agreed
  <2>. QED
    BY <2>1, <2>2, <2>3, NodesFinite, NodesAssumption
<1>8. agreed \subseteq broadcastResult[i] \ empty
  <2>. SUFFICES ASSUME NEW p \in agreed PROVE p \in broadcastResult[i] \ empty
    OBVIOUS
  <2>1. p \in Nodes /\ decision[p] = One
    BY <1>5 DEF DoneWith
  <2>2. \E j \in Correct : p \in broadcastResult[j]
    BY <2>1 DEF RestInv, OneWithData
  <2>. QED
    BY <2>1, <2>2 DEF DataSent, AtRest
<1>9. Complete(i)
  BY <1>6, <1>7, <1>8 DEF Complete
<1>. QED
  BY <1>9 DEF RestInv, Tried

\* When no data, decision or signal is left for the loops, every correct node
\* has put a batch on its channel, unless empty data was agreed upon: decisions
\* that come before the data they stand for and agreements that were not idle
\* when Zero was due do not stop ACS (acs.go: tryCompleteAgreement,
\* processAgreement, sendZeroToIdleBba).
THEOREM BatchesAtRest == Spec => []BatchAtRest
BY RestCompletes, Invariance, RestInvariance, DataSentInvariance, PTL
=============================================================================
