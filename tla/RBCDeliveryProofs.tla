------------------------- MODULE RBCDeliveryProofs -------------------------
(* Proofs about what RBC delivers: it is the input of a correct proposer,  *)
(* a quorum has shared it, RBC implements ReliableBroadcast, the shards in *)
(* correct nodes' ECHOs are enough to rebuild it, and what every node has  *)
(* when the network is at rest.                                            *)
EXTENDS RBCImplementsRB, RBCProofs

-----------------------------------------------------------------------------
(* The inductive invariant, on top of IInv.                                *)

\* Nothing correct nodes say or save of one another is about another payload.
InputSpread ==
    Proposer \in Correct =>
        /\ \A m \in msgs : m.root = Input.root
        /\ \A i \in Correct : \A e \in echoReqRepo[i] \cup readyReqRepo[i] :
              e.src \in Correct => e.root = Input.root
        /\ \A i \in Correct : \A v \in delivered[i] : v.root = Input.root

\* The VALs go out last, and the ECHOs of the others come after them.
ValsLast ==
    Proposer \in Correct /\ inputPc # "done" =>
        \A m \in msgs : m.type # "val" /\ (m.type = "echo" => m.src = Proposer)

\* A node that has not finished has delivered nothing, and one that has
\* delivered is not alone.
DoneMarked ==
    \A i \in Correct : delivered[i] # {} => done[i] /\ N >= 2

DInv ==
    /\ IInv
    /\ InputSpread
    /\ ValsLast
    /\ DoneMarked

LEMMA InitDInv == Init => DInv
BY InitIInv DEF Init, DInv, InputSpread, ValsLast, DoneMarked

LEMMA InputDInv == DInv /\ InputStep => DInv'
<1>. SUFFICES ASSUME DInv, InputStep PROVE DInv'
  OBVIOUS
<1>1. IInv' /\ TypeOK /\ Proposer \in Correct
  BY InputIInv
     DEF DInv, IInv, InputBegun, InputStep, HandleInput, InputEcho, InputReady,
         InputShare, DistributeMessage
<1>2. DoneMarked'
  BY DEF DInv, DoneMarked, InputStep, HandleInput, InputEcho, InputReady,
         InputShare, DistributeMessage
<1>3. CASE HandleInput
  BY <1>1, <1>2, <1>3 DEF HandleInput, DInv, InputSpread, ValsLast
<1>4. CASE InputEcho
  <2>1. \A i \in Correct : echoReqRepo'[i] \subseteq echoReqRepo[i] \cup
            {[src |-> Proposer, root |-> Input.root, shard |-> InputShard]}
    BY <1>1, <1>4 DEF InputEcho, SaveOwnEcho, TypeOK
  <2>2. InputSpread'
    BY <1>4, <2>1 DEF InputEcho, DInv, InputSpread
  <2>. QED
    BY <1>1, <1>2, <1>4, <2>2 DEF InputEcho, DInv, ValsLast
<1>5. CASE InputReady
  <2>1. \A i \in Correct : readyReqRepo'[i] \subseteq readyReqRepo[i] \cup
            {[src |-> Proposer, root |-> Input.root]}
    BY <1>1, <1>5 DEF InputReady, SaveOwnReady, TypeOK
  <2>2. InputSpread'
    BY <1>5, <2>1 DEF InputReady, DInv, InputSpread
  <2>. QED
    BY <1>1, <1>2, <1>5, <2>2 DEF InputReady, DInv, ValsLast
<1>6. CASE InputShare
  <2>1. msgs' = msgs \cup
          {Echo(Proposer, Input.root, InputShard, contentLength[Proposer])}
    BY <1>6 DEF InputShare, ShareOwnEcho
  <2>2. InputSpread'
    BY <1>6, <2>1 DEF InputShare, DInv, InputSpread, Echo
  <2>3. ValsLast'
    BY <1>6, <2>1 DEF InputShare, DInv, ValsLast, Echo
  <2>. QED
    BY <1>1, <1>2, <2>2, <2>3 DEF DInv
<1>7. CASE DistributeMessage
  <2>1. PICK order \in ConnOrders :
          msgs' = msgs \cup
                    Distribution(Input.root, contentLength[Proposer], order)
    BY <1>7 DEF DistributeMessage
  <2>2. \A m \in msgs' : m \in msgs \/ m.root = Input.root
    BY <2>1 DEF Distribution
  <2>3. InputSpread'
    BY <1>7, <2>2 DEF DistributeMessage, DInv, InputSpread
  <2>4. ValsLast'
    BY <1>7 DEF DistributeMessage, ValsLast
  <2>. QED
    BY <1>1, <1>2, <2>3, <2>4 DEF DInv
<1>. QED
  BY <1>3, <1>4, <1>5, <1>6, <1>7 DEF InputStep

LEMMA LengthDInv ==
    ASSUME DInv, NEW i \in Correct, NEW m, SetContentLength(i, m)
    PROVE  DInv'
BY LengthIInv DEF SetContentLength, DInv, InputSpread, ValsLast, DoneMarked

\* A VAL is the proposer's, and a correct proposer sends the input.
LEMMA ValueDInv ==
    ASSUME DInv, NEW i \in Correct, NEW m, HandleValueRequest(i, m)
    PROVE  DInv'
<1>1. /\ IInv'
      /\ TypeOK
      /\ SaveOwnEcho(i, m.root, m.shard)
      /\ SaveOwnReady(i, m.root)
      /\ ShareOwnEcho(i, m.root, m.shard)
      /\ UNCHANGED <<contentLength, readySent, done, delivered, inputPc>>
  BY ValueIInv DEF DInv, IInv, HandleValueRequest
<1>2. Proposer \in Correct => m.root = Input.root /\ inputPc = "done"
  <2>1. m.type = "val" /\ Arrives(i, m)
    BY DEF HandleValueRequest, Admitted
  <2>2. CASE m \in FaultyTo[i]
    BY <2>1, <2>2, FaultyAssumption DEF Correct
  <2>3. CASE m \in msgs
    BY <2>1, <2>3 DEF DInv, InputSpread, ValsLast
  <2>. QED
    BY <2>1, <2>2, <2>3 DEF Arrives
<1>3. /\ \A j \in Correct : echoReqRepo'[j] \subseteq echoReqRepo[j] \cup
            {[src |-> i, root |-> m.root, shard |-> m.shard]}
      /\ \A j \in Correct : readyReqRepo'[j] \subseteq readyReqRepo[j] \cup
            {[src |-> i, root |-> m.root]}
      /\ msgs' = msgs \cup {Echo(i, m.root, m.shard, contentLength[i])}
  BY <1>1 DEF SaveOwnEcho, SaveOwnReady, ShareOwnEcho, TypeOK
<1>4. InputSpread'
  <2>1. SUFFICES ASSUME Proposer \in Correct
                 PROVE  /\ \A x \in msgs' : x.root = Input.root
                        /\ \A j \in Correct :
                              \A e \in echoReqRepo'[j] \cup readyReqRepo'[j] :
                                 e.src \in Correct => e.root = Input.root
                        /\ \A j \in Correct : \A v \in delivered'[j] :
                              v.root = Input.root
    BY DEF InputSpread
  <2>2. \A x \in msgs' : x.root = Input.root
    BY <1>2, <1>3, <2>1 DEF DInv, InputSpread, Echo
  <2>3. \A j \in Correct : \A e \in echoReqRepo'[j] :
          e.src \in Correct => e.root = Input.root
    BY <1>2, <1>3, <2>1 DEF DInv, InputSpread
  <2>4. \A j \in Correct : \A e \in readyReqRepo'[j] :
          e.src \in Correct => e.root = Input.root
    BY <1>2, <1>3, <2>1 DEF DInv, InputSpread
  <2>. QED
    BY <1>1, <2>1, <2>2, <2>3, <2>4 DEF DInv, InputSpread
<1>5. ValsLast' /\ DoneMarked'
  BY <1>1, <1>2 DEF DInv, ValsLast, DoneMarked
<1>. QED
  BY <1>1, <1>4, <1>5 DEF DInv

-----------------------------------------------------------------------------
\* Nobody hears from itself: where a message arrives there are two nodes.
LEMMA TwoNodes ==
    ASSUME TypeOK, NEW i \in Correct, NEW m, Arrives(i, m)
    PROVE  N >= 2
<1>1. m.src \in Nodes /\ i \in Nodes /\ m.src # i
  BY ArrivingMessage, MessageFields, FaultyAssumption DEF Arrives, Correct
<1>2. Cardinality({m.src, i}) = 2
  <2>1. /\ IsFiniteSet({i})
        /\ Cardinality({i}) = 1
    BY FS_Singleton
  <2>2. {m.src, i} = {i} \cup {m.src} /\ m.src \notin {i}
    BY <1>1
  <2>. QED
    BY <2>1, <2>2, FS_AddElement
<1>3. Cardinality({m.src, i}) <= N
  BY <1>1, NodesFinite, FS_Subset DEF N
<1>. QED
  BY <1>2, <1>3, NodesFinite

\* More than F votes for a root, of which those of correct nodes are all for
\* the input, are votes for the input.
LEMMA VotesForInput ==
    ASSUME NEW repo, \A e \in repo : e.src \in Nodes,
           NEW root, Count(repo, root) >= F + 1,
           \A e \in repo : e.src \in Correct => e.root = Input.root
    PROVE  root = Input.root
<1>1. Voters(repo, root) \subseteq Nodes
  BY DEF Voters
<1>2. PICK k \in Voters(repo, root) : k \in Correct
  BY <1>1, CorrectMember DEF Count
<1>3. PICK e \in repo : e.src = k /\ e.root = root
  BY <1>2 DEF Voters
<1>. QED
  BY <1>2, <1>3

\* What both handlers do once the request is saved.
LEMMA HandlerDInv ==
    ASSUME DInv, IInv', NEW i \in Correct, NEW m, Admitted(i, m),
           NEW enough, NEW echos, NEW readys,
           ShareReadyIf(enough, i, m.root),
           TryOutput(i, m.root, echos, readys),
           UNCHANGED inputPc,
           Proposer \in Correct =>
             /\ \A j \in Correct : \A e \in echoReqRepo'[j] \cup readyReqRepo'[j] :
                   e.src \in Correct => e.root = Input.root
             /\ enough => m.root = Input.root
             /\ Count(echos, m.root) >= EchoThreshold => m.root = Input.root
    PROVE  DInv'
<1>1. /\ TypeOK
      /\ done \in [Correct -> BOOLEAN]
      /\ delivered \in [Correct -> SUBSET Value]
  BY DEF DInv, IInv, TypeOK
<1>2. \A x \in msgs' : \/ x \in msgs
                       \/ enough /\ x = Ready(i, m.root, contentLength[i])
  BY DEF ShareReadyIf
<1>3. \/ delivered' = delivered /\ done' = done
      \/ /\ Count(echos, m.root) >= EchoThreshold
         /\ done' = [done EXCEPT ![i] = TRUE]
         /\ delivered' = [delivered EXCEPT ![i] =
                @ \cup {Decode(echos, m.root, contentLength[i])}]
  BY Zenon DEF TryOutput
<1>4. DoneMarked'
  <2>1. N >= 2
    BY <1>1, TwoNodes DEF Admitted
  <2>2. \A j \in Correct : /\ done[j] => done'[j]
                           /\ delivered'[j] # {} => delivered[j] # {} \/ done'[j]
    BY <1>1, <1>3
  <2>. QED
    BY <2>1, <2>2 DEF DInv, DoneMarked
<1>5. ValsLast'
  BY <1>2 DEF DInv, ValsLast, Ready
<1>6. InputSpread'
  <2>1. Proposer \in Correct => \A x \in msgs' : x.root = Input.root
    BY <1>2 DEF DInv, InputSpread, Ready
  <2>2. Proposer \in Correct =>
          \A j \in Correct : \A v \in delivered'[j] : v.root = Input.root
    <3>1. Decode(echos, m.root, contentLength[i]).root = m.root
      BY DEF Decode
    <3>2. \A j \in Correct : \A v \in delivered'[j] :
             \/ v \in delivered[j]
             \/ Count(echos, m.root) >= EchoThreshold /\ v.root = m.root
      BY <1>1, <1>3, <3>1
    <3>. QED
      BY <3>2 DEF DInv, InputSpread
  <2>. QED
    BY <2>1, <2>2 DEF InputSpread
<1>. QED
  BY <1>4, <1>5, <1>6 DEF DInv

\* A quorum of ECHOs has more than F.
LEMMA QuorumHasMore == N - F >= F + 1
BY NodesFinite, NodesAssumption

LEMMA EchoDInv ==
    ASSUME DInv, NEW i \in Correct, NEW m, HandleEchoRequest(i, m)
    PROVE  DInv'
<1>. DEFINE entry == [src |-> m.src, root |-> m.root, shard |-> m.shard]
            echos == echoReqRepo[i] \cup {entry}
            enough == Count(echos, m.root) >= EchoThreshold
<1>1. /\ IInv'
      /\ TypeOK
      /\ Arrives(i, m)
      /\ Admitted(i, m)
      /\ echoReqRepo' = [echoReqRepo EXCEPT ![i] = echos]
      /\ ShareReadyIf(enough, i, m.root)
      /\ TryOutput(i, m.root, echos, readyReqRepo[i])
      /\ UNCHANGED <<contentLength, readyReqRepo, valReceived, inputPc>>
  BY EchoIInv DEF DInv, IInv, HandleEchoRequest, Admitted
<1>2. m.src \in Nodes /\ (m.src \in Correct => m \in msgs)
  BY <1>1, ArrivingMessage, MessageFields
<1>3. \A j \in Correct : /\ echoReqRepo'[j] \subseteq echoReqRepo[j] \cup {entry}
                         /\ \A e \in echoReqRepo[j] : e.src \in Nodes
  BY <1>1 DEF TypeOK, EchoEntry
<1>4. ASSUME Proposer \in Correct
      PROVE  /\ \A j \in Correct : \A e \in echoReqRepo'[j] \cup readyReqRepo'[j] :
                   e.src \in Correct => e.root = Input.root
             /\ enough => m.root = Input.root
  <2>1. entry.src \in Correct => entry.root = Input.root
    BY <1>2, <1>4 DEF DInv, InputSpread
  <2>2. \A j \in Correct : \A e \in echoReqRepo[j] \cup {entry} :
          e.src \in Correct => e.root = Input.root
    BY <1>4, <2>1 DEF DInv, InputSpread
  <2>3. enough => m.root = Input.root
    <3>1. /\ \A e \in echos : e.src \in Nodes
          /\ \A e \in echos : e.src \in Correct => e.root = Input.root
      BY <1>2, <1>3, <2>2
    <3>2. enough => Count(echos, m.root) >= F + 1
      <4>1. Count(echos, m.root) \in Nat
        BY <3>1, CountGrows
      <4>. QED
        BY <4>1, QuorumHasMore, NodesFinite, NodesAssumption DEF EchoThreshold
    <3>. QED
      BY <3>1, <3>2, VotesForInput
  <2>4. \A j \in Correct : \A e \in readyReqRepo'[j] :
          e.src \in Correct => e.root = Input.root
    BY <1>1, <1>4 DEF DInv, InputSpread
  <2>. QED
    BY <1>3, <2>2, <2>3, <2>4
<1>. QED
  BY <1>1, <1>4, HandlerDInv

LEMMA ReadyDInv ==
    ASSUME DInv, NEW i \in Correct, NEW m, HandleReadyRequest(i, m)
    PROVE  DInv'
<1>. DEFINE entry == [src |-> m.src, root |-> m.root]
            readys == readyReqRepo[i] \cup {entry}
            enough == Count(readys, m.root) >= ReadyThreshold
<1>1. /\ IInv'
      /\ TypeOK
      /\ Arrives(i, m)
      /\ Admitted(i, m)
      /\ readyReqRepo' = [readyReqRepo EXCEPT ![i] = readys]
      /\ ShareReadyIf(enough, i, m.root)
      /\ TryOutput(i, m.root, echoReqRepo[i], readys)
      /\ UNCHANGED <<contentLength, echoReqRepo, valReceived, inputPc>>
  BY ReadyIInv DEF DInv, IInv, HandleReadyRequest, Admitted
<1>2. m.src \in Nodes /\ (m.src \in Correct => m \in msgs)
  BY <1>1, ArrivingMessage, MessageFields
<1>3. \A j \in Correct :
        /\ readyReqRepo'[j] \subseteq readyReqRepo[j] \cup {entry}
        /\ \A e \in readyReqRepo[j] : e.src \in Nodes
        /\ \A e \in echoReqRepo[j] : e.src \in Nodes
  BY <1>1 DEF TypeOK, ReadyEntry, EchoEntry
<1>4. ASSUME Proposer \in Correct
      PROVE  /\ \A j \in Correct : \A e \in echoReqRepo'[j] \cup readyReqRepo'[j] :
                   e.src \in Correct => e.root = Input.root
             /\ enough => m.root = Input.root
             /\ Count(echoReqRepo[i], m.root) >= EchoThreshold
                   => m.root = Input.root
  <2>1. entry.src \in Correct => entry.root = Input.root
    BY <1>2, <1>4 DEF DInv, InputSpread
  <2>2. \A j \in Correct : \A e \in readyReqRepo[j] \cup {entry} :
          e.src \in Correct => e.root = Input.root
    BY <1>4, <2>1 DEF DInv, InputSpread
  <2>3. enough => m.root = Input.root
    BY <1>2, <1>3, <2>2, VotesForInput DEF ReadyThreshold
  <2>4. \A j \in Correct : \A e \in echoReqRepo'[j] :
          e.src \in Correct => e.root = Input.root
    BY <1>1, <1>4 DEF DInv, InputSpread
  <2>5. Count(echoReqRepo[i], m.root) >= EchoThreshold => m.root = Input.root
    <3>1. Count(echoReqRepo[i], m.root) \in Nat
      BY <1>3, CountGrows
    <3>2. Count(echoReqRepo[i], m.root) >= EchoThreshold
             => Count(echoReqRepo[i], m.root) >= F + 1
      BY <3>1, QuorumHasMore, NodesFinite, NodesAssumption DEF EchoThreshold
    <3>. QED
      BY <1>1, <1>3, <2>4, <3>2, VotesForInput
  <2>. QED
    BY <1>3, <2>2, <2>3, <2>4, <2>5
<1>. QED
  BY <1>1, <1>4, HandlerDInv

LEMMA DeliveryInvariance == Spec => []DInv
<1>1. DInv /\ [Next]_vars => DInv'
  <2>. SUFFICES ASSUME DInv, [Next]_vars PROVE DInv'
    OBVIOUS
  <2>1. CASE InputStep
    BY <2>1, InputDInv
  <2>2. ASSUME NEW i \in Correct, NEW m \in msgs \cup FaultyTo[i], Receive(i, m)
        PROVE  DInv'
    BY <2>2, LengthDInv, ValueDInv, EchoDInv, ReadyDInv DEF Receive
  <2>3. CASE UNCHANGED vars
    BY <2>3 DEF vars, DInv, IInv, TypeOK, InputBegun, SingleVote, LengthFirst,
                VotesMarked, EntriesSent, Pending, DeliveredBacked, InputSpread,
                ValsLast, DoneMarked
  <2>. QED
    BY <2>1, <2>2, <2>3 DEF Next
<1>. QED
  BY <1>1, InitDInv, PTL DEF Spec

-----------------------------------------------------------------------------
\* Correct nodes vote for, and deliver, nothing but a correct proposer's input,
\* whatever at most F faulty nodes vote for (docs/RBC-EN.md: Validity; rbc.go:
\* HandleInput and the two thresholds of handleEchoRequest and
\* handleReadyRequest).
THEOREM InputOnly == Spec => []OnlyTheInput
<1>1. DInv => OnlyTheInput
  BY DEF DInv, InputSpread, OnlyTheInput
<1>. QED
  BY <1>1, DeliveryInvariance, PTL

\* N-2F of the nodes whose ECHOs made a delivery are correct and have shared
\* them: an ECHO HandleInput has saved and not yet shared makes none (rbc.go:
\* handleReadyRequest, handleEchoRequest, HandleInput).
THEOREM QuorumHolds == Spec => []OutputHeldByQuorum
<1>1. DInv => OutputHeldByQuorum
  <2>. SUFFICES ASSUME DInv, NEW i \in Correct, NEW v \in delivered[i]
                PROVE  Cardinality({j \in Correct : \E m \in msgs :
                                      /\ m.type = "echo"
                                      /\ m.src = j
                                      /\ m.root = v.root
                                      /\ m.len = v.len}) >= N - 2 * F
    BY DEF OutputHeldByQuorum
  <2>. DEFINE Q == Voters(echoReqRepo[i], v.root)
              Holders == {j \in Correct : \E m \in msgs :
                              /\ m.type = "echo"
                              /\ m.src = j
                              /\ m.root = v.root
                              /\ m.len = v.len}
  <2>1. /\ Q \subseteq Nodes
        /\ Cardinality(Q) >= N - F
    <3>1. Q \subseteq Nodes
      BY DEF DInv, IInv, TypeOK, EchoEntry, Voters
    <3>2. Cardinality(Q) >= N - F
      BY DEF DInv, IInv, DeliveredBacked, Count, EchoThreshold
    <3>. QED
      BY <3>1, <3>2
  <2>2. /\ Cardinality(Q \ Faulty) >= N - 2 * F
        /\ Cardinality(Q \ Faulty) \in Nat
        /\ IsFiniteSet(Q \ Faulty)
    <3>. HIDE DEF Q
    <3>1. IsFiniteSet(Q) /\ Cardinality(Q) \in Nat
      BY <2>1, NodesFinite, FS_Subset, FS_CardinalityType
    <3>2. Cardinality(Q \ Faulty) = Cardinality(Q) - Cardinality(Q \cap Faulty)
      BY <3>1, FS_Difference
    <3>3. /\ Cardinality(Q \cap Faulty) <= Cardinality(Faulty)
          /\ Cardinality(Q \cap Faulty) \in Nat
      BY <3>1, NodesFinite, FS_Intersection, FS_CardinalityType
    <3>4. IsFiniteSet(Q \ Faulty)
      BY <3>1, FS_Difference
    <3>. QED
      BY <2>1, <3>1, <3>2, <3>3, <3>4, NodesFinite, NodesAssumption,
         FS_CardinalityType
  <2>3. \A k \in Q \ Faulty : \E e \in echoReqRepo[i] :
           /\ k \in Correct
           /\ e.src = k
           /\ Echo(k, v.root, e.shard, v.len) \in msgs \cup Pending
    BY <2>1 DEF Voters, Correct, DInv, IInv, EntriesSent, DeliveredBacked
  <2>4. CASE Pending = {}
    <3>1. Q \ Faulty \subseteq Holders
      BY <2>3, <2>4 DEF Echo
    <3>2. IsFiniteSet(Holders)
      <4>1. Holders \subseteq Nodes
        BY DEF Correct
      <4>. QED
        BY <4>1, NodesFinite, FS_Subset
    <3>3. Cardinality(Q \ Faulty) <= Cardinality(Holders)
      BY <3>1, <3>2, FS_Subset
    <3>4. Cardinality(Holders) \in Nat
      BY <3>2, FS_CardinalityType
    <3>. HIDE DEF Q, Holders
    <3>5. Cardinality(Holders) >= N - 2 * F
      BY <2>2, <3>3, <3>4, NodesFinite, NodesAssumption
    <3>. QED
      BY <3>5 DEF Holders
  <2>5. CASE Pending # {}
    <3>1. /\ Proposer \in Correct
          /\ inputPc # "done"
          /\ ~ valReceived[Proposer]
          /\ \A p \in Pending : p.src = Proposer
      BY <2>5 DEF Pending, DInv, IInv, InputBegun, Echo
    <3>2. \A m \in msgs : m.type # "echo"
      BY <3>1 DEF DInv, IInv, ValsLast, VotesMarked
    <3>3. Q \ Faulty \subseteq {Proposer}
      BY <2>3, <3>1, <3>2 DEF Echo
    <3>4. Cardinality(Q \ Faulty) <= 1
      <4>1. IsFiniteSet({Proposer}) /\ Cardinality({Proposer}) = 1
        BY FS_Singleton
      <4>. HIDE DEF Q
      <4>. QED
        BY <3>3, <4>1, FS_Subset
    <3>5. N >= 2
      BY DEF DInv, DoneMarked
    <3>. QED
      BY <2>2, <3>4, <3>5, NodesFinite, NodesAssumption
  <2>. QED
    BY <2>4, <2>5
<1>. QED
  BY <1>1, DeliveryInvariance, PTL

-----------------------------------------------------------------------------
(* The refinement.                                                         *)

LEMMA HeadersInit == Init => RB!Init
BY DEF Init, RB!Init, DeliveredHeaders

\* A step that changes deliveries delivers one value at a node that had none.
LEMMA DeliveryStep ==
    ASSUME DInv, [Next]_vars
    PROVE  \/ delivered' = delivered
           \/ \E i \in Correct : \E v :
                 /\ delivered[i] = {}
                 /\ delivered' = [delivered EXCEPT ![i] = {v}]
<1>1. ASSUME NEW i \in Correct, NEW root, NEW echos, NEW readys,
             TryOutput(i, root, echos, readys)
      PROVE  \/ delivered' = delivered
             \/ \E v : /\ delivered[i] = {}
                       /\ delivered' = [delivered EXCEPT ![i] = {v}]
  <2>1. \/ delivered' = delivered
        \/ /\ ~ done[i]
           /\ delivered' = [delivered EXCEPT ![i] =
                  @ \cup {Decode(echos, root, contentLength[i])}]
    BY <1>1, Zenon DEF TryOutput
  <2>2. ~ done[i] => delivered[i] = {}
    BY DEF DInv, DoneMarked
  <2>3. delivered \in [Correct -> SUBSET Value]
    BY DEF DInv, IInv, TypeOK
  <2>4. CASE /\ ~ done[i]
             /\ delivered' = [delivered EXCEPT ![i] =
                    @ \cup {Decode(echos, root, contentLength[i])}]
    <3>1. delivered' =
            [delivered EXCEPT ![i] = {Decode(echos, root, contentLength[i])}]
      BY <2>2, <2>3, <2>4
    <3>. QED
      BY <2>2, <2>4, <3>1
  <2>. QED
    BY <2>1, <2>4
<1>2. CASE InputStep
  BY <1>2 DEF InputStep, HandleInput, InputEcho, InputReady, InputShare,
              DistributeMessage
<1>3. ASSUME NEW i \in Correct, NEW m, Receive(i, m)
      PROVE  \/ delivered' = delivered
             \/ \E v : /\ delivered[i] = {}
                       /\ delivered' = [delivered EXCEPT ![i] = {v}]
  <2>1. CASE SetContentLength(i, m) \/ HandleValueRequest(i, m)
    BY <2>1 DEF SetContentLength, HandleValueRequest
  <2>2. CASE HandleEchoRequest(i, m)
    BY <1>1, <2>2 DEF HandleEchoRequest
  <2>3. CASE HandleReadyRequest(i, m)
    BY <1>1, <2>3 DEF HandleReadyRequest
  <2>. QED
    BY <1>3, <2>1, <2>2, <2>3 DEF Receive
<1>4. CASE UNCHANGED vars
  BY <1>4 DEF vars
<1>. QED
  BY <1>2, <1>3, <1>4 DEF Next

LEMMA DeliveryRefines ==
    ASSUME DInv, DInv', [Next]_vars
    PROVE  RB!Next \/ UNCHANGED DeliveredHeaders
<1>1. /\ delivered \in [Correct -> SUBSET Value]
      /\ delivered' \in [Correct -> SUBSET Value]
  BY DEF DInv, IInv, TypeOK
<1>2. CASE delivered' = delivered
  BY <1>2 DEF DeliveredHeaders
<1>3. ASSUME NEW i \in Correct, NEW v, delivered[i] = {},
             delivered' = [delivered EXCEPT ![i] = {v}]
      PROVE  RB!Next
  <2>1. delivered'[i] = {v} /\ v \in Value
    BY <1>1, <1>3
  <2>2. Header(v) \in [root : Roots, len : Lengths]
    BY <2>1 DEF Header, Value
  <2>3. DeliveredHeaders[i] = {}
    BY <1>3 DEF DeliveredHeaders
  <2>4. \A j \in Correct : DeliveredHeaders[j] \subseteq {Header(v)}
    <3>1. \A j \in Correct : \A w \in delivered[j] :
             w \in delivered'[j]
      BY <1>1, <1>3
    <3>2. Agreement'
      <4>1. IInv'
        BY DEF DInv
      <4>. QED
        BY <4>1, QuorumsAgree, PTL
    <3>3. \A j \in Correct : \A w \in delivered'[j] :
             w.root = v.root /\ w.len = v.len
      BY <2>1, <3>2 DEF Agreement
    <3>. QED
      BY <3>1, <3>3 DEF DeliveredHeaders, Header
  <2>5. Proposer \in Correct =>
           Header(v) \in [root : {Input.root}, len : Lengths]
    BY <2>1, <2>2 DEF DInv, InputSpread, Header, Value
  <2>6. DeliveredHeaders' = [DeliveredHeaders EXCEPT ![i] = {Header(v)}]
    <3>1. \A j \in Correct : j # i => delivered'[j] = delivered[j]
      BY <1>1, <1>3
    <3>2. {Header(w) : w \in delivered'[i]} = {Header(v)}
      BY <2>1
    <3>. QED
      BY <3>1, <3>2 DEF DeliveredHeaders
  <2>7. RB!Deliver(i, Header(v))
    BY <2>3, <2>4, <2>5, <2>6 DEF RB!Deliver
  <2>. QED
    BY <2>2, <2>7 DEF RB!Next
<1>. QED
  BY <1>2, <1>3, DeliveryStep

\* rbc.go implements ReliableBroadcast for every network that tolerates F of
\* its nodes being faulty: at most one delivery for each node, all of one
\* payload, the input of a correct proposer (rbc.go: decodeSuccess).
THEOREM RBCRefinesRB == Spec => ImplementsRB
<1>1. DInv /\ DInv' /\ [Next]_vars => [RB!Next]_DeliveredHeaders
  BY DeliveryRefines
<1>. QED
  BY <1>1, HeadersInit, DeliveryInvariance, PTL DEF Spec, ImplementsRB, RB!Spec

-----------------------------------------------------------------------------
(* Data: the shards of a correct proposer's payload.                       *)

\* The shards of the input are different, so each is found at its own place.
LeavesDiffer ==
    \A k, l \in Positions : Leaf[Input.root][k] = Leaf[Input.root][l] => k = l

\* The proposer keeps one shard and sends every other node one of its own, and
\* what a node puts in its ECHO is what it was sent.
ShardsApart ==
    Proposer \in Correct =>
        /\ \A v, w \in msgs : v.type = "val" /\ w.type = "val" =>
              /\ v.dst # Proposer /\ v.shard # InputShard
              /\ v.shard = w.shard => v.dst = w.dst
        /\ \A m \in msgs : m.type = "echo" =>
              IF m.src = Proposer
              THEN m.shard = InputShard
              ELSE \E v \in msgs : /\ v.type = "val"
                                   /\ v.dst = m.src
                                   /\ v.shard = m.shard

\* The order of the connections tells the shards of any two nodes apart.
LEMMA DistributionApart ==
    ASSUME LeavesDiffer, NEW len, NEW order \in ConnOrders
    PROVE  \A v, w \in Distribution(Input.root, len, order) :
              /\ v.type = "val"
              /\ v.dst # Proposer /\ v.shard # InputShard
              /\ v.shard = w.shard => v.dst = w.dst
<1>1. /\ order \in [Nodes \ {Proposer} -> Positions \ {0}]
      /\ \A i, j \in Nodes \ {Proposer} : order[i] = order[j] => i = j
  BY PayloadAssumption
<1>2. N \in Nat /\ N # 0
  BY NodesFinite, NodesAssumption, FS_EmptySet DEF N
<1>3. 0 \in Positions
  BY <1>2 DEF Positions
<1>4. ASSUME NEW i \in DOMAIN order, NEW j \in DOMAIN order
      PROVE  /\ i # Proposer
             /\ Leaf[Input.root][order[i]] # InputShard
             /\ Leaf[Input.root][order[i]] = Leaf[Input.root][order[j]] => i = j
  BY <1>1, <1>3 DEF LeavesDiffer, InputShard
<1>. QED
  BY <1>4 DEF Distribution

\* HandleInput sends the VALs once, to nodes of which none has shared an ECHO.
LEMMA InputApart ==
    ASSUME LeavesDiffer, DInv, ShardsApart, InputStep
    PROVE  ShardsApart'
<1>1. CASE HandleInput \/ InputEcho \/ InputReady
  BY <1>1 DEF HandleInput, InputEcho, InputReady, ShardsApart
<1>2. CASE InputShare
  BY <1>2 DEF InputShare, ShareOwnEcho, Echo, ShardsApart
<1>3. CASE DistributeMessage
  <2>1. PICK order \in ConnOrders :
          msgs' = msgs \cup
                    Distribution(Input.root, contentLength[Proposer], order)
    BY <1>3 DEF DistributeMessage
  <2>2. Proposer \in Correct =>
          \A m \in msgs : m.type # "val" /\ (m.type = "echo" => m.src = Proposer)
    BY <1>3 DEF DistributeMessage, DInv, ValsLast
  <2>. QED
    BY <2>1, <2>2, DistributionApart DEF ShardsApart
<1>. QED
  BY <1>1, <1>2, <1>3 DEF InputStep

\* A node's ECHO has the shard of the VAL, and the VAL is the proposer's.
LEMMA ReceiveApart ==
    ASSUME DInv, ShardsApart,
           NEW i \in Correct, NEW m \in msgs \cup FaultyTo[i], Receive(i, m)
    PROVE  ShardsApart'
<1>1. CASE SetContentLength(i, m)
  BY <1>1 DEF SetContentLength, ShardsApart
<1>2. CASE HandleValueRequest(i, m)
  <2>. SUFFICES ASSUME Proposer \in Correct PROVE ShardsApart'
    BY DEF ShardsApart
  <2>1. m \in msgs /\ m.type = "val" /\ m.src # i /\ m.dst = i
    BY <1>2, FaultyAssumption
       DEF HandleValueRequest, Admitted, Arrives, Correct
  <2>2. i # Proposer
    BY <2>1 DEF ShardsApart
  <2>3. msgs' = msgs \cup {Echo(i, m.root, m.shard, contentLength[i])}
    BY <1>2 DEF HandleValueRequest, ShareOwnEcho
  <2>. QED
    BY <2>1, <2>2, <2>3 DEF ShardsApart, Echo
<1>3. ASSUME NEW enough, ShareReadyIf(enough, i, m.root)
      PROVE  ShardsApart'
  BY <1>3 DEF ShareReadyIf, Ready, ShardsApart
<1>4. CASE HandleEchoRequest(i, m)
  BY <1>3, <1>4 DEF HandleEchoRequest
<1>5. CASE HandleReadyRequest(i, m)
  BY <1>3, <1>5 DEF HandleReadyRequest
<1>. QED
  BY <1>1, <1>2, <1>4, <1>5 DEF Receive

LEMMA ApartInvariance == LeavesDiffer => (Spec => []ShardsApart)
<1>1. Init => ShardsApart
  BY DEF Init, ShardsApart
<1>2. LeavesDiffer /\ DInv /\ ShardsApart /\ [Next]_vars => ShardsApart'
  <2>. SUFFICES ASSUME LeavesDiffer, DInv, ShardsApart, [Next]_vars
                PROVE  ShardsApart'
    OBVIOUS
  <2>1. CASE UNCHANGED vars
    BY <2>1 DEF vars, ShardsApart
  <2>. QED
    BY <2>1, InputApart, ReceiveApart DEF Next
<1>. SUFFICES ASSUME LeavesDiffer PROVE Spec => []ShardsApart
  OBVIOUS
<1>3. DInv /\ ShardsApart /\ [Next]_vars => ShardsApart'
  BY <1>2
<1>. QED
  BY <1>1, <1>3, DeliveryInvariance, PTL DEF Spec

\* The shards in the ECHOs of correct nodes are enough to rebuild what is
\* delivered for a correct proposer, if the shards of its payload are different
\* (rbc.go: handleValueRequest, tryDecodeValue, DistributeMessage).
THEOREM DataSuffice == LeavesDiffer => (Spec => []Recoverable)
<1>1. ASSUME DInv, ShardsApart, OutputHeldByQuorum
      PROVE  Recoverable
  <2>. SUFFICES ASSUME Proposer \in Correct,
                       NEW i \in Correct, NEW v \in delivered[i]
                PROVE  Cardinality({m.shard : m \in {x \in msgs : x.type = "echo"}})
                           >= NumDataShards
    BY DEF Recoverable
  <2>. DEFINE Echos == {x \in msgs : x.type = "echo"}
              T == {m.shard : m \in Echos}
              H == {j \in Correct : \E m \in msgs :
                        /\ m.type = "echo"
                        /\ m.src = j
                        /\ m.root = v.root
                        /\ m.len = v.len}
              EchoOf(j) == CHOOSE m \in Echos : m.src = j
              f == [j \in H |-> EchoOf(j).shard]
  <2>1. Cardinality(H) >= N - 2 * F
    BY <1>1 DEF OutputHeldByQuorum
  <2>2. IsFiniteSet(T) /\ Cardinality(T) \in Nat
    <3>1. T \subseteq -1 .. N
      <4>1. \A m \in Echos : m \in Message /\ m.type = "echo"
        BY <1>1 DEF DInv, IInv, TypeOK
      <4>2. \A m \in Echos : m.shard \in Shards
        BY <4>1, MessageFields
      <4>3. Shards \subseteq -1 .. N
        BY NodesFinite DEF Shards, Positions, BadShard
      <4>. QED
        BY <4>2, <4>3
    <3>2. IsFiniteSet(-1 .. N)
      BY NodesFinite, FS_Interval
    <3>. HIDE DEF T
    <3>3. IsFiniteSet(T)
      BY <3>1, <3>2, FS_Subset
    <3>. QED
      BY <3>3, FS_CardinalityType
  <2>3. \A j \in H : EchoOf(j) \in Echos /\ EchoOf(j).src = j
    OBVIOUS
  <2>4. ASSUME NEW j \in H, NEW k \in H, f[j] = f[k] PROVE j = k
    <3>. DEFINE a == EchoOf(j) b == EchoOf(k)
    <3>1. /\ a \in msgs /\ a.type = "echo" /\ a.src = j
          /\ b \in msgs /\ b.type = "echo" /\ b.src = k
          /\ a.shard = b.shard
      BY <2>3, <2>4
    <3>. HIDE DEF a, b, f
    <3>. QED
      BY <1>1, <3>1 DEF ShardsApart
  <2>5. f \in Injection(H, T)
    <3>1. f \in [H -> T]
      BY <2>3
    <3>. HIDE DEF f
    <3>. QED
      BY <2>4, <3>1 DEF Injection, IsInjective
  <2>6. Cardinality(H) <= Cardinality(T) /\ IsFiniteSet(H)
    <3>. HIDE DEF f, H, T
    <3>. QED
      BY <2>2, <2>5, FS_Injection
  <2>7. Cardinality(H) \in Nat /\ N - 2 * F \in Int
    BY <2>6, FS_CardinalityType, NodesFinite, NodesAssumption
  <2>. HIDE DEF H, T
  <2>8. Cardinality(T) >= NumDataShards
    BY <2>1, <2>2, <2>6, <2>7 DEF NumDataShards
  <2>. QED
    BY <2>8 DEF T
<1>. SUFFICES ASSUME LeavesDiffer PROVE Spec => []Recoverable
  OBVIOUS
<1>2. Spec => []ShardsApart
  BY ApartInvariance
<1>. QED
  BY <1>1, <1>2, DeliveryInvariance, QuorumHolds, PTL

-----------------------------------------------------------------------------
(* The network does not come to rest short of READYs or of the input: what *)
(* ReadySpreads and Validity ask of fair behaviours, of single states.     *)

\* No message of a correct node is left for i to handle.
AtRest(i) ==
    \A m \in msgs : Arrives(i, m) =>
        /\ contentLength[i] # 0
        /\ contentLength[i] = m.len =>
              /\ m.type = "val" /\ ValidateMessage(m) => valReceived[i]
              /\ m.type = "echo" /\ ValidateMessage(m) => Find(echoReqRepo[i], m.src)
              /\ m.type = "ready" => Find(readyReqRepo[i], m.src)

\* HandleInput has returned, or has been turned away.
InputAtRest ==
    \/ Proposer \in Faulty
    \/ inputPc = "done"
    \/ inputPc = "none" /\ valReceived[Proposer]

ReadyAtRest ==
    \A i \in Correct, r \in Roots, l \in Lengths :
        /\ AtRest(i)
        /\ Cardinality({j \in Correct : Ready(j, r, l) \in msgs}) >= F + 1
        => readySent[i] \/ contentLength[i] # l

InputDelivered(i) ==
    \E v \in delivered[i] : v.root = Input.root /\ v.len = Input.len

\* At most one correct node is left with all it takes and no output.
ValidityAtRest ==
    /\ Proposer \in Correct
    /\ InputAtRest
    /\ \A i \in Correct : AtRest(i)
    => /\ \A i \in Correct : HoldsOutput(i)
       /\ \A i, j \in Correct : InputDelivered(i) \/ InputDelivered(j) \/ i = j

\* What is saved of another correct node is in the network, and nothing is saved
\* before there is a length.
OthersSent ==
    \A i \in Correct :
        /\ contentLength[i] = 0 => readyReqRepo[i] = {}
        /\ \A e \in echoReqRepo[i] : e.src \in Correct \ {i} =>
              Echo(e.src, e.root, e.shard, contentLength[i]) \in msgs
        /\ \A e \in readyReqRepo[i] : e.src \in Correct \ {i} =>
              Ready(e.src, e.root, contentLength[i]) \in msgs

\* F+1 READYs of others do not go unnoticed, as the own one may.
OthersSpoke ==
    \A i \in Correct, r \in Roots :
        Cardinality(Voters(readyReqRepo[i], r) \ {i}) >= ReadyThreshold => readySent[i]

\* Nobody names a length other than the input's.
OneLength == \A i \in Correct : \A m \in FaultyTo[i] : m.len = Input.len

LengthsEqual ==
    /\ \A m \in msgs : m.len = Input.len
    /\ \A i \in Correct : contentLength[i] \in {0, Input.len}

\* What HandleInput has done by now.
InputKept ==
    /\ inputPc \in {"ready", "share", "distribute", "done"} =>
          [src |-> Proposer, root |-> Input.root, shard |-> InputShard]
              \in echoReqRepo[Proposer]
    /\ inputPc \in {"share", "distribute", "done"} =>
          [src |-> Proposer, root |-> Input.root] \in readyReqRepo[Proposer]
    /\ inputPc \in {"distribute", "done"} => valReceived[Proposer]
    /\ inputPc = "done" => \A j \in Nodes \ {Proposer} : \E m \in msgs :
          m.type = "val" /\ m.src = Proposer /\ m.dst = j /\ m.shard \in Positions

\* A node that has shared its votes has them saved, and the flags stand for votes
\* and outputs.
OwnKept ==
    \A i \in Correct :
        /\ valReceived[i] =>
              /\ \E s \in Positions :
                    /\ Echo(i, Input.root, s, Input.len) \in msgs
                    /\ [src |-> i, root |-> Input.root, shard |-> s] \in echoReqRepo[i]
              /\ [src |-> i, root |-> Input.root] \in readyReqRepo[i]
        /\ readySent[i] => Ready(i, Input.root, Input.len) \in msgs
        /\ done[i] => delivered[i] # {}

Checked(i) == Count(echoReqRepo[i], Input.root) >= EchoThreshold => readySent[i]
Tried(i) == HoldsOutput(i) => done[i]
Heard(i, j) == j \in Voters(echoReqRepo[i], Input.root)

\* Of two nodes that have each other's ECHOs one got the other's after its own,
\* and so has looked at the thresholds since.
OneLooked ==
    \A i, j \in Correct :
        i # j /\ Heard(i, j) /\ Heard(j, i) =>
            /\ Checked(i) \/ Checked(j)
            /\ Tried(i) \/ Tried(j)

KeptInv == LengthsEqual /\ InputKept /\ OwnKept /\ OneLooked

RestInv ==
    /\ OthersSent
    /\ OthersSpoke
    /\ Proposer \in Correct /\ OneLength => KeptInv

LEMMA InitRest == Init => RestInv
<1>. SUFFICES ASSUME Init PROVE RestInv
  OBVIOUS
<1>1. \A i \in Correct, r \in Roots : Voters(readyReqRepo[i], r) \ {i} = {}
  BY DEF Init, Voters
<1>2. \A i \in Correct, r \in Roots :
         Cardinality(Voters(readyReqRepo[i], r) \ {i}) = 0
  BY <1>1, FS_EmptySet
<1>3. OthersSpoke
  BY <1>2, NodesAssumption DEF OthersSpoke, ReadyThreshold
<1>4. \A i, j \in Correct : ~ Heard(i, j)
  BY DEF Init, Heard, Voters
<1>. QED
  BY <1>3, <1>4 DEF Init, RestInv, OthersSent, KeptInv, LengthsEqual, InputKept,
                    OwnKept, OneLooked

\* A further request for another root changes nothing about this one.
LEMMA OtherRoot ==
    ASSUME NEW repo, NEW e, NEW root, e.root # root
    PROVE  /\ Voters(repo \cup {e}, root) = Voters(repo, root)
           /\ ShardsOf(repo \cup {e}, root) = ShardsOf(repo, root)
BY DEF Voters, ShardsOf

LEMMA ThisRoot ==
    ASSUME NEW repo, NEW e
    PROVE  Voters(repo \cup {e}, e.root) = Voters(repo, e.root) \cup {e.src}
BY DEF Voters

\* A READY, once enough, is shared.
LEMMA ShareReadyFacts ==
    ASSUME TypeOK, NEW i \in Correct, NEW root, NEW enough \in BOOLEAN,
           ShareReadyIf(enough, i, root)
    PROVE  /\ msgs \subseteq msgs'
           /\ \A x \in msgs' : x \in msgs \/ x = Ready(i, root, contentLength[i])
           /\ \A j \in Correct : readySent[j] => readySent'[j]
           /\ \A j \in Correct : readySent'[j] =>
                 readySent[j] \/ (j = i /\ Ready(i, root, contentLength[i]) \in msgs')
           /\ enough => readySent'[i]
<1>1. readySent \in [Correct -> BOOLEAN]
  BY DEF TypeOK
<1>2. CASE enough /\ ~ readySent[i]
  BY <1>1, <1>2 DEF ShareReadyIf
<1>3. CASE ~ (enough /\ ~ readySent[i])
  BY <1>1, <1>3 DEF ShareReadyIf
<1>. QED
  BY <1>2, <1>3

\* A payload, once it can be put out, is.
LEMMA TryOutputFacts ==
    ASSUME TypeOK, NEW i \in Correct, NEW root, NEW echos, NEW readys,
           TryOutput(i, root, echos, readys)
    PROVE  /\ \A j \in Correct : delivered[j] \subseteq delivered'[j]
           /\ \A j \in Correct : done[j] => done'[j]
           /\ \A j \in Correct : done'[j] => done[j] \/ delivered'[j] # {}
           /\ (/\ Count(readys, root) >= OutputThreshold
               /\ Count(echos, root) >= EchoThreshold
               /\ Decodable(echos, root)) => done'[i]
<1>. DEFINE value == Decode(echos, root, contentLength[i])
            all == /\ Count(readys, root) >= OutputThreshold
                   /\ Count(echos, root) >= EchoThreshold
                   /\ Decodable(echos, root)
<1>1. /\ done \in [Correct -> BOOLEAN]
      /\ delivered \in [Correct -> SUBSET Value]
  BY DEF TypeOK
<1>2. \/ /\ ~ done[i] /\ all
         /\ done' = [done EXCEPT ![i] = TRUE]
         /\ delivered' = [delivered EXCEPT ![i] = @ \cup {value}]
      \/ /\ ~ (~ done[i] /\ all)
         /\ done' = done /\ delivered' = delivered
  BY Zenon DEF TryOutput
<1>. HIDE DEF value, all
<1>3. CASE /\ done' = [done EXCEPT ![i] = TRUE]
           /\ delivered' = [delivered EXCEPT ![i] = @ \cup {value}]
  <2>1. \A j \in Correct : /\ done'[j] = (IF j = i THEN TRUE ELSE done[j])
                           /\ delivered'[j] = IF j = i THEN delivered[j] \cup {value}
                                              ELSE delivered[j]
    BY <1>1, <1>3
  <2>. QED
    BY <2>1
<1>4. CASE /\ ~ (~ done[i] /\ all)
           /\ done' = done /\ delivered' = delivered
  BY <1>4 DEF all
<1>. QED
  BY <1>2, <1>3, <1>4

\* A node whose thresholds have been looked at since its repositories changed,
\* or that no other node has heard yet, is none of two that have not looked.
LEMMA LookedStep ==
    ASSUME OneLooked,
           \A j \in Correct :
              \/ Checked(j)' /\ Tried(j)'
              \/ /\ \A k \in Correct : Heard(j, k)' => Heard(j, k)
                 /\ Checked(j) => Checked(j)'
                 /\ Tried(j) => Tried(j)'
              \/ \A k \in Correct \ {j} : ~ Heard(k, j)'
    PROVE  OneLooked'
<1>. SUFFICES ASSUME NEW i \in Correct, NEW j \in Correct,
                     i # j, Heard(i, j)', Heard(j, i)'
              PROVE  /\ Checked(i)' \/ Checked(j)'
                     /\ Tried(i)' \/ Tried(j)'
  BY DEF OneLooked
<1>1. CASE (Checked(i)' /\ Tried(i)') \/ (Checked(j)' /\ Tried(j)')
  BY <1>1
<1>2. CASE /\ Heard(i, j) /\ Heard(j, i)
           /\ Checked(i) => Checked(i)'
           /\ Tried(i) => Tried(i)'
           /\ Checked(j) => Checked(j)'
           /\ Tried(j) => Tried(j)'
  BY <1>2 DEF OneLooked
<1>. QED
  BY <1>1, <1>2

\* A node that has not shared its ECHO has not been heard.
LEMMA SilentUnheard ==
    ASSUME IInv, OthersSent, NEW i \in Correct, ~ valReceived[i],
           NEW k \in Correct \ {i}
    PROVE  ~ Heard(k, i)
<1>. SUFFICES ASSUME Heard(k, i) PROVE FALSE
  OBVIOUS
<1>1. PICK e \in echoReqRepo[k] : e.src = i
  BY DEF Heard, Voters
<1>2. Echo(i, e.root, e.shard, contentLength[k]) \in msgs
  BY <1>1 DEF OthersSent
<1>. QED
  BY <1>2 DEF IInv, VotesMarked, Echo

-----------------------------------------------------------------------------
(* One lemma for each action.                                              *)

LEMMA LengthRest ==
    ASSUME DInv, RestInv, NEW i \in Correct, NEW m, SetContentLength(i, m)
    PROVE  RestInv'
<1>1. /\ Arrives(i, m)
      /\ contentLength[i] = 0
      /\ contentLength' = [contentLength EXCEPT ![i] = m.len]
      /\ UNCHANGED <<echoReqRepo, readyReqRepo, valReceived, readySent, done,
                     delivered, inputPc, msgs>>
  BY DEF SetContentLength
<1>2. /\ echoReqRepo[i] = {} /\ readyReqRepo[i] = {}
      /\ contentLength \in [Correct -> Lengths \cup {0}]
      /\ m.len # 0
  <2>1. m.len \in Lengths
    BY <1>1, ArrivingMessage, MessageFields DEF DInv, IInv
  <2>. QED
    BY <1>1, <2>1, PayloadAssumption
       DEF DInv, IInv, TypeOK, LengthFirst, RestInv, OthersSent
<1>3. \A j \in Correct : contentLength'[j] = IF j = i THEN m.len ELSE contentLength[j]
  BY <1>1, <1>2
<1>4. OthersSent'
  BY <1>1, <1>2, <1>3 DEF RestInv, OthersSent
<1>5. OthersSpoke'
  BY <1>1 DEF RestInv, OthersSpoke
<1>6. ASSUME Proposer \in Correct, OneLength PROVE KeptInv'
  <2>1. m.len = Input.len
    BY <1>1, <1>6 DEF Arrives, OneLength, RestInv, KeptInv, LengthsEqual
  <2>2. LengthsEqual'
    BY <1>1, <1>3, <1>6, <2>1 DEF RestInv, KeptInv, LengthsEqual
  <2>3. InputKept' /\ OwnKept'
    BY <1>1, <1>6 DEF RestInv, KeptInv, InputKept, OwnKept
  <2>4. OneLooked'
    BY <1>1, <1>6 DEF RestInv, KeptInv, OneLooked, Heard, Checked, Tried, HoldsOutput
  <2>. QED
    BY <2>2, <2>3, <2>4 DEF KeptInv
<1>. QED
  BY <1>4, <1>5, <1>6 DEF RestInv

\* The node's own entries are nobody else's.
LEMMA OwnRest ==
    ASSUME DInv, RestInv, NEW i \in Correct,
           NEW echo, NEW ready,
           echo.src = i, ready.src = i,
           \A j \in Correct : j # i =>
              echoReqRepo'[j] = echoReqRepo[j] /\ readyReqRepo'[j] = readyReqRepo[j],
           echoReqRepo[i] \subseteq echoReqRepo'[i],
           echoReqRepo'[i] \subseteq echoReqRepo[i] \cup {echo},
           readyReqRepo[i] \subseteq readyReqRepo'[i],
           readyReqRepo'[i] \subseteq readyReqRepo[i] \cup {ready},
           contentLength[i] # 0,
           UNCHANGED <<contentLength, readySent, done, delivered>>,
           msgs \subseteq msgs'
    PROVE  /\ OthersSent'
           /\ OthersSpoke'
           /\ Proposer \in Correct /\ OneLength /\ ~ valReceived[i] => OneLooked'
<1>1. OthersSent'
  BY DEF RestInv, OthersSent
<1>2. OthersSpoke'
  <2>1. \A j \in Correct, r \in Roots :
           Voters(readyReqRepo'[j], r) \ {j} = Voters(readyReqRepo[j], r) \ {j}
    BY DEF Voters
  <2>. QED
    BY <2>1 DEF RestInv, OthersSpoke
<1>3. ASSUME Proposer \in Correct, OneLength, ~ valReceived[i] PROVE OneLooked'
  <2>1. \A k \in Correct \ {i} : ~ Heard(k, i)'
    BY <1>3, SilentUnheard DEF DInv, RestInv, Heard
  <2>2. \A j \in Correct \ {i} :
           /\ \A k \in Correct : Heard(j, k)' => Heard(j, k)
           /\ Checked(j) => Checked(j)'
           /\ Tried(j) => Tried(j)'
    BY DEF Heard, Checked, Tried, HoldsOutput
  <2>3. OneLooked
    BY <1>3 DEF RestInv, KeptInv
  <2>. QED
    BY <2>1, <2>2, <2>3, LookedStep
<1>. QED
  BY <1>1, <1>2, <1>3

LEMMA ValueRest ==
    ASSUME DInv, RestInv, NEW i \in Correct, NEW m, HandleValueRequest(i, m)
    PROVE  RestInv'
<1>. DEFINE echo == [src |-> i, root |-> m.root, shard |-> m.shard]
            ready == [src |-> i, root |-> m.root]
<1>1. /\ Arrives(i, m)
      /\ m.type = "val"
      /\ contentLength[i] = m.len
      /\ ~ valReceived[i]
      /\ m.shard \in Positions
      /\ echoReqRepo' = [echoReqRepo EXCEPT ![i] = @ \cup {echo}]
      /\ readyReqRepo' = [readyReqRepo EXCEPT ![i] = @ \cup {ready}]
      /\ valReceived' = [valReceived EXCEPT ![i] = TRUE]
      /\ msgs' = msgs \cup {Echo(i, m.root, m.shard, contentLength[i])}
      /\ UNCHANGED <<contentLength, readySent, done, delivered, inputPc>>
  BY DEF HandleValueRequest, Admitted, ValidateMessage, SaveOwnEcho,
         SaveOwnReady, ShareOwnEcho
<1>2. /\ echoReqRepo \in [Correct -> SUBSET EchoEntry]
      /\ readyReqRepo \in [Correct -> SUBSET ReadyEntry]
      /\ valReceived \in [Correct -> BOOLEAN]
      /\ contentLength[i] # 0
  BY <1>1, ArrivingMessage, MessageFields, PayloadAssumption DEF DInv, IInv, TypeOK
<1>3. \A j \in Correct :
         /\ echoReqRepo'[j] = IF j = i THEN echoReqRepo[j] \cup {echo} ELSE echoReqRepo[j]
         /\ readyReqRepo'[j] = IF j = i THEN readyReqRepo[j] \cup {ready}
                               ELSE readyReqRepo[j]
         /\ valReceived'[j] = IF j = i THEN TRUE ELSE valReceived[j]
  BY <1>1, <1>2
<1>4. /\ OthersSent'
      /\ OthersSpoke'
      /\ Proposer \in Correct /\ OneLength => OneLooked'
  <2>1. /\ echo.src = i /\ ready.src = i
        /\ \A j \in Correct : j # i =>
              echoReqRepo'[j] = echoReqRepo[j] /\ readyReqRepo'[j] = readyReqRepo[j]
        /\ echoReqRepo[i] \subseteq echoReqRepo'[i]
        /\ echoReqRepo'[i] \subseteq echoReqRepo[i] \cup {echo}
        /\ readyReqRepo[i] \subseteq readyReqRepo'[i]
        /\ readyReqRepo'[i] \subseteq readyReqRepo[i] \cup {ready}
    BY <1>3
  <2>2. /\ msgs \subseteq msgs'
        /\ UNCHANGED <<contentLength, readySent, done, delivered>>
    BY <1>1
  <2>. HIDE DEF echo, ready
  <2>. QED
    BY <1>1, <1>2, <2>1, <2>2, OwnRest
<1>5. ASSUME Proposer \in Correct, OneLength PROVE KeptInv'
  <2>1. /\ m \in msgs
        /\ m.root = Input.root
        /\ m.len = Input.len
        /\ i # Proposer
    <3>1. m \in msgs /\ m \notin FaultyTo[i]
      BY <1>1, <1>5, FaultyAssumption DEF Arrives, Correct
    <3>. QED
      BY <1>1, <1>5, <3>1
         DEF Arrives, DInv, IInv, InputBegun, InputSpread, RestInv, KeptInv,
             LengthsEqual
  <2>2. LengthsEqual'
    BY <1>1, <1>5, <2>1 DEF RestInv, KeptInv, LengthsEqual, Echo
  <2>3. InputKept'
    BY <1>1, <1>3, <1>5, <2>1 DEF RestInv, KeptInv, InputKept
  <2>4. OwnKept'
    <3>1. /\ Echo(i, Input.root, m.shard, Input.len) \in msgs'
          /\ [src |-> i, root |-> Input.root, shard |-> m.shard] \in echoReqRepo'[i]
          /\ [src |-> i, root |-> Input.root] \in readyReqRepo'[i]
      <4>1. Echo(i, m.root, m.shard, contentLength[i]) \in msgs'
        BY <1>1
      <4>2. contentLength[i] = Input.len
        BY <1>1, <2>1
      <4>3. echo \in echoReqRepo'[i]
        <5>1. echoReqRepo'[i] = echoReqRepo[i] \cup {echo}
          BY <1>3
        <5>. HIDE DEF echo
        <5>. QED
          BY <5>1
      <4>4. ready \in readyReqRepo'[i]
        <5>1. readyReqRepo'[i] = readyReqRepo[i] \cup {ready}
          BY <1>3
        <5>. HIDE DEF ready
        <5>. QED
          BY <5>1
      <4>. QED
        BY <2>1, <4>1, <4>2, <4>3, <4>4
    <3>2. OwnKept
      BY <1>5 DEF RestInv, KeptInv
    <3>3. /\ m.shard \in Positions
          /\ msgs \subseteq msgs'
          /\ \A j \in Correct : j # i => valReceived'[j] = valReceived[j]
          /\ UNCHANGED <<readySent, done, delivered>>
          /\ \A j \in Correct : /\ echoReqRepo[j] \subseteq echoReqRepo'[j]
                                /\ readyReqRepo[j] \subseteq readyReqRepo'[j]
      BY <1>1, <1>3
    <3>. QED
      BY <3>1, <3>2, <3>3 DEF OwnKept
  <2>. QED
    BY <1>4, <1>5, <2>2, <2>3, <2>4 DEF KeptInv
<1>. QED
  BY <1>4, <1>5 DEF RestInv

LEMMA InputRest == ASSUME DInv, RestInv, InputStep PROVE RestInv'
<1>. DEFINE P == Proposer
            echo == [src |-> P, root |-> Input.root, shard |-> InputShard]
            ready == [src |-> P, root |-> Input.root]
<1>1. /\ P \in Correct
      /\ P \in Nodes
      /\ Input.root \in Roots
      /\ Input.len \in Lengths
      /\ Input.len # 0
      /\ InputShard \in Positions
  BY InputParts, PayloadAssumption
     DEF InputStep, HandleInput, InputEcho, InputReady, InputShare,
         DistributeMessage, DInv, IInv, InputBegun
<1>2. /\ echoReqRepo \in [Correct -> SUBSET EchoEntry]
      /\ readyReqRepo \in [Correct -> SUBSET ReadyEntry]
      /\ valReceived \in [Correct -> BOOLEAN]
      /\ contentLength \in [Correct -> Lengths \cup {0}]
      /\ inputPc # "none" => contentLength[P] # 0
      /\ inputPc \in {"none", "echo", "ready", "share"} => ~ valReceived[P]
  BY <1>1 DEF DInv, IInv, TypeOK, InputBegun
<1>3. CASE HandleInput
  <2>1. /\ inputPc = "none"
        /\ inputPc' = "echo"
        /\ contentLength' = [contentLength EXCEPT ![P] = IF @ = 0 THEN Input.len ELSE @]
        /\ UNCHANGED <<echoReqRepo, readyReqRepo, valReceived, readySent, done,
                       delivered, msgs>>
    BY <1>3 DEF HandleInput
  <2>2. \A j \in Correct :
           contentLength'[j] = IF j = P /\ contentLength[P] = 0 THEN Input.len
                               ELSE contentLength[j]
    BY <1>2, <2>1
  <2>3. contentLength[P] = 0 => echoReqRepo[P] = {} /\ readyReqRepo[P] = {}
    BY <1>1 DEF DInv, IInv, LengthFirst, RestInv, OthersSent
  <2>4. OthersSent'
    BY <1>1, <2>1, <2>2, <2>3 DEF RestInv, OthersSent
  <2>5. OthersSpoke'
    BY <2>1 DEF RestInv, OthersSpoke
  <2>6. ASSUME OneLength PROVE KeptInv'
    <3>1. LengthsEqual'
      BY <1>1, <2>1, <2>2, <2>6 DEF RestInv, KeptInv, LengthsEqual
    <3>2. InputKept' /\ OwnKept'
      BY <1>1, <2>1, <2>6 DEF RestInv, KeptInv, InputKept, OwnKept
    <3>3. OneLooked'
      BY <1>1, <2>1, <2>6
         DEF RestInv, KeptInv, OneLooked, Heard, Checked, Tried, HoldsOutput
    <3>. QED
      BY <3>1, <3>2, <3>3 DEF KeptInv
  <2>. QED
    BY <2>4, <2>5, <2>6 DEF RestInv
<1>4. CASE InputEcho \/ InputReady
  <2>1. /\ inputPc \in {"echo", "ready"}
        /\ inputPc = "echo" =>
              /\ inputPc' = "ready"
              /\ echoReqRepo' = [echoReqRepo EXCEPT ![P] = @ \cup {echo}]
              /\ readyReqRepo' = readyReqRepo
        /\ inputPc = "ready" =>
              /\ inputPc' = "share"
              /\ readyReqRepo' = [readyReqRepo EXCEPT ![P] = @ \cup {ready}]
              /\ echoReqRepo' = echoReqRepo
        /\ UNCHANGED <<contentLength, valReceived, readySent, done, delivered, msgs>>
    BY <1>4 DEF InputEcho, InputReady, SaveOwnEcho, SaveOwnReady
  <2>2. /\ \A j \in Correct : j # P =>
              echoReqRepo'[j] = echoReqRepo[j] /\ readyReqRepo'[j] = readyReqRepo[j]
        /\ echoReqRepo[P] \subseteq echoReqRepo'[P]
        /\ echoReqRepo'[P] \subseteq echoReqRepo[P] \cup {echo}
        /\ readyReqRepo[P] \subseteq readyReqRepo'[P]
        /\ readyReqRepo'[P] \subseteq readyReqRepo[P] \cup {ready}
        /\ inputPc = "echo" => echo \in echoReqRepo'[P]
        /\ inputPc = "ready" => ready \in readyReqRepo'[P]
    BY <1>1, <1>2, <2>1
  <2>3. contentLength[P] # 0 /\ ~ valReceived[P]
    BY <1>2, <2>1
  <2>4. /\ OthersSent'
        /\ OthersSpoke'
        /\ OneLength => OneLooked'
    BY <1>1, <2>1, <2>2, <2>3, OwnRest
  <2>5. ASSUME OneLength PROVE KeptInv'
    <3>1. LengthsEqual'
      BY <1>1, <2>1, <2>5 DEF RestInv, KeptInv, LengthsEqual
    <3>2. InputKept'
      BY <1>1, <2>1, <2>2, <2>5 DEF RestInv, KeptInv, InputKept
    <3>3. OwnKept'
      BY <1>1, <2>1, <2>2, <2>3, <2>5 DEF RestInv, KeptInv, OwnKept
    <3>. QED
      BY <2>4, <2>5, <3>1, <3>2, <3>3 DEF KeptInv
  <2>. QED
    BY <2>4, <2>5 DEF RestInv
<1>5. CASE InputShare
  <2>1. /\ inputPc = "share"
        /\ inputPc' = "distribute"
        /\ valReceived' = [valReceived EXCEPT ![P] = TRUE]
        /\ msgs' = msgs \cup {Echo(P, Input.root, InputShard, contentLength[P])}
        /\ UNCHANGED <<contentLength, echoReqRepo, readyReqRepo, readySent, done,
                       delivered>>
    BY <1>5 DEF InputShare, ShareOwnEcho
  <2>2. OthersSent' /\ OthersSpoke'
    BY <2>1 DEF RestInv, OthersSent, OthersSpoke
  <2>3. ASSUME OneLength PROVE KeptInv'
    <3>1. contentLength[P] = Input.len
      BY <1>1, <1>2, <2>1, <2>3 DEF RestInv, KeptInv, LengthsEqual
    <3>2. LengthsEqual'
      BY <1>1, <2>1, <2>3, <3>1 DEF RestInv, KeptInv, LengthsEqual, Echo
    <3>3. \A j \in Correct : valReceived'[j] = IF j = P THEN TRUE ELSE valReceived[j]
      BY <1>2, <2>1
    <3>4. InputKept'
      BY <1>1, <2>1, <2>3, <3>3 DEF RestInv, KeptInv, InputKept
    <3>5. OwnKept'
      <4>1. echo \in echoReqRepo[P] /\ ready \in readyReqRepo[P]
        BY <1>1, <2>1, <2>3 DEF RestInv, KeptInv, InputKept
      <4>. QED
        BY <1>1, <2>1, <2>3, <3>1, <3>3, <4>1 DEF RestInv, KeptInv, OwnKept
    <3>6. OneLooked'
      BY <1>1, <2>1, <2>3
         DEF RestInv, KeptInv, OneLooked, Heard, Checked, Tried, HoldsOutput
    <3>. QED
      BY <3>2, <3>4, <3>5, <3>6 DEF KeptInv
  <2>. QED
    BY <2>2, <2>3 DEF RestInv
<1>6. CASE DistributeMessage
  <2>1. PICK order \in ConnOrders :
           msgs' = msgs \cup Distribution(Input.root, contentLength[P], order)
    BY <1>6 DEF DistributeMessage
  <2>2. /\ inputPc = "distribute"
        /\ inputPc' = "done"
        /\ UNCHANGED <<contentLength, echoReqRepo, readyReqRepo, valReceived,
                       readySent, done, delivered>>
    BY <1>6 DEF DistributeMessage
  <2>3. OthersSent' /\ OthersSpoke'
    BY <2>1, <2>2 DEF RestInv, OthersSent, OthersSpoke
  <2>4. ASSUME OneLength PROVE KeptInv'
    <3>1. contentLength[P] = Input.len
      BY <1>1, <1>2, <2>2, <2>4 DEF RestInv, KeptInv, LengthsEqual
    <3>2. LengthsEqual'
      BY <1>1, <2>1, <2>2, <2>4, <3>1 DEF RestInv, KeptInv, LengthsEqual, Distribution
    <3>3. ASSUME NEW j \in Nodes \ {P}
          PROVE  \E m \in msgs' : /\ m.type = "val" /\ m.src = P
                                  /\ m.dst = j /\ m.shard \in Positions
      <4>. DEFINE m == [type |-> "val", src |-> P, dst |-> j, root |-> Input.root,
                        shard |-> Leaf[Input.root][order[j]], len |-> contentLength[P]]
      <4>1. /\ j \in DOMAIN order
            /\ Leaf[Input.root][order[j]] \in Positions
        BY <1>1, <3>3, PayloadAssumption
      <4>2. m \in msgs'
        BY <2>1, <4>1 DEF Distribution
      <4>. QED
        BY <4>1, <4>2
    <3>4. InputKept'
      BY <1>1, <2>2, <2>4, <3>3 DEF RestInv, KeptInv, InputKept
    <3>5. OwnKept'
      BY <1>1, <2>1, <2>2, <2>4 DEF RestInv, KeptInv, OwnKept
    <3>6. OneLooked'
      BY <1>1, <2>2, <2>4
         DEF RestInv, KeptInv, OneLooked, Heard, Checked, Tried, HoldsOutput
    <3>. QED
      BY <3>2, <3>4, <3>5, <3>6 DEF KeptInv
  <2>. QED
    BY <2>3, <2>4 DEF RestInv
<1>. QED
  BY <1>3, <1>4, <1>5, <1>6 DEF InputStep

\* The length and the flags after a vote of another node.
LEMMA VoteRest ==
    ASSUME DInv, DInv', RestInv, NEW i \in Correct, NEW m, Admitted(i, m),
           NEW enough \in BOOLEAN, NEW echos, NEW readys,
           ShareReadyIf(enough, i, m.root),
           TryOutput(i, m.root, echos, readys),
           UNCHANGED <<contentLength, valReceived, inputPc>>,
           \A j \in Correct : /\ echoReqRepo[j] \subseteq echoReqRepo'[j]
                              /\ readyReqRepo[j] \subseteq readyReqRepo'[j],
           Proposer \in Correct, OneLength
    PROVE  LengthsEqual' /\ InputKept' /\ OwnKept'
<1>. DEFINE vote == Ready(i, m.root, contentLength[i])
<1>1. /\ msgs \subseteq msgs'
      /\ \A x \in msgs' : x \in msgs \/ x = vote
      /\ \A j \in Correct : readySent'[j] => readySent[j] \/ (j = i /\ vote \in msgs')
  BY ShareReadyFacts DEF DInv, IInv
<1>2. contentLength[i] = Input.len
  BY DEF Admitted, Arrives, OneLength, RestInv, KeptInv, LengthsEqual
<1>3. LengthsEqual'
  BY <1>1, <1>2 DEF RestInv, KeptInv, LengthsEqual, Ready
<1>4. InputKept'
  BY <1>1 DEF RestInv, KeptInv, InputKept
<1>5. vote \in msgs' => vote = Ready(i, Input.root, Input.len)
  <2>1. vote \in msgs' => vote.root = Input.root
    BY DEF DInv, InputSpread
  <2>. QED
    BY <1>2, <2>1 DEF Ready
<1>6. \A j \in Correct : done'[j] => delivered'[j] # {}
  <2>1. \A j \in Correct : /\ delivered[j] \subseteq delivered'[j]
                           /\ done'[j] => done[j] \/ delivered'[j] # {}
    BY TryOutputFacts DEF DInv, IInv
  <2>. QED
    BY <2>1 DEF RestInv, KeptInv, OwnKept
<1>7. OwnKept'
  BY <1>1, <1>5, <1>6 DEF RestInv, KeptInv, OwnKept
<1>. QED
  BY <1>3, <1>4, <1>7

LEMMA EchoRest ==
    ASSUME DInv, DInv', RestInv, NEW i \in Correct, NEW m, HandleEchoRequest(i, m)
    PROVE  RestInv'
<1>. DEFINE entry == [src |-> m.src, root |-> m.root, shard |-> m.shard]
            echos == echoReqRepo[i] \cup {entry}
            enough == Count(echos, m.root) >= EchoThreshold
<1>1. /\ Arrives(i, m)
      /\ Admitted(i, m)
      /\ m.type = "echo"
      /\ contentLength[i] = m.len
      /\ echoReqRepo' = [echoReqRepo EXCEPT ![i] = echos]
      /\ ShareReadyIf(enough, i, m.root)
      /\ TryOutput(i, m.root, echos, readyReqRepo[i])
      /\ UNCHANGED <<contentLength, readyReqRepo, valReceived, inputPc>>
  BY DEF HandleEchoRequest, Admitted
<1>2. /\ m.src \in Correct => m \in msgs
      /\ m = Echo(m.src, m.root, m.shard, m.len)
  <2>1. m \in Message /\ (m.src \in Correct => m \in msgs)
    BY <1>1, ArrivingMessage DEF DInv, IInv
  <2>. QED
    BY <1>1, <2>1 DEF Message, ValMsg, EchoMsg, ReadyMsg, Echo
<1>3. /\ TypeOK
      /\ enough \in BOOLEAN
      /\ \A j \in Correct : echoReqRepo'[j] = IF j = i THEN echos ELSE echoReqRepo[j]
  BY <1>1 DEF DInv, IInv, TypeOK
<1>. HIDE DEF enough
<1>4. /\ msgs \subseteq msgs'
      /\ \A j \in Correct : readySent[j] => readySent'[j]
      /\ enough => readySent'[i]
  BY <1>1, <1>3, ShareReadyFacts
<1>5. /\ \A j \in Correct : done[j] => done'[j]
      /\ (/\ Count(readyReqRepo[i], m.root) >= OutputThreshold
          /\ Count(echos, m.root) >= EchoThreshold
          /\ Decodable(echos, m.root)) => done'[i]
  BY <1>1, <1>3, TryOutputFacts
<1>6. OthersSent'
  <2>1. \A j \in Correct : \A e \in echoReqRepo'[j] :
           e \in echoReqRepo[j] \/ (j = i /\ e = entry)
    BY <1>3
  <2>. QED
    BY <1>1, <1>2, <1>4, <2>1 DEF RestInv, OthersSent
<1>7. OthersSpoke'
  BY <1>1, <1>4 DEF RestInv, OthersSpoke
<1>8. ASSUME Proposer \in Correct, OneLength PROVE KeptInv'
  <2>1. LengthsEqual' /\ InputKept' /\ OwnKept'
    BY <1>1, <1>3, <1>8, VoteRest
  <2>2. OneLooked
    BY <1>8 DEF RestInv, KeptInv
  <2>3. \A j \in Correct \ {i} :
           /\ \A k \in Correct : Heard(j, k)' => Heard(j, k)
           /\ Checked(j) => Checked(j)'
           /\ Tried(j) => Tried(j)'
    BY <1>1, <1>3, <1>4, <1>5 DEF Heard, Checked, Tried, HoldsOutput
  <2>4. CASE m.root = Input.root
    <3>1. Checked(i)' /\ Tried(i)'
      BY <1>1, <1>3, <1>4, <1>5, <2>4 DEF Checked, Tried, HoldsOutput, enough
    <3>. QED
      BY <2>1, <2>2, <2>3, <3>1, LookedStep DEF KeptInv
  <2>5. CASE m.root # Input.root
    <3>1. /\ Voters(echoReqRepo'[i], Input.root) = Voters(echoReqRepo[i], Input.root)
          /\ ShardsOf(echoReqRepo'[i], Input.root) = ShardsOf(echoReqRepo[i], Input.root)
      BY <1>3, <2>5, OtherRoot
    <3>2. /\ \A k \in Correct : Heard(i, k)' => Heard(i, k)
          /\ Checked(i) => Checked(i)'
          /\ Tried(i) => Tried(i)'
      BY <1>1, <1>4, <1>5, <3>1
         DEF Heard, Checked, Tried, HoldsOutput, Count, Decodable
    <3>. QED
      BY <2>1, <2>2, <2>3, <3>2, LookedStep DEF KeptInv
  <2>. QED
    BY <2>4, <2>5
<1>. QED
  BY <1>6, <1>7, <1>8 DEF RestInv

LEMMA ReadyRest ==
    ASSUME DInv, DInv', RestInv, NEW i \in Correct, NEW m, HandleReadyRequest(i, m)
    PROVE  RestInv'
<1>. DEFINE entry == [src |-> m.src, root |-> m.root]
            readys == readyReqRepo[i] \cup {entry}
            enough == Count(readys, m.root) >= ReadyThreshold
<1>1. /\ Arrives(i, m)
      /\ Admitted(i, m)
      /\ m.type = "ready"
      /\ contentLength[i] = m.len
      /\ readyReqRepo' = [readyReqRepo EXCEPT ![i] = readys]
      /\ ShareReadyIf(enough, i, m.root)
      /\ TryOutput(i, m.root, echoReqRepo[i], readys)
      /\ UNCHANGED <<contentLength, echoReqRepo, valReceived, inputPc>>
  BY DEF HandleReadyRequest, Admitted
<1>2. /\ m.src \in Correct => m \in msgs
      /\ m.src \in Nodes
      /\ m = Ready(m.src, m.root, m.len)
      /\ m.len # 0
  <2>1. /\ m \in Message /\ (m.src \in Correct => m \in msgs)
        /\ m.src \in Nodes /\ m.len \in Lengths
    BY <1>1, ArrivingMessage, MessageFields DEF DInv, IInv
  <2>. QED
    BY <1>1, <2>1, PayloadAssumption DEF Message, ValMsg, EchoMsg, ReadyMsg, Ready
<1>3. /\ TypeOK
      /\ enough \in BOOLEAN
      /\ \A j \in Correct : readyReqRepo'[j] = IF j = i THEN readys ELSE readyReqRepo[j]
  BY <1>1 DEF DInv, IInv, TypeOK
<1>. HIDE DEF enough
<1>4. /\ msgs \subseteq msgs'
      /\ \A j \in Correct : readySent[j] => readySent'[j]
      /\ enough => readySent'[i]
  BY <1>1, <1>3, ShareReadyFacts
<1>5. /\ \A j \in Correct : done[j] => done'[j]
      /\ (/\ Count(readys, m.root) >= OutputThreshold
          /\ Count(echoReqRepo[i], m.root) >= EchoThreshold
          /\ Decodable(echoReqRepo[i], m.root)) => done'[i]
  BY <1>1, <1>3, TryOutputFacts
<1>6. OthersSent'
  <2>1. \A j \in Correct : \A e \in readyReqRepo'[j] :
           e \in readyReqRepo[j] \/ (j = i /\ e = entry)
    BY <1>3
  <2>. QED
    BY <1>1, <1>2, <1>3, <1>4, <2>1 DEF RestInv, OthersSent
<1>7. OthersSpoke'
  <2>. SUFFICES ASSUME NEW j \in Correct, NEW r \in Roots,
                       Cardinality(Voters(readyReqRepo'[j], r) \ {j}) >= ReadyThreshold
                PROVE  readySent'[j]
    BY DEF OthersSpoke
  <2>1. CASE j = i /\ r = m.root
    <3>1. /\ Voters(readys, m.root) \subseteq Nodes
          /\ IsFiniteSet(Voters(readys, m.root))
      <4>1. \A e \in readys : e.src \in Nodes
        BY <1>2, <1>3 DEF TypeOK, ReadyEntry
      <4>2. Voters(readys, m.root) \subseteq Nodes
        BY <4>1 DEF Voters
      <4>. QED
        BY <4>2, NodesFinite, FS_Subset
    <3>2. /\ Cardinality(Voters(readys, m.root) \ {i})
               <= Cardinality(Voters(readys, m.root))
          /\ Cardinality(Voters(readys, m.root) \ {i}) \in Nat
          /\ Cardinality(Voters(readys, m.root)) \in Nat
      <4>1. Voters(readys, m.root) \ {i} \subseteq Voters(readys, m.root)
        OBVIOUS
      <4>. QED
        BY <3>1, <4>1, FS_Subset, FS_CardinalityType
    <3>3. readyReqRepo'[i] = readys
      BY <1>3
    <3>. HIDE DEF readys
    <3>4. enough
      BY <2>1, <3>2, <3>3, NodesAssumption DEF enough, Count, ReadyThreshold
    <3>. QED
      BY <1>4, <2>1, <3>4
  <2>2. CASE ~ (j = i /\ r = m.root)
    <3>1. Voters(readyReqRepo'[j], r) = Voters(readyReqRepo[j], r)
      <4>1. CASE j # i
        BY <1>3, <4>1
      <4>2. CASE j = i /\ entry.root # r
        <5>. HIDE DEF entry
        <5>. QED
          BY <1>3, <4>2, OtherRoot
      <4>. QED
        BY <2>2, <4>1, <4>2
    <3>. QED
      BY <1>4, <3>1 DEF RestInv, OthersSpoke
  <2>. QED
    BY <2>1, <2>2
<1>8. ASSUME Proposer \in Correct, OneLength PROVE KeptInv'
  <2>1. LengthsEqual' /\ InputKept' /\ OwnKept'
    BY <1>1, <1>3, <1>8, VoteRest
  <2>2. OneLooked
    BY <1>8 DEF RestInv, KeptInv
  <2>3. \A j \in Correct : /\ \A k \in Correct : Heard(j, k)' => Heard(j, k)
                           /\ Checked(j) => Checked(j)'
    BY <1>1, <1>4 DEF Heard, Checked
  <2>4. \A j \in Correct \ {i} : Tried(j) => Tried(j)'
    BY <1>1, <1>3, <1>5 DEF Tried, HoldsOutput
  <2>5. Tried(i) => Tried(i)'
    <3>1. CASE m.root = Input.root
      BY <1>1, <1>3, <1>5, <3>1 DEF Tried, HoldsOutput
    <3>2. CASE m.root # Input.root
      <4>1. Voters(readyReqRepo'[i], Input.root) = Voters(readyReqRepo[i], Input.root)
        <5>1. entry.root # Input.root
          BY <3>2
        <5>. HIDE DEF entry
        <5>. QED
          BY <1>3, <5>1, OtherRoot
      <4>. QED
        BY <1>1, <1>5, <4>1 DEF Tried, HoldsOutput, Count
    <3>. QED
      BY <3>1, <3>2
  <2>. QED
    BY <2>1, <2>2, <2>3, <2>4, <2>5, LookedStep DEF KeptInv
<1>. QED
  BY <1>6, <1>7, <1>8 DEF RestInv

LEMMA RestInvariance == Spec => []RestInv
<1>1. DInv /\ DInv' /\ RestInv /\ [Next]_vars => RestInv'
  <2>. SUFFICES ASSUME DInv, DInv', RestInv, [Next]_vars PROVE RestInv'
    OBVIOUS
  <2>1. CASE InputStep
    BY <2>1, InputRest
  <2>2. ASSUME NEW i \in Correct, NEW m \in msgs \cup FaultyTo[i], Receive(i, m)
        PROVE  RestInv'
    BY <2>2, LengthRest, ValueRest, EchoRest, ReadyRest DEF Receive
  <2>3. CASE UNCHANGED vars
    BY <2>3 DEF vars, RestInv, OthersSent, OthersSpoke, KeptInv, LengthsEqual,
                InputKept, OwnKept, OneLooked, Heard, Checked, Tried, HoldsOutput
  <2>. QED
    BY <2>1, <2>2, <2>3 DEF Next
<1>. QED
  BY <1>1, InitRest, DeliveryInvariance, PTL DEF Spec

-----------------------------------------------------------------------------
(* What holds at rest.                                                     *)

LEMMA RestReady == IInv /\ OthersSent /\ OthersSpoke => ReadyAtRest
<1>. SUFFICES ASSUME IInv, OthersSent, OthersSpoke,
                     NEW i \in Correct, NEW r \in Roots,
                     AtRest(i),
                     Cardinality({j \in Correct : Ready(j, r, contentLength[i]) \in msgs})
                         >= F + 1,
                     ~ readySent[i]
              PROVE  FALSE
  BY DEF ReadyAtRest
<1>. DEFINE S == {j \in Correct : Ready(j, r, contentLength[i]) \in msgs}
            T == Voters(readyReqRepo[i], r) \ {i}
<1>1. i \notin S
  BY DEF IInv, VotesMarked, Ready
<1>2. S \subseteq T
  <2>. SUFFICES ASSUME NEW j \in S PROVE j \in T
    OBVIOUS
  <2>. DEFINE m == Ready(j, r, contentLength[i])
  <2>1. /\ m \in msgs /\ j # i /\ j \in Correct
        /\ m.type = "ready" /\ m.src = j /\ m.root = r /\ m.len = contentLength[i]
    BY <1>1 DEF Ready
  <2>2. Find(readyReqRepo[i], j)
    <3>. HIDE DEF m
    <3>. QED
      BY <2>1 DEF AtRest, Arrives
  <2>3. PICK e \in readyReqRepo[i] : e.src = j
    BY <2>2 DEF Find
  <2>4. Ready(j, e.root, contentLength[i]) \in msgs
    BY <2>1, <2>3 DEF OthersSent
  <2>5. e.root = r
    <3>1. Ready(j, e.root, contentLength[i]) = m
      BY <2>1, <2>4 DEF IInv, SingleVote, Ready
    <3>. QED
      BY <3>1 DEF Ready
  <2>. QED
    BY <2>1, <2>3, <2>5 DEF Voters
<1>3. IsFiniteSet(T)
  <2>1. T \subseteq Nodes
    BY DEF Voters, IInv, TypeOK, ReadyEntry
  <2>. QED
    BY <2>1, NodesFinite, FS_Subset
<1>4. Cardinality(S) <= Cardinality(T) /\ Cardinality(S) \in Nat /\ Cardinality(T) \in Nat
  <2>. HIDE DEF S, T
  <2>. QED
    BY <1>2, <1>3, FS_Subset, FS_CardinalityType
<1>5. Cardinality(T) >= ReadyThreshold
  BY <1>4, NodesAssumption DEF ReadyThreshold
<1>. QED
  BY <1>5 DEF OthersSpoke

\* If F+1 correct nodes have shared a READY under a node's length, the node is not
\* at rest without one of its own (rbc.go: handleReadyRequest, where an own READY
\* that handleValueRequest has saved may make the count jump over F+1).
THEOREM ReadysAtRest == Spec => []ReadyAtRest
<1>1. IInv /\ RestInv => ReadyAtRest
  BY RestReady DEF RestInv
<1>. QED
  BY <1>1, Invariance, RestInvariance, PTL

\* The correct nodes are N-F at least, of whom one more than F are left when one
\* is put aside, unless there is no other.
LEMMA CorrectSize ==
    /\ IsFiniteSet(Correct)
    /\ Cardinality(Correct) \in Nat
    /\ Cardinality(Correct) >= N - F
    /\ \A i, j \in Correct : i # j => Cardinality(Correct \ {i}) >= F + 1
<1>1. IsFiniteSet(Correct) /\ Cardinality(Correct) \in Nat
  BY NodesFinite, FS_Difference, FS_CardinalityType DEF Correct
<1>2. Cardinality(Correct) >= N - F
  <2>1. Nodes \cap Faulty = Faulty
    BY NodesAssumption
  <2>2. Cardinality(Correct) = N - Cardinality(Faulty)
    BY <2>1, NodesFinite, FS_Difference DEF Correct, N
  <2>. QED
    BY <2>2, NodesFinite, NodesAssumption
<1>3. ASSUME NEW i \in Correct, NEW j \in Correct, i # j
      PROVE  Cardinality(Correct \ {i}) >= F + 1
  <2>1. /\ IsFiniteSet(Correct \ {i})
        /\ Cardinality(Correct \ {i}) = Cardinality(Correct) - 1
        /\ Cardinality(Correct \ {i}) \in Nat
    BY <1>1, FS_RemoveElement, FS_CardinalityType
  <2>2. Cardinality(Correct \ {i}) # 0
    BY <1>3, <2>1, FS_EmptySet
  <2>3. ASSUME NEW c \in Nat, NEW n \in Nat, NEW f \in Nat,
               c >= n - f, n > 3 * f, c - 1 \in Nat, c - 1 # 0
        PROVE  c - 1 >= f + 1
    BY <2>3
  <2>. QED
    BY <1>1, <1>2, <2>1, <2>2, <2>3, NodesFinite, NodesAssumption
<1>. QED
  BY <1>1, <1>2, <1>3

\* At rest every node has saved the ECHO of every correct node.
LEMMA RestHeard ==
    ASSUME DInv, RestInv, Proposer \in Correct, OneLength,
           InputAtRest, \A i \in Correct : AtRest(i)
    PROVE  /\ \A i \in Correct : valReceived[i]
           /\ \A i, j \in Correct : Heard(i, j)
           /\ \A i, j \in Correct : i # j => contentLength[i] = Input.len
<1>1. InputKept /\ OwnKept /\ LengthsEqual
  BY DEF RestInv, KeptInv
<1>2. inputPc = "done" /\ valReceived[Proposer]
  <2>1. inputPc = "none" => ~ valReceived[Proposer]
    BY DEF DInv, IInv, InputBegun
  <2>. QED
    BY <1>1, <2>1 DEF InputAtRest, InputKept, Correct
<1>3. ASSUME NEW i \in Correct, NEW m \in msgs, Arrives(i, m)
      PROVE  contentLength[i] = Input.len /\ m.len = Input.len
  BY <1>1, <1>3 DEF AtRest, LengthsEqual
<1>4. ASSUME NEW i \in Correct, i # Proposer PROVE valReceived[i]
  <2>1. PICK m \in msgs : /\ m.type = "val" /\ m.src = Proposer
                          /\ m.dst = i /\ m.shard \in Positions
    BY <1>1, <1>2, <1>4 DEF InputKept, Correct
  <2>2. Arrives(i, m)
    BY <1>4, <2>1 DEF Arrives
  <2>. QED
    BY <1>3, <2>1, <2>2 DEF AtRest, ValidateMessage
<1>5. \A i \in Correct : valReceived[i]
  BY <1>2, <1>4
<1>6. ASSUME NEW i \in Correct, NEW j \in Correct, i # j
      PROVE  Heard(i, j) /\ contentLength[i] = Input.len
  <2>1. PICK s \in Positions : Echo(j, Input.root, s, Input.len) \in msgs
    BY <1>1, <1>5 DEF OwnKept
  <2>. DEFINE m == Echo(j, Input.root, s, Input.len)
  <2>2. m \in msgs /\ m.type = "echo" /\ m.src = j /\ m.shard \in Positions
    BY <2>1 DEF Echo
  <2>. HIDE DEF m
  <2>3. Arrives(i, m)
    BY <1>6, <2>2 DEF Arrives
  <2>4. Find(echoReqRepo[i], j)
    BY <1>3, <2>2, <2>3 DEF AtRest, ValidateMessage
  <2>. QED
    BY <1>3, <2>2, <2>3, <2>4 DEF Find, Heard, Voters, DInv, InputSpread
<1>7. ASSUME NEW i \in Correct PROVE Heard(i, i)
  <2>1. PICK s \in Positions :
           [src |-> i, root |-> Input.root, shard |-> s] \in echoReqRepo[i]
    BY <1>1, <1>5 DEF OwnKept
  <2>. DEFINE e == [src |-> i, root |-> Input.root, shard |-> s]
  <2>2. e \in echoReqRepo[i] /\ e.src = i /\ e.root = Input.root
    BY <2>1
  <2>. HIDE DEF e
  <2>. QED
    BY <2>2 DEF Heard, Voters
<1>. QED
  BY <1>5, <1>6, <1>7

\* The ECHOs of the correct nodes, each with a shard of its own, are enough to
\* decode.
LEMMA RestDecodable ==
    ASSUME DInv, RestInv, ShardsApart, Proposer \in Correct, OneLength,
           NEW i \in Correct, \A j \in Correct : Heard(i, j)
    PROVE  Decodable(echoReqRepo[i], Input.root)
<1>. DEFINE Own(j) == CHOOSE e \in echoReqRepo[i] : e.src = j /\ e.root = Input.root
            T == ShardsOf(echoReqRepo[i], Input.root)
            f == [j \in Correct |-> Own(j).shard]
<1>1. \A j \in Correct : /\ Own(j) \in echoReqRepo[i]
                         /\ Own(j).src = j
                         /\ Own(j).root = Input.root
  BY DEF Heard, Voters
<1>2. IsFiniteSet(T) /\ Cardinality(T) \in Nat
  <2>1. T \subseteq 0 .. N
    <3>1. T \subseteq Positions
      BY DEF ShardsOf, DInv, IInv, TypeOK, EchoEntry
    <3>. HIDE DEF T
    <3>. QED
      BY <3>1, NodesFinite DEF Positions
  <2>2. IsFiniteSet(0 .. N)
    BY NodesFinite, FS_Interval
  <2>. HIDE DEF T
  <2>. QED
    BY <2>1, <2>2, FS_Subset, FS_CardinalityType
<1>3. \A j \in Correct : \E len :
         Echo(j, Input.root, Own(j).shard, len) \in msgs \cup Pending
  <2>. HIDE DEF Own
  <2>. QED
    BY <1>1 DEF DInv, IInv, EntriesSent
<1>4. \A j \in Correct :
         IF j = Proposer THEN Own(j).shard = InputShard
         ELSE \E v \in msgs : v.type = "val" /\ v.dst = j /\ v.shard = Own(j).shard
  <2>. HIDE DEF Own
  <2>. SUFFICES ASSUME NEW j \in Correct
                PROVE  IF j = Proposer THEN Own(j).shard = InputShard
                       ELSE \E v \in msgs :
                               v.type = "val" /\ v.dst = j /\ v.shard = Own(j).shard
    OBVIOUS
  <2>1. PICK len : Echo(j, Input.root, Own(j).shard, len) \in msgs \cup Pending
    BY <1>3
  <2>2. CASE Echo(j, Input.root, Own(j).shard, len) \in msgs
    <3>. DEFINE m == Echo(j, Input.root, Own(j).shard, len)
    <3>1. m.type = "echo" /\ m.src = j /\ m.shard = Own(j).shard
      BY DEF Echo
    <3>. QED
      BY <2>2, <3>1 DEF ShardsApart
  <2>3. CASE Echo(j, Input.root, Own(j).shard, len) \in Pending
    BY <2>3 DEF Pending, Echo
  <2>. QED
    BY <2>1, <2>2, <2>3
<1>5. ASSUME NEW j \in Correct, NEW k \in Correct, f[j] = f[k] PROVE j = k
  <2>1. Own(j).shard = Own(k).shard
    BY <1>5
  <2>. HIDE DEF Own, f
  <2>. QED
    BY <1>4, <2>1 DEF ShardsApart
<1>6. f \in Injection(Correct, T)
  <2>1. \A j \in Correct : Own(j).shard \in T
    <3>. HIDE DEF Own
    <3>. QED
      BY <1>1 DEF ShardsOf
  <2>2. f \in [Correct -> T]
    BY <2>1
  <2>. HIDE DEF f, T
  <2>. QED
    BY <1>5, <2>2 DEF Injection, IsInjective
<1>7. Cardinality(Correct) <= Cardinality(T)
  <2>. HIDE DEF f, T
  <2>. QED
    BY <1>2, <1>6, FS_Injection
<1>. HIDE DEF T
<1>8. Cardinality(T) >= NumDataShards
  BY <1>2, <1>7, CorrectSize, NodesFinite, NodesAssumption DEF NumDataShards
<1>. QED
  BY <1>8 DEF Decodable, T

\* At rest every node has saved the READY of every correct node.
LEMMA RestReadied ==
    ASSUME DInv, RestInv, Proposer \in Correct, OneLength,
           InputAtRest, \A i \in Correct : AtRest(i),
           \A i \in Correct : Count(echoReqRepo[i], Input.root) >= EchoThreshold
    PROVE  \A i, j \in Correct : j \in Voters(readyReqRepo[i], Input.root)
<1>1. /\ \A i \in Correct : valReceived[i]
      /\ \A i, j \in Correct : Heard(i, j)
      /\ \A i, j \in Correct : i # j => contentLength[i] = Input.len
  BY RestHeard
<1>2. /\ OwnKept
      /\ \A i, j \in Correct : i # j => readySent[i] \/ readySent[j]
  BY <1>1 DEF RestInv, KeptInv, OneLooked, Checked
<1>3. ASSUME NEW i \in Correct, NEW j \in Correct, i # j PROVE readySent[i]
  <2>. SUFFICES ASSUME ~ readySent[i] PROVE FALSE
    OBVIOUS
  <2>1. \A k \in Correct \ {i} : Ready(k, Input.root, Input.len) \in msgs
    BY <1>2 DEF OwnKept
  <2>. DEFINE S == {k \in Correct : Ready(k, Input.root, Input.len) \in msgs}
  <2>2. Correct \ {i} \subseteq S /\ S \subseteq Correct
    BY <2>1
  <2>3. Cardinality(S) >= F + 1
    <3>. HIDE DEF S
    <3>1. Cardinality(Correct \ {i}) >= F + 1
      BY <1>3, CorrectSize
    <3>2. /\ Cardinality(Correct \ {i}) <= Cardinality(S)
          /\ Cardinality(Correct \ {i}) \in Nat
          /\ Cardinality(S) \in Nat
      BY <2>2, CorrectSize, FS_Subset, FS_CardinalityType
    <3>. QED
      BY <3>1, <3>2, NodesAssumption
  <2>4. Input.root \in Roots /\ Input.len \in Lengths
    BY InputParts
  <2>5. ReadyAtRest
    BY RestReady DEF DInv, RestInv
  <2>. QED
    BY <1>1, <1>3, <2>3, <2>4, <2>5 DEF ReadyAtRest
<1>4. ASSUME NEW i \in Correct, NEW j \in Correct, i # j
      PROVE  j \in Voters(readyReqRepo[i], Input.root)
  <2>. DEFINE m == Ready(j, Input.root, Input.len)
  <2>1. /\ m \in msgs
        /\ m.type = "ready" /\ m.src = j /\ m.len = Input.len
    BY <1>2, <1>3, <1>4 DEF OwnKept, Ready
  <2>. HIDE DEF m
  <2>2. Find(readyReqRepo[i], j)
    BY <1>1, <1>4, <2>1 DEF AtRest, Arrives
  <2>. QED
    BY <1>4, <2>2 DEF Find, Voters, DInv, InputSpread
<1>5. ASSUME NEW i \in Correct PROVE i \in Voters(readyReqRepo[i], Input.root)
  <2>. DEFINE e == [src |-> i, root |-> Input.root]
  <2>1. e \in readyReqRepo[i] /\ e.src = i /\ e.root = Input.root
    BY <1>1, <1>2 DEF OwnKept
  <2>. HIDE DEF e
  <2>. QED
    BY <2>1 DEF Voters
<1>. QED
  BY <1>4, <1>5

LEMMA RestDelivered ==
    ASSUME DInv, RestInv, ShardsApart, OneLength
    PROVE  ValidityAtRest
<1>. SUFFICES ASSUME Proposer \in Correct, InputAtRest,
                     \A i \in Correct : AtRest(i)
              PROVE  /\ \A i \in Correct : HoldsOutput(i)
                     /\ \A i, j \in Correct :
                           InputDelivered(i) \/ InputDelivered(j) \/ i = j
  BY DEF ValidityAtRest
<1>1. ASSUME NEW repo, \A e \in repo : e.src \in Nodes,
             \A j \in Correct : j \in Voters(repo, Input.root)
      PROVE  Count(repo, Input.root) >= N - F
  <2>1. Voters(repo, Input.root) \subseteq Nodes
    BY <1>1 DEF Voters
  <2>2. /\ Correct \subseteq Voters(repo, Input.root)
        /\ IsFiniteSet(Voters(repo, Input.root))
    BY <1>1, <2>1, NodesFinite, FS_Subset
  <2>3. /\ Cardinality(Correct) <= Count(repo, Input.root)
        /\ Count(repo, Input.root) \in Nat
    BY <2>2, FS_Subset, FS_CardinalityType DEF Count
  <2>. QED
    BY <2>3, CorrectSize, NodesFinite, NodesAssumption
<1>2. \A i \in Correct : /\ \A e \in echoReqRepo[i] : e.src \in Nodes
                         /\ \A e \in readyReqRepo[i] : e.src \in Nodes
  BY DEF DInv, IInv, TypeOK, EchoEntry, ReadyEntry
<1>3. \A i, j \in Correct : Heard(i, j)
  BY RestHeard
<1>4. \A i \in Correct : Count(echoReqRepo[i], Input.root) >= EchoThreshold
  BY <1>1, <1>2, <1>3 DEF Heard, EchoThreshold
<1>5. \A i \in Correct : Count(readyReqRepo[i], Input.root) >= N - F
  BY <1>1, <1>2, <1>4, RestReadied
<1>6. \A i \in Correct : HoldsOutput(i)
  <2>. SUFFICES ASSUME NEW i \in Correct PROVE HoldsOutput(i)
    OBVIOUS
  <2>1. Count(readyReqRepo[i], Input.root) >= OutputThreshold
    <3>1. Count(readyReqRepo[i], Input.root) \in Nat
      BY <1>2, CountGrows
    <3>. QED
      BY <1>5, <3>1, NodesFinite, NodesAssumption DEF OutputThreshold
  <2>. QED
    BY <1>3, <1>4, <2>1, RestDecodable DEF HoldsOutput
<1>7. ASSUME NEW i \in Correct, NEW j \in Correct, i # j
      PROVE  InputDelivered(i) \/ InputDelivered(j)
  <2>1. done[i] \/ done[j]
    BY <1>3, <1>6, <1>7 DEF RestInv, KeptInv, OneLooked, Tried
  <2>2. ASSUME NEW k \in Correct, done[k] PROVE InputDelivered(k)
    <3>1. PICK v \in delivered[k] : TRUE
      BY <2>2 DEF RestInv, KeptInv, OwnKept
    <3>2. v.root = Input.root
      BY DEF DInv, InputSpread
    <3>3. v.len = contentLength[k]
      BY DEF DInv, IInv, DeliveredBacked
    <3>4. contentLength[k] = Input.len
      <4>1. contentLength[k] # 0
        BY <3>1 DEF DInv, IInv, LengthFirst
      <4>. QED
        BY <4>1 DEF RestInv, KeptInv, LengthsEqual
    <3>. QED
      BY <3>2, <3>3, <3>4 DEF InputDelivered
  <2>. QED
    BY <2>1, <2>2
<1>. QED
  BY <1>6, <1>7

\* When a correct proposer has sent its VALs and every message of a correct node
\* has been handled, all correct nodes hold all it takes to deliver the input, and
\* at most one of them, whose own votes came last, has not delivered it: the output
\* test that handleValueRequest leaves out costs one node, not more
\* (docs/RBC-EN.md:51; rbc.go: handleValueRequest, handleEchoRequest,
\* handleReadyRequest).  Faulty nodes are held to the input's length
\* (OneLength), and the shards of the input differ (LeavesDiffer).
THEOREM InputAtRestDelivered == LeavesDiffer /\ OneLength => (Spec => []ValidityAtRest)
<1>. SUFFICES ASSUME LeavesDiffer, OneLength PROVE Spec => []ValidityAtRest
  OBVIOUS
<1>1. DInv /\ RestInv /\ ShardsApart => ValidityAtRest
  BY RestDelivered
<1>2. Spec => []ShardsApart
  BY ApartInvariance
<1>. QED
  BY <1>1, <1>2, DeliveryInvariance, RestInvariance, PTL
=============================================================================
