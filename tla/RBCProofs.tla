----------------------------- MODULE RBCProofs -----------------------------
(* Proofs about RBC for every network, payload set and set of messages of  *)
(* the faulty nodes that meet the assumptions of RBC.                      *)
EXTENDS RBC, FiniteSetTheorems, TLAPS

\* The thresholds are integers and the sets of nodes are finite.
LEMMA NodesFinite ==
    /\ N \in Nat
    /\ IsFiniteSet(Nodes)
    /\ IsFiniteSet(Faulty)
    /\ Cardinality(Faulty) \in Nat
<1>1. N \in Nat /\ IsFiniteSet(Nodes)
  BY NodesAssumption, FS_CardinalityType DEF N
<1>2. IsFiniteSet(Faulty)
  BY NodesAssumption, FS_Subset
<1>. QED
  BY <1>1, <1>2, FS_CardinalityType

\* More than F nodes are not all faulty.
LEMMA CorrectMember ==
    ASSUME NEW Q, Q \subseteq Nodes, Cardinality(Q) >= F + 1
    PROVE  \E k \in Q : k \in Correct
<1>1. SUFFICES ASSUME Q \subseteq Faulty PROVE FALSE
  BY DEF Correct
<1>2. Cardinality(Q) <= Cardinality(Faulty) /\ Cardinality(Q) \in Nat
  BY <1>1, NodesFinite, FS_Subset, FS_CardinalityType
<1>. QED
  BY <1>2, NodesFinite, NodesAssumption

\* Two sets of N-F nodes share a correct one.
LEMMA QuorumIntersection ==
    ASSUME NEW Q1, NEW Q2, Q1 \subseteq Nodes, Q2 \subseteq Nodes,
           Cardinality(Q1) >= N - F, Cardinality(Q2) >= N - F
    PROVE  \E k \in Q1 \cap Q2 : k \in Correct
<1>1. /\ IsFiniteSet(Q1)
      /\ IsFiniteSet(Q2)
      /\ Cardinality(Q1) \in Nat
      /\ Cardinality(Q2) \in Nat
  BY NodesFinite, FS_Subset, FS_CardinalityType
<1>2. /\ IsFiniteSet(Q1 \cap Q2)
      /\ Cardinality(Q1 \cap Q2) \in Nat
  BY <1>1, FS_Intersection, FS_CardinalityType
<1>3. Cardinality(Q1 \cup Q2)
        = Cardinality(Q1) + Cardinality(Q2) - Cardinality(Q1 \cap Q2)
  BY <1>1, FS_Union
<1>4. Cardinality(Q1 \cup Q2) <= N
  <2>1. Q1 \cup Q2 \subseteq Nodes
    OBVIOUS
  <2>. QED
    BY <2>1, NodesFinite, FS_Subset DEF N
<1>5. Cardinality(Q1 \cap Q2) >= F + 1
  BY <1>1, <1>2, <1>3, <1>4, NodesFinite, NodesAssumption
<1>6. Q1 \cap Q2 \subseteq Nodes
  OBVIOUS
<1>. QED
  BY <1>5, <1>6, CorrectMember

-----------------------------------------------------------------------------
\* What a node reads from a connection is a well-formed message, and one of a
\* correct node was sent by it.
LEMMA ArrivingMessage ==
    ASSUME TypeOK, NEW i \in Correct, NEW m, Arrives(i, m)
    PROVE  /\ m \in Message
           /\ m.src \in Correct => m \in msgs
<1>1. CASE m \in FaultyTo[i]
  BY <1>1, FaultyAssumption DEF Correct
<1>2. CASE m \in msgs
  BY <1>2 DEF TypeOK
<1>. QED
  BY <1>1, <1>2 DEF Arrives

\* The fields of a message of each kind.
LEMMA MessageFields ==
    ASSUME NEW m \in Message
    PROVE  /\ m.type \in {"val", "echo", "ready"}
           /\ m.src \in Nodes
           /\ m.root \in Roots
           /\ m.len \in Lengths
           /\ m.type \in {"val", "echo"} => m.shard \in Shards
BY DEF Message, ValMsg, EchoMsg, ReadyMsg

\* The messages built by a correct node are well formed.
LEMMA BuiltMessages ==
    ASSUME NEW i \in Nodes, NEW root \in Roots, NEW shard \in Positions,
           NEW len \in Lengths
    PROVE  /\ Echo(i, root, shard, len) \in Message
           /\ Ready(i, root, len) \in Message
BY DEF Echo, Ready, Message, EchoMsg, ReadyMsg, Shards

LEMMA DistributionType ==
    ASSUME NEW root \in Roots, NEW len \in Lengths, NEW order \in ConnOrders
    PROVE  /\ Distribution(root, len, order) \subseteq Message
           /\ \A m \in Distribution(root, len, order) :
                 m.type = "val" /\ m.src = Proposer /\ m.root = root
<1>1. /\ order \in [Nodes \ {Proposer} -> Positions \ {0}]
      /\ Leaf[root] \in [Positions -> Positions]
      /\ Proposer \in Nodes
  BY PayloadAssumption, NodesAssumption
<1>2. \A j \in DOMAIN order : j \in Nodes /\ Leaf[root][order[j]] \in Shards
  BY <1>1 DEF Shards
<1>. QED
  BY <1>1, <1>2 DEF Distribution, Message, ValMsg

\* What Decode returns for a node's ECHOs.
LEMMA DecodeType ==
    ASSUME NEW echos \in SUBSET EchoEntry, NEW root \in Roots,
           NEW len \in Lengths
    PROVE  /\ Decode(echos, root, len) \in Value
           /\ Decode(echos, root, len).root = root
           /\ Decode(echos, root, len).len = len
           /\ root \in Codewords => Decode(echos, root, len).basis = {}
<1>1. ShardsOf(echos, root) \subseteq Positions
  BY DEF ShardsOf, EchoEntry
<1>2. Lowest(ShardsOf(echos, root), NumDataShards) \subseteq Positions
  BY <1>1 DEF Lowest
<1>. QED
  BY <1>2 DEF Decode, Value

-----------------------------------------------------------------------------
\* The initial state has the right types.
LEMMA InitTypeOK == Init => TypeOK
BY DEF Init, TypeOK

\* What the input consists of.
LEMMA InputParts ==
    ASSUME Proposer \in Correct
    PROVE  /\ Proposer \in Nodes
           /\ Input.root \in Roots
           /\ Input.len \in Lengths
           /\ InputShard \in Positions
<1>1. /\ Proposer \in Nodes
      /\ Input.root \in Roots
      /\ Input.len \in Lengths
      /\ Leaf[Input.root] \in [Positions -> Positions]
  BY PayloadAssumption, NodesAssumption
<1>2. 0 \in Positions
  BY NodesFinite, NodesAssumption DEF Positions
<1>. QED
  BY <1>1, <1>2 DEF InputShard

\* Once HandleInput has begun, its node is correct and has a length.
InputBegun ==
    /\ inputPc # "none" => Proposer \in Correct /\ contentLength[Proposer] # 0
    /\ (Proposer \in Correct /\ inputPc \in {"none", "echo", "ready", "share"})
           => ~ valReceived[Proposer]
    /\ \A m \in msgs : m.type = "val" => m.src = Proposer

\* The steps of HandleInput keep the types.
LEMMA InputTypeOK == TypeOK /\ InputBegun /\ InputStep => TypeOK'
<1>. SUFFICES ASSUME TypeOK, InputBegun, InputStep PROVE TypeOK'
  OBVIOUS
<1>1. /\ Proposer \in Correct
      /\ Proposer \in Nodes
      /\ Input.root \in Roots
      /\ Input.len \in Lengths
      /\ InputShard \in Positions
  BY InputParts DEF InputStep, HandleInput, InputEcho, InputReady, InputShare,
                    DistributeMessage, InputBegun
<1>2. CASE HandleInput
  BY <1>1, <1>2 DEF HandleInput, TypeOK
<1>3. CASE InputEcho
  BY <1>1, <1>3 DEF InputEcho, SaveOwnEcho, TypeOK, EchoEntry
<1>4. CASE InputReady
  BY <1>1, <1>4 DEF InputReady, SaveOwnReady, TypeOK, ReadyEntry
<1>5. CASE InputShare
  <2>1. contentLength[Proposer] \in Lengths
    BY <1>1, <1>5 DEF InputShare, InputBegun, TypeOK
  <2>2. Echo(Proposer, Input.root, InputShard, contentLength[Proposer])
          \in {x \in Message : x.src \in Correct}
    BY <1>1, <2>1, BuiltMessages DEF Echo
  <2>. QED
    BY <1>1, <1>5, <2>2 DEF InputShare, ShareOwnEcho, TypeOK
<1>6. CASE DistributeMessage
  <2>1. contentLength[Proposer] \in Lengths
    BY <1>1, <1>6 DEF DistributeMessage, InputBegun, TypeOK
  <2>2. PICK order \in ConnOrders :
          msgs' = msgs \cup
                    Distribution(Input.root, contentLength[Proposer], order)
    BY <1>6 DEF DistributeMessage
  <2>3. \A m \in Distribution(Input.root, contentLength[Proposer], order) :
          m \in Message /\ m.src \in Correct
    BY <1>1, <2>1, DistributionType
  <2>4. msgs' \subseteq {m \in Message : m.src \in Correct}
    BY <2>2, <2>3 DEF TypeOK
  <2>. QED
    BY <1>6, <2>4 DEF DistributeMessage, TypeOK
<1>. QED
  BY <1>2, <1>3, <1>4, <1>5, <1>6 DEF InputStep

LEMMA LengthTypeOK ==
    ASSUME TypeOK, NEW i \in Correct, NEW m, SetContentLength(i, m)
    PROVE  TypeOK'
<1>1. m.len \in Lengths
  BY ArrivingMessage, MessageFields DEF SetContentLength
<1>. QED
  BY <1>1 DEF SetContentLength, TypeOK

LEMMA ValueTypeOK ==
    ASSUME TypeOK, NEW i \in Correct, NEW m, HandleValueRequest(i, m)
    PROVE  TypeOK'
<1>1. /\ i \in Nodes
      /\ m.root \in Roots
      /\ m.len \in Lengths
      /\ m.shard \in Positions
      /\ contentLength[i] = m.len
  BY ArrivingMessage, MessageFields
     DEF HandleValueRequest, Admitted, ValidateMessage, Correct
<1>2. Echo(i, m.root, m.shard, contentLength[i]) \in {x \in Message : x.src \in Correct}
  BY <1>1, BuiltMessages DEF Echo
<1>. QED
  BY <1>1, <1>2
     DEF HandleValueRequest, SaveOwnEcho, SaveOwnReady, ShareOwnEcho, TypeOK,
         EchoEntry, ReadyEntry

\* The common end of the two handlers.
LEMMA ShareReadyTypeOK ==
    ASSUME TypeOK, NEW i \in Correct, NEW root \in Roots, NEW enough,
           contentLength[i] \in Lengths, ShareReadyIf(enough, i, root)
    PROVE  /\ readySent' \in [Correct -> BOOLEAN]
           /\ msgs' \subseteq {m \in Message : m.src \in Correct}
<1>1. Ready(i, root, contentLength[i]) \in {x \in Message : x.src \in Correct}
  BY BuiltMessages DEF Ready, Correct, Message, ReadyMsg
<1>. QED
  BY <1>1 DEF ShareReadyIf, TypeOK

LEMMA TryOutputTypeOK ==
    ASSUME TypeOK, NEW i \in Correct, NEW root \in Roots,
           NEW echos \in SUBSET EchoEntry, NEW readys,
           contentLength[i] \in Lengths, TryOutput(i, root, echos, readys)
    PROVE  /\ done' \in [Correct -> BOOLEAN]
           /\ delivered' \in [Correct -> SUBSET Value]
<1>1. Decode(echos, root, contentLength[i]) \in Value
  BY DecodeType
<1>2. \/ UNCHANGED <<done, delivered>>
      \/ /\ done' = [done EXCEPT ![i] = TRUE]
         /\ delivered' = [delivered EXCEPT ![i] =
                @ \cup {Decode(echos, root, contentLength[i])}]
  BY Zenon DEF TryOutput
<1>3. /\ done \in [Correct -> BOOLEAN]
      /\ delivered \in [Correct -> SUBSET Value]
  BY DEF TypeOK
<1>4. delivered[i] \cup {Decode(echos, root, contentLength[i])} \in SUBSET Value
  BY <1>1, <1>3
<1>. QED
  BY <1>2, <1>3, <1>4

LEMMA EchoTypeOK ==
    ASSUME TypeOK, NEW i \in Correct, NEW m, HandleEchoRequest(i, m)
    PROVE  TypeOK'
<1>. DEFINE echos == echoReqRepo[i] \cup
                       {[src |-> m.src, root |-> m.root, shard |-> m.shard]}
<1>1. /\ m.src \in Nodes
      /\ m.root \in Roots
      /\ m.shard \in Positions
      /\ contentLength[i] \in Lengths
  BY ArrivingMessage, MessageFields
     DEF HandleEchoRequest, Admitted, ValidateMessage
<1>2. echos \in SUBSET EchoEntry
  BY <1>1 DEF TypeOK, EchoEntry
<1>3. /\ echoReqRepo' = [echoReqRepo EXCEPT ![i] = echos]
      /\ ShareReadyIf(Count(echos, m.root) >= EchoThreshold, i, m.root)
      /\ TryOutput(i, m.root, echos, readyReqRepo[i])
      /\ UNCHANGED <<contentLength, readyReqRepo, valReceived, inputPc>>
  BY DEF HandleEchoRequest
<1>4. echoReqRepo' \in [Correct -> SUBSET EchoEntry]
  BY <1>2, <1>3 DEF TypeOK
<1>5. /\ readySent' \in [Correct -> BOOLEAN]
      /\ msgs' \subseteq {x \in Message : x.src \in Correct}
  BY <1>1, <1>3, ShareReadyTypeOK
<1>6. /\ done' \in [Correct -> BOOLEAN]
      /\ delivered' \in [Correct -> SUBSET Value]
  BY <1>1, <1>2, <1>3, TryOutputTypeOK
<1>. QED
  BY <1>3, <1>4, <1>5, <1>6 DEF TypeOK

LEMMA ReadyTypeOK ==
    ASSUME TypeOK, NEW i \in Correct, NEW m, HandleReadyRequest(i, m)
    PROVE  TypeOK'
<1>. DEFINE readys == readyReqRepo[i] \cup {[src |-> m.src, root |-> m.root]}
<1>1. /\ m.src \in Nodes
      /\ m.root \in Roots
      /\ contentLength[i] \in Lengths
  BY ArrivingMessage, MessageFields DEF HandleReadyRequest, Admitted
<1>2. readys \in SUBSET ReadyEntry /\ echoReqRepo[i] \in SUBSET EchoEntry
  BY <1>1 DEF TypeOK, ReadyEntry
<1>3. /\ readyReqRepo' = [readyReqRepo EXCEPT ![i] = readys]
      /\ ShareReadyIf(Count(readys, m.root) >= ReadyThreshold, i, m.root)
      /\ TryOutput(i, m.root, echoReqRepo[i], readys)
      /\ UNCHANGED <<contentLength, echoReqRepo, valReceived, inputPc>>
  BY DEF HandleReadyRequest
<1>4. readyReqRepo' \in [Correct -> SUBSET ReadyEntry]
  BY <1>2, <1>3 DEF TypeOK
<1>5. /\ readySent' \in [Correct -> BOOLEAN]
      /\ msgs' \subseteq {x \in Message : x.src \in Correct}
  BY <1>1, <1>3, ShareReadyTypeOK
<1>6. /\ done' \in [Correct -> BOOLEAN]
      /\ delivered' \in [Correct -> SUBSET Value]
  BY <1>1, <1>2, <1>3, TryOutputTypeOK
<1>. QED
  BY <1>3, <1>4, <1>5, <1>6 DEF TypeOK

-----------------------------------------------------------------------------
(* Agreement.  The inductive invariant says that the flags remember the    *)
(* votes, that saved ECHOs of correct nodes were sent under the length the *)
(* node has pinned, and that what was delivered passed the output test.    *)

\* The ECHO that HandleInput may have saved already and has still to share.
Pending ==
    IF inputPc \in {"echo", "ready", "share"}
    THEN {Echo(Proposer, Input.root, InputShard, contentLength[Proposer])}
    ELSE {}

LengthFirst ==
    \A i \in Correct : contentLength[i] = 0 =>
        echoReqRepo[i] = {} /\ delivered[i] = {}

VotesMarked ==
    \A m \in msgs : /\ m.type = "echo" => valReceived[m.src]
                    /\ m.type = "ready" => readySent[m.src]

EntriesSent ==
    \A i \in Correct : \A e \in echoReqRepo[i] :
        e.src \in Correct =>
            Echo(e.src, e.root, e.shard, contentLength[i]) \in msgs \cup Pending

DeliveredBacked ==
    \A i \in Correct : \A v \in delivered[i] :
        /\ v.len = contentLength[i]
        /\ Count(echoReqRepo[i], v.root) >= EchoThreshold
        /\ v.root \in Codewords => v.basis = {}

IInv ==
    /\ TypeOK
    /\ InputBegun
    /\ SingleVote
    /\ LengthFirst
    /\ VotesMarked
    /\ EntriesSent
    /\ DeliveredBacked

\* Saving more requests never lowers a count.
LEMMA CountGrows ==
    ASSUME NEW small, NEW large, small \subseteq large,
           \A e \in large : e.src \in Nodes, NEW root
    PROVE  /\ Voters(large, root) \subseteq Nodes
           /\ Count(small, root) \in Nat
           /\ Count(large, root) \in Nat
           /\ Count(small, root) <= Count(large, root)
<1>1. /\ Voters(small, root) \subseteq Voters(large, root)
      /\ Voters(large, root) \subseteq Nodes
  BY DEF Voters
<1>2. IsFiniteSet(Voters(large, root)) /\ IsFiniteSet(Voters(small, root))
  BY <1>1, NodesFinite, FS_Subset
<1>. QED
  BY <1>1, <1>2, FS_Subset, FS_CardinalityType DEF Count

LEMMA InitIInv == Init => IInv
<1>. SUFFICES ASSUME Init PROVE IInv
  OBVIOUS
<1>1. TypeOK
  BY InitTypeOK
<1>. QED
  BY <1>1 DEF Init, IInv, InputBegun, SingleVote, LengthFirst, VotesMarked,
              EntriesSent, DeliveredBacked

LEMMA LengthIInv ==
    ASSUME IInv, NEW i \in Correct, NEW m, SetContentLength(i, m)
    PROVE  IInv'
<1>1. TypeOK'
  BY LengthTypeOK DEF IInv
<1>2. /\ UNCHANGED <<echoReqRepo, readyReqRepo, valReceived, readySent, done,
                     delivered, inputPc, msgs>>
      /\ contentLength[i] = 0
      /\ contentLength' = [contentLength EXCEPT ![i] = m.len]
      /\ contentLength \in [Correct -> Lengths \cup {0}]
  BY DEF SetContentLength, IInv, TypeOK
<1>3. \A j \in Correct : contentLength'[j] = contentLength[j] \/ j = i
  BY <1>2
<1>4. echoReqRepo[i] = {} /\ delivered[i] = {}
  BY <1>2 DEF IInv, LengthFirst
<1>5. SingleVote' /\ VotesMarked'
  BY <1>2 DEF IInv, SingleVote, VotesMarked
<1>6. LengthFirst'
  BY <1>2, <1>3, <1>4 DEF IInv, LengthFirst
<1>7. InputBegun' /\ Pending' = Pending
  BY <1>2, <1>3 DEF IInv, InputBegun, Pending
<1>8. EntriesSent'
  BY <1>2, <1>3, <1>4, <1>7 DEF IInv, EntriesSent
<1>9. DeliveredBacked'
  BY <1>2, <1>3, <1>4 DEF IInv, DeliveredBacked
<1>. QED
  BY <1>1, <1>5, <1>6, <1>7, <1>8, <1>9 DEF IInv

\* Further ECHOs leave what was delivered backed.
LEMMA BackedGrows ==
    ASSUME IInv, TypeOK', UNCHANGED <<contentLength, delivered>>,
           \A j \in Correct : echoReqRepo[j] \subseteq echoReqRepo'[j]
    PROVE  DeliveredBacked'
<1>1. ASSUME NEW j \in Correct, NEW v \in delivered[j]
      PROVE  /\ v.len = contentLength[j]
             /\ Count(echoReqRepo'[j], v.root) >= EchoThreshold
             /\ v.root \in Codewords => v.basis = {}
  <2>1. /\ echoReqRepo[j] \subseteq echoReqRepo'[j]
        /\ \A e \in echoReqRepo'[j] : e.src \in Nodes
    BY DEF TypeOK, EchoEntry
  <2>2. /\ Count(echoReqRepo[j], v.root) <= Count(echoReqRepo'[j], v.root)
        /\ Count(echoReqRepo[j], v.root) \in Nat
        /\ Count(echoReqRepo'[j], v.root) \in Nat
    BY <2>1, CountGrows
  <2>3. EchoThreshold \in Int
    BY NodesFinite, NodesAssumption DEF EchoThreshold
  <2>. QED
    BY <1>1, <2>2, <2>3 DEF IInv, DeliveredBacked
<1>. QED
  BY <1>1 DEF DeliveredBacked

\* A correct proposer gets no VAL.
LEMMA ValueElsewhere ==
    ASSUME IInv, NEW i \in Correct, NEW m, HandleValueRequest(i, m)
    PROVE  i # Proposer
<1>1. m.type = "val" /\ Arrives(i, m)
  BY DEF HandleValueRequest, Admitted
<1>2. CASE m \in FaultyTo[i]
  BY <1>1, <1>2, FaultyAssumption DEF Correct
<1>3. CASE m \in msgs /\ m.src # i
  BY <1>1, <1>3 DEF IInv, InputBegun
<1>. QED
  BY <1>1, <1>2, <1>3 DEF Arrives

\* Sharing the own ECHO keeps the votes unique and marked.
LEMMA ShareEchoVotes ==
    ASSUME IInv, NEW i \in Correct, NEW root, NEW shard, ~ valReceived[i],
           ShareOwnEcho(i, root, shard), UNCHANGED readySent
    PROVE  SingleVote' /\ VotesMarked'
<1>1. /\ valReceived' = [valReceived EXCEPT ![i] = TRUE]
      /\ msgs' = msgs \cup {Echo(i, root, shard, contentLength[i])}
      /\ valReceived \in [Correct -> BOOLEAN]
      /\ \A m \in msgs : m.src \in Correct
  BY DEF ShareOwnEcho, IInv, TypeOK
<1>2. \A m \in msgs : m.type = "echo" => m.src # i
  BY DEF IInv, VotesMarked
<1>3. /\ Echo(i, root, shard, contentLength[i]).type = "echo"
      /\ Echo(i, root, shard, contentLength[i]).src = i
  BY DEF Echo
<1>4. SingleVote'
  BY <1>1, <1>2, <1>3 DEF IInv, SingleVote
<1>5. VotesMarked'
  BY <1>1, <1>3 DEF IInv, VotesMarked
<1>. QED
  BY <1>4, <1>5

LEMMA ValueIInv ==
    ASSUME IInv, NEW i \in Correct, NEW m, HandleValueRequest(i, m)
    PROVE  IInv'
<1>1. /\ TypeOK
      /\ TypeOK'
      /\ i # Proposer
      /\ ~ valReceived[i]
      /\ ShareOwnEcho(i, m.root, m.shard)
      /\ SaveOwnEcho(i, m.root, m.shard)
      /\ UNCHANGED <<contentLength, readySent, done, delivered, inputPc>>
  BY ValueTypeOK, ValueElsewhere DEF IInv, HandleValueRequest
<1>2. contentLength[i] # 0
  BY ArrivingMessage, MessageFields, PayloadAssumption
     DEF HandleValueRequest, Admitted, IInv
<1>3. /\ msgs' = msgs \cup {Echo(i, m.root, m.shard, contentLength[i])}
      /\ valReceived' = [valReceived EXCEPT ![i] = TRUE]
      /\ valReceived \in [Correct -> BOOLEAN]
      /\ \A j \in Correct : j # i => echoReqRepo'[j] = echoReqRepo[j]
      /\ echoReqRepo'[i] =
             echoReqRepo[i] \cup {[src |-> i, root |-> m.root, shard |-> m.shard]}
  BY <1>1 DEF ShareOwnEcho, SaveOwnEcho, TypeOK
<1>4. SingleVote' /\ VotesMarked'
  BY <1>1, ShareEchoVotes
<1>5. InputBegun'
  BY <1>1, <1>3 DEF IInv, InputBegun, Echo
<1>6. LengthFirst'
  BY <1>1, <1>2, <1>3 DEF IInv, LengthFirst
<1>7. EntriesSent'
  <2>1. Pending' = Pending
    BY <1>1 DEF Pending
  <2>. QED
    BY <1>1, <1>3, <2>1 DEF IInv, EntriesSent
<1>8. DeliveredBacked'
  BY <1>1, <1>3, BackedGrows
<1>. QED
  BY <1>1, <1>4, <1>5, <1>6, <1>7, <1>8 DEF IInv

\* The steps of HandleInput.
LEMMA InputIInv == IInv /\ InputStep => IInv'
<1>. SUFFICES ASSUME IInv, InputStep PROVE IInv'
  OBVIOUS
<1>1. /\ TypeOK
      /\ TypeOK'
      /\ InputBegun
      /\ Proposer \in Correct
      /\ Input.len \in Lengths
      /\ 0 \notin Lengths
  BY InputTypeOK, PayloadAssumption
     DEF IInv, InputStep, HandleInput, InputEcho, InputReady, InputShare,
         DistributeMessage, InputBegun
<1>2. CASE HandleInput
  <2>1. /\ UNCHANGED <<echoReqRepo, readyReqRepo, valReceived, readySent, done,
                       delivered, msgs>>
        /\ inputPc = "none"
        /\ inputPc' = "echo"
        /\ ~ valReceived[Proposer]
        /\ contentLength' = [contentLength EXCEPT ![Proposer] =
                                 IF @ = 0 THEN Input.len ELSE @]
        /\ contentLength \in [Correct -> Lengths \cup {0}]
    BY <1>1, <1>2 DEF HandleInput, TypeOK
  <2>2. /\ \A j \in Correct :
              contentLength[j] # 0 => contentLength'[j] = contentLength[j]
        /\ \A j \in Correct :
              contentLength'[j] = 0 => contentLength[j] = 0
        /\ contentLength'[Proposer] # 0
    BY <1>1, <2>1
  <2>3. SingleVote' /\ VotesMarked'
    BY <2>1 DEF IInv, SingleVote, VotesMarked
  <2>4. InputBegun'
    BY <1>1, <2>1, <2>2 DEF InputBegun
  <2>5. LengthFirst'
    BY <2>1, <2>2 DEF IInv, LengthFirst
  <2>6. EntriesSent'
    <3>1. Pending = {}
      BY <2>1 DEF Pending
    <3>. QED
      BY <2>1, <2>2, <3>1 DEF IInv, EntriesSent, LengthFirst
  <2>7. DeliveredBacked'
    BY <2>1, <2>2 DEF IInv, DeliveredBacked, LengthFirst
  <2>. QED
    BY <1>1, <2>3, <2>4, <2>5, <2>6, <2>7 DEF IInv
<1>3. CASE InputEcho
  <2>1. /\ UNCHANGED <<contentLength, readyReqRepo, valReceived, readySent, done,
                       delivered, msgs>>
        /\ inputPc = "echo"
        /\ inputPc' = "ready"
        /\ SaveOwnEcho(Proposer, Input.root, InputShard)
    BY <1>3 DEF InputEcho
  <2>2. /\ \A j \in Correct : j # Proposer => echoReqRepo'[j] = echoReqRepo[j]
        /\ echoReqRepo'[Proposer] = echoReqRepo[Proposer] \cup
               {[src |-> Proposer, root |-> Input.root, shard |-> InputShard]}
    BY <1>1, <2>1 DEF SaveOwnEcho, TypeOK
  <2>3. SingleVote' /\ VotesMarked'
    BY <2>1 DEF IInv, SingleVote, VotesMarked
  <2>4. InputBegun'
    BY <1>1, <2>1 DEF InputBegun
  <2>5. LengthFirst'
    BY <1>1, <2>1, <2>2 DEF IInv, InputBegun, LengthFirst
  <2>6. EntriesSent'
    <3>1. /\ Pending' = Pending
          /\ Echo(Proposer, Input.root, InputShard, contentLength[Proposer])
                \in Pending
      BY <2>1 DEF Pending
    <3>. QED
      BY <2>1, <2>2, <3>1 DEF IInv, EntriesSent
  <2>7. DeliveredBacked'
    BY <1>1, <2>1, <2>2, BackedGrows
  <2>. QED
    BY <1>1, <2>3, <2>4, <2>5, <2>6, <2>7 DEF IInv
<1>4. CASE InputReady
  <2>1. /\ UNCHANGED <<contentLength, echoReqRepo, valReceived, readySent, done,
                       delivered, msgs>>
        /\ inputPc = "ready"
        /\ inputPc' = "share"
    BY <1>4 DEF InputReady
  <2>2. Pending' = Pending
    BY <2>1 DEF Pending
  <2>3. InputBegun'
    BY <1>1, <2>1 DEF InputBegun
  <2>. QED
    BY <1>1, <2>1, <2>2, <2>3
       DEF IInv, SingleVote, LengthFirst, VotesMarked, EntriesSent,
           DeliveredBacked
<1>5. CASE InputShare
  <2>1. /\ UNCHANGED <<contentLength, echoReqRepo, readyReqRepo, readySent, done,
                       delivered>>
        /\ inputPc = "share"
        /\ inputPc' = "distribute"
        /\ ShareOwnEcho(Proposer, Input.root, InputShard)
        /\ ~ valReceived[Proposer]
    BY <1>1, <1>5 DEF InputShare, InputBegun
  <2>2. SingleVote' /\ VotesMarked'
    BY <1>1, <2>1, ShareEchoVotes
  <2>3. msgs' = msgs \cup
          {Echo(Proposer, Input.root, InputShard, contentLength[Proposer])}
    BY <2>1 DEF ShareOwnEcho
  <2>4. InputBegun'
    BY <1>1, <2>1, <2>3 DEF InputBegun, Echo
  <2>5. LengthFirst' /\ DeliveredBacked'
    BY <2>1 DEF IInv, LengthFirst, DeliveredBacked
  <2>6. EntriesSent'
    <3>1. msgs \cup Pending \subseteq msgs'
      BY <2>1, <2>3 DEF Pending
    <3>. QED
      BY <2>1, <3>1 DEF IInv, EntriesSent
  <2>. QED
    BY <1>1, <2>2, <2>4, <2>5, <2>6 DEF IInv
<1>6. CASE DistributeMessage
  <2>1. /\ UNCHANGED <<contentLength, echoReqRepo, readyReqRepo, valReceived,
                       readySent, done, delivered>>
        /\ inputPc = "distribute"
        /\ inputPc' = "done"
    BY <1>6 DEF DistributeMessage
  <2>2. PICK order \in ConnOrders :
          msgs' = msgs \cup
                    Distribution(Input.root, contentLength[Proposer], order)
    BY <1>6 DEF DistributeMessage
  <2>3. /\ msgs \subseteq msgs'
        /\ \A m \in msgs' : m \in msgs \/ (m.type = "val" /\ m.src = Proposer)
    <3>1. contentLength[Proposer] \in Lengths
      BY <1>1, <2>1 DEF InputBegun, TypeOK
    <3>2. Input.root \in Roots
      BY <1>1, InputParts
    <3>. QED
      BY <2>2, <3>1, <3>2, DistributionType
  <2>4. SingleVote' /\ VotesMarked'
    BY <2>1, <2>3 DEF IInv, SingleVote, VotesMarked
  <2>5. InputBegun'
    BY <1>1, <2>1, <2>3 DEF InputBegun
  <2>6. LengthFirst' /\ DeliveredBacked'
    BY <2>1 DEF IInv, LengthFirst, DeliveredBacked
  <2>7. EntriesSent'
    <3>1. Pending = {}
      BY <2>1 DEF Pending
    <3>. QED
      BY <2>1, <2>3, <3>1 DEF IInv, EntriesSent
  <2>. QED
    BY <1>1, <2>4, <2>5, <2>6, <2>7 DEF IInv
<1>. QED
  BY <1>2, <1>3, <1>4, <1>5, <1>6 DEF InputStep

\* Sharing a READY keeps the votes unique and marked.
LEMMA ShareReadyVotes ==
    ASSUME IInv, NEW i \in Correct, NEW root \in Roots, NEW enough,
           ShareReadyIf(enough, i, root), UNCHANGED valReceived
    PROVE  /\ SingleVote'
           /\ VotesMarked'
           /\ msgs \subseteq msgs'
           /\ \A m \in msgs' : m.type = "val" => m \in msgs
<1>1. /\ readySent \in [Correct -> BOOLEAN]
      /\ \A m \in msgs : m.src \in Correct
  BY DEF IInv, TypeOK
<1>2. CASE UNCHANGED <<readySent, msgs>>
  BY <1>2 DEF IInv, SingleVote, VotesMarked
<1>3. ASSUME ~ readySent[i],
             readySent' = [readySent EXCEPT ![i] = TRUE],
             msgs' = msgs \cup {Ready(i, root, contentLength[i])}
      PROVE  /\ SingleVote'
             /\ VotesMarked'
             /\ msgs \subseteq msgs'
             /\ \A m \in msgs' : m.type = "val" => m \in msgs
  <2>1. \A m \in msgs : m.type = "ready" => m.src # i
    BY <1>3 DEF IInv, VotesMarked
  <2>2. /\ Ready(i, root, contentLength[i]).type = "ready"
        /\ Ready(i, root, contentLength[i]).src = i
    BY DEF Ready
  <2>3. SingleVote'
    BY <1>3, <2>1, <2>2 DEF IInv, SingleVote
  <2>4. VotesMarked'
    BY <1>1, <1>3, <2>2 DEF IInv, VotesMarked
  <2>. QED
    BY <1>3, <2>2, <2>3, <2>4
<1>. QED
  BY <1>2, <1>3 DEF ShareReadyIf

\* Whatever TryOutput delivers has passed the test.
LEMMA TryOutputBacked ==
    ASSUME TypeOK, NEW i \in Correct, NEW root \in Roots,
           NEW echos \in SUBSET EchoEntry, NEW readys,
           contentLength[i] \in Lengths, TryOutput(i, root, echos, readys)
    PROVE  \A j \in Correct : \A v \in delivered'[j] :
              \/ v \in delivered[j]
              \/ /\ j = i
                 /\ v.root = root
                 /\ v.len = contentLength[i]
                 /\ Count(echos, root) >= EchoThreshold
                 /\ v.root \in Codewords => v.basis = {}
<1>1. \/ delivered' = delivered
      \/ /\ Count(echos, root) >= EchoThreshold
         /\ delivered' = [delivered EXCEPT ![i] =
                @ \cup {Decode(echos, root, contentLength[i])}]
  BY Zenon DEF TryOutput
<1>2. delivered \in [Correct -> SUBSET Value]
  BY DEF TypeOK
<1>3. /\ Decode(echos, root, contentLength[i]).root = root
      /\ Decode(echos, root, contentLength[i]).len = contentLength[i]
      /\ root \in Codewords =>
            Decode(echos, root, contentLength[i]).basis = {}
  BY DecodeType
<1>. QED
  BY <1>1, <1>2, <1>3

LEMMA EchoIInv ==
    ASSUME IInv, NEW i \in Correct, NEW m, HandleEchoRequest(i, m)
    PROVE  IInv'
<1>. DEFINE entry == [src |-> m.src, root |-> m.root, shard |-> m.shard]
            echos == echoReqRepo[i] \cup {entry}
<1>1. TypeOK /\ TypeOK'
  BY EchoTypeOK DEF IInv
<1>2. /\ m \in Message
      /\ m.src \in Nodes
      /\ m.root \in Roots
      /\ m.shard \in Positions
      /\ contentLength[i] = m.len
      /\ contentLength[i] \in Lengths
      /\ contentLength[i] # 0
      /\ m.src \in Correct => m \in msgs
  BY <1>1, ArrivingMessage, MessageFields, PayloadAssumption
     DEF HandleEchoRequest, Admitted, ValidateMessage
<1>3. m = Echo(m.src, m.root, m.shard, m.len)
  BY <1>2 DEF HandleEchoRequest, Message, ValMsg, EchoMsg, ReadyMsg, Echo
<1>4. /\ echoReqRepo' = [echoReqRepo EXCEPT ![i] = echos]
      /\ echoReqRepo \in [Correct -> SUBSET EchoEntry]
      /\ echoReqRepo' \in [Correct -> SUBSET EchoEntry]
      /\ ShareReadyIf(Count(echos, m.root) >= EchoThreshold, i, m.root)
      /\ TryOutput(i, m.root, echos, readyReqRepo[i])
      /\ UNCHANGED <<contentLength, readyReqRepo, valReceived, inputPc>>
  BY <1>1 DEF HandleEchoRequest, TypeOK
<1>5. /\ \A j \in Correct : j # i => echoReqRepo'[j] = echoReqRepo[j]
      /\ echoReqRepo'[i] = echos
  BY <1>4
<1>6. /\ SingleVote'
      /\ VotesMarked'
      /\ msgs \subseteq msgs'
      /\ InputBegun'
      /\ Pending' = Pending
  <2>1. /\ SingleVote'
        /\ VotesMarked'
        /\ msgs \subseteq msgs'
        /\ \A x \in msgs' : x.type = "val" => x \in msgs
    BY <1>2, <1>4, ShareReadyVotes
  <2>2. InputBegun' /\ Pending' = Pending
    BY <1>4, <2>1 DEF IInv, InputBegun, Pending
  <2>. QED
    BY <2>1, <2>2
<1>7. \A j \in Correct : \A v \in delivered'[j] :
         \/ v \in delivered[j]
         \/ /\ j = i
            /\ v.root = m.root
            /\ v.len = contentLength[i]
            /\ Count(echos, m.root) >= EchoThreshold
            /\ v.root \in Codewords => v.basis = {}
  <2>1. echos \in SUBSET EchoEntry
    BY <1>4, <1>5
  <2>. QED
    BY <1>1, <1>2, <1>4, <2>1, TryOutputBacked
<1>8. LengthFirst'
  BY <1>2, <1>4, <1>5, <1>7 DEF IInv, LengthFirst
<1>9. EntriesSent'
  <2>1. ASSUME NEW j \in Correct, NEW e \in echoReqRepo'[j], e.src \in Correct
        PROVE  Echo(e.src, e.root, e.shard, contentLength'[j])
                 \in msgs' \cup Pending'
    <3>1. CASE e \in echoReqRepo[j]
      BY <2>1, <3>1, <1>4, <1>6 DEF IInv, EntriesSent
    <3>2. CASE j = i /\ e = entry
      BY <2>1, <3>2, <1>2, <1>3, <1>4, <1>6
    <3>. QED
      BY <2>1, <3>1, <3>2, <1>5
  <2>. QED
    BY <2>1 DEF EntriesSent
<1>10. DeliveredBacked'
  <2>1. ASSUME NEW j \in Correct, NEW v \in delivered'[j]
        PROVE  /\ v.len = contentLength'[j]
               /\ Count(echoReqRepo'[j], v.root) >= EchoThreshold
               /\ v.root \in Codewords => v.basis = {}
    <3>1. CASE v \in delivered[j]
      <4>1. /\ echoReqRepo[j] \subseteq echoReqRepo'[j]
            /\ \A e \in echoReqRepo'[j] : e.src \in Nodes
        BY <1>4, <1>5 DEF EchoEntry
      <4>2. /\ Count(echoReqRepo[j], v.root) <= Count(echoReqRepo'[j], v.root)
            /\ Count(echoReqRepo[j], v.root) \in Nat
            /\ Count(echoReqRepo'[j], v.root) \in Nat
        BY <4>1, CountGrows
      <4>3. EchoThreshold \in Int
        BY NodesFinite, NodesAssumption DEF EchoThreshold
      <4>. QED
        BY <3>1, <4>2, <4>3, <1>4 DEF IInv, DeliveredBacked
    <3>2. CASE v \notin delivered[j]
      BY <3>2, <2>1, <1>4, <1>5, <1>7
    <3>. QED
      BY <3>1, <3>2
  <2>. QED
    BY <2>1 DEF DeliveredBacked
<1>. QED
  BY <1>1, <1>6, <1>8, <1>9, <1>10 DEF IInv

LEMMA ReadyIInv ==
    ASSUME IInv, NEW i \in Correct, NEW m, HandleReadyRequest(i, m)
    PROVE  IInv'
<1>. DEFINE readys == readyReqRepo[i] \cup {[src |-> m.src, root |-> m.root]}
<1>1. TypeOK /\ TypeOK'
  BY ReadyTypeOK DEF IInv
<1>2. /\ m.root \in Roots
      /\ contentLength[i] \in Lengths
      /\ contentLength[i] # 0
  BY <1>1, ArrivingMessage, MessageFields, PayloadAssumption
     DEF HandleReadyRequest, Admitted
<1>3. /\ ShareReadyIf(Count(readys, m.root) >= ReadyThreshold, i, m.root)
      /\ TryOutput(i, m.root, echoReqRepo[i], readys)
      /\ UNCHANGED <<contentLength, echoReqRepo, valReceived, inputPc>>
  BY DEF HandleReadyRequest
<1>4. /\ SingleVote'
      /\ VotesMarked'
      /\ msgs \subseteq msgs'
      /\ InputBegun'
      /\ Pending' = Pending
  <2>1. /\ SingleVote'
        /\ VotesMarked'
        /\ msgs \subseteq msgs'
        /\ \A x \in msgs' : x.type = "val" => x \in msgs
    BY <1>2, <1>3, ShareReadyVotes
  <2>2. InputBegun' /\ Pending' = Pending
    BY <1>3, <2>1 DEF IInv, InputBegun, Pending
  <2>. QED
    BY <2>1, <2>2
<1>5. \A j \in Correct : \A v \in delivered'[j] :
         \/ v \in delivered[j]
         \/ /\ j = i
            /\ v.len = contentLength[i]
            /\ Count(echoReqRepo[i], v.root) >= EchoThreshold
            /\ v.root \in Codewords => v.basis = {}
  <2>1. echoReqRepo[i] \in SUBSET EchoEntry
    BY <1>1 DEF TypeOK
  <2>2. \A j \in Correct : \A v \in delivered'[j] :
         \/ v \in delivered[j]
         \/ /\ j = i
            /\ v.root = m.root
            /\ v.len = contentLength[i]
            /\ Count(echoReqRepo[i], m.root) >= EchoThreshold
            /\ v.root \in Codewords => v.basis = {}
    BY <1>1, <1>2, <1>3, <2>1, TryOutputBacked
  <2>. QED
    BY <2>2
<1>6. LengthFirst'
  BY <1>2, <1>3, <1>5 DEF IInv, LengthFirst
<1>7. EntriesSent'
  BY <1>3, <1>4 DEF IInv, EntriesSent
<1>8. DeliveredBacked'
  BY <1>3, <1>5 DEF IInv, DeliveredBacked
<1>. QED
  BY <1>1, <1>4, <1>6, <1>7, <1>8 DEF IInv

LEMMA Invariance == Spec => []IInv
<1>1. IInv /\ [Next]_vars => IInv'
  <2>. SUFFICES ASSUME IInv, [Next]_vars PROVE IInv'
    OBVIOUS
  <2>1. CASE InputStep
    BY <2>1, InputIInv
  <2>2. ASSUME NEW i \in Correct, NEW m \in msgs \cup FaultyTo[i], Receive(i, m)
        PROVE  IInv'
    BY <2>2, LengthIInv, ValueIInv, EchoIInv, ReadyIInv DEF Receive
  <2>3. CASE UNCHANGED vars
    BY <2>3 DEF vars, IInv, TypeOK, InputBegun, SingleVote, LengthFirst,
                VotesMarked, EntriesSent, Pending, DeliveredBacked
  <2>. QED
    BY <2>1, <2>2, <2>3 DEF Next
<1>. QED
  BY <1>1, InitIInv, PTL DEF Spec

\* Every reachable state is well typed (rbc.go: the fields of RBC and the
\* messages it sends), whatever the faulty nodes send.
THEOREM TypeCorrect == Spec => []TypeOK
<1>1. IInv => TypeOK
  BY DEF IInv
<1>. QED
  BY <1>1, Invariance, PTL

\* No correct node ever shares two ECHOs or two READYs (rbc.go: valReceived,
\* echoSent, readySent).
THEOREM VotesAreSingle == Spec => []SingleVote
<1>1. IInv => SingleVote
  BY DEF IInv
<1>. QED
  BY <1>1, Invariance, PTL

\* While an ECHO is pending its sender has shared none.
LEMMA PendingUnshared ==
    ASSUME IInv, NEW p \in Pending
    PROVE  /\ Pending = {p}
           /\ \A m \in msgs : m.type = "echo" => m.src # p.src
<1>1. /\ p = Echo(Proposer, Input.root, InputShard, contentLength[Proposer])
      /\ inputPc \in {"echo", "ready", "share"}
  BY DEF Pending
<1>2. Proposer \in Correct /\ ~ valReceived[Proposer]
  BY <1>1 DEF IInv, InputBegun
<1>. QED
  BY <1>1, <1>2 DEF IInv, VotesMarked, Echo, Pending

\* Two quorums of ECHOs share a correct node, which sent one ECHO, for one root
\* and under one length.
LEMMA QuorumsAgree == IInv => Agreement
<1>. SUFFICES ASSUME IInv,
                     NEW i \in Correct, NEW j \in Correct,
                     NEW v \in delivered[i], NEW w \in delivered[j]
              PROVE  /\ v.root = w.root
                     /\ v.len = w.len
                     /\ v.root \in Codewords => v = w
  BY DEF Agreement
<1>. DEFINE Q1 == Voters(echoReqRepo[i], v.root)
            Q2 == Voters(echoReqRepo[j], w.root)
<1>1. Q1 \subseteq Nodes /\ Q2 \subseteq Nodes
  BY DEF IInv, TypeOK, EchoEntry, Voters
<1>2. Cardinality(Q1) >= N - F /\ Cardinality(Q2) >= N - F
  BY DEF IInv, DeliveredBacked, Count, EchoThreshold
<1>3. PICK k \in Q1 \cap Q2 : k \in Correct
  <2>. HIDE DEF Q1, Q2
  <2>. QED
    BY <1>1, <1>2, QuorumIntersection
<1>4. PICK e1 \in echoReqRepo[i] : e1.src = k /\ e1.root = v.root
  BY <1>3 DEF Voters
<1>5. PICK e2 \in echoReqRepo[j] : e2.src = k /\ e2.root = w.root
  BY <1>3 DEF Voters
<1>6. /\ Echo(k, v.root, e1.shard, v.len) \in msgs \cup Pending
      /\ Echo(k, w.root, e2.shard, w.len) \in msgs \cup Pending
  BY <1>3, <1>4, <1>5 DEF IInv, EntriesSent, DeliveredBacked
<1>7. v.root = w.root /\ v.len = w.len
  BY <1>6, PendingUnshared DEF IInv, SingleVote, Echo
<1>8. v.root \in Codewords => v.basis = w.basis
  BY <1>7 DEF IInv, DeliveredBacked
<1>9. v \in Value /\ w \in Value
  BY DEF IInv, TypeOK
<1>. QED
  BY <1>7, <1>8, <1>9 DEF Value

\* Correct nodes never deliver different payloads, for every number of nodes,
\* every payload set and every behaviour of at most F faulty nodes that speak
\* for themselves (docs/RBC-EN.md: Agreement).
THEOREM AgreementHolds == Spec => []Agreement
BY Invariance, QuorumsAgree, PTL
=============================================================================
