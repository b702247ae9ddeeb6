-------------------------------- MODULE RBC --------------------------------
(***************************************************************************)
(* One instance of reliable broadcast (rbc/rbc.go): every node of Nodes    *)
(* runs an RBC object for the same proposer.                               *)
(*                                                                         *)
(* A payload is named by the Merkle root of its shards, a shard by its     *)
(* position in the Merkle tree, so a request with a valid branch carries a *)
(* position and one with a broken branch carries BadShard.  The messages   *)
(* of correct nodes are kept in the monotone set msgs: a message that is   *)
(* in the set may reach its receiver at any later time, in any order, and  *)
(* more than once.  FaultyTo[i] holds the messages faulty nodes may send   *)
(* to i under their own name; none of them has to arrive.                  *)
(***************************************************************************)
EXTENDS Integers, FiniteSets

CONSTANTS
    Nodes,       \* the members of the network
    Faulty,      \* those whose messages are not governed by the code
    Proposer,    \* the proposer of this instance
    F,           \* rbc.f
    Roots,       \* Merkle roots of the payloads in play
    Codewords,   \* the roots whose leaves are an output of enc.Encode
    Leaf,        \* Leaf[r][k]: position GetMerklePath finds for shard k of r
    Lengths,     \* content lengths
    Input,       \* what ACS gives the proposer: [root, len]
    ConnOrders,  \* the orders in which GetAll may list the connections
    FaultyTo     \* messages faulty nodes may send to each correct node

VARIABLES
    contentLength,   \* 0 until the first message or the input sets it
    echoReqRepo,     \* saved ECHO requests, by sender
    readyReqRepo,    \* saved READY requests, by sender
    valReceived,     \* set together with echoSent, which it stands for too
    readySent,
    done,
    delivered,       \* the values put on the data channel
    inputPc,         \* where HandleInput is at the proposer
    msgs             \* messages sent by correct nodes

vars == <<contentLength, echoReqRepo, readyReqRepo, valReceived, readySent,
          done, delivered, inputPc, msgs>>

N == Cardinality(Nodes)
Correct == Nodes \ Faulty

NumDataShards == N - 2 * F
\* Slips the runs detect: thresholds that are one F off.
EchoThresholdAll == N
EchoThresholdLow == F + 1
ReadyThresholdLow == F
ReadyThresholdHigh == 2 * F + 1
EchoThreshold == N - F
ReadyThreshold == F + 1
OutputThreshold == 2 * F + 1

Positions == 0 .. (N - 1)
BadShard == -1
Shards == Positions \cup {BadShard}

ValMsg == [type : {"val"}, src : Nodes, dst : Nodes, root : Roots,
           shard : Shards, len : Lengths]
EchoMsg == [type : {"echo"}, src : Nodes, root : Roots, shard : Shards,
            len : Lengths]
ReadyMsg == [type : {"ready"}, src : Nodes, root : Roots, len : Lengths]
Message == ValMsg \cup EchoMsg \cup ReadyMsg

ASSUME NodesAssumption ==
    /\ IsFiniteSet(Nodes)
    /\ Faulty \subseteq Nodes
    /\ Proposer \in Nodes
    /\ F \in Nat
    /\ N > 3 * F
    /\ Cardinality(Faulty) <= F

ASSUME PayloadAssumption ==
    /\ Codewords \subseteq Roots
    /\ Leaf \in [Roots -> [Positions -> Positions]]
    /\ Lengths \subseteq Nat \ {0}
    /\ Input \in [root : Codewords, len : Lengths]
    /\ ConnOrders \subseteq [Nodes \ {Proposer} -> Positions \ {0}]
    /\ \A order \in ConnOrders : \A i, j \in Nodes \ {Proposer} :
          order[i] = order[j] => i = j

\* Faulty nodes speak for themselves only, and only the proposer sends VALs.
ASSUME FaultyAssumption ==
    /\ FaultyTo \in [Correct -> SUBSET Message]
    /\ \A i \in Correct : \A m \in FaultyTo[i] :
          /\ m.src \in Faulty
          /\ m.type = "val" => m.src = Proposer /\ m.dst = i

EchoEntry == [src : Nodes, root : Roots, shard : Positions]
ReadyEntry == [src : Nodes, root : Roots]
Value == [root : Roots, len : Lengths, basis : SUBSET Positions]

-----------------------------------------------------------------------------
(* Helpers over a repository: a set of entries, one for each sender.       *)

Find(repo, sender) == \E e \in repo : e.src = sender
Voters(repo, root) == {e.src : e \in {x \in repo : x.root = root}}
Count(repo, root) == Cardinality(Voters(repo, root))

\* The positions filled in before Reconstruct is called.
ShardsOf(echos, root) == {e.shard : e \in {x \in echos : x.root = root}}

Lowest(S, k) == {s \in S : Cardinality({t \in S : t < s}) < k}

\* Reconstruct needs NumDataShards distinct shards and takes the first ones;
\* the leaves of a codeword give one value whichever of them are taken.
Decodable(echos, root) == Cardinality(ShardsOf(echos, root)) >= NumDataShards
Decode(echos, root, len) ==
    [root |-> root, len |-> len,
     basis |-> IF root \in Codewords
               THEN {} ELSE Lowest(ShardsOf(echos, root), NumDataShards)]

\* Slip: the Merkle branch is not looked at.
ValidateMessageAlways(m) == TRUE
ValidateMessage(m) == m.shard \in Positions

Echo(i, root, shard, len) ==
    [type |-> "echo", src |-> i, root |-> root, shard |-> shard, len |-> len]
Ready(i, root, len) ==
    [type |-> "ready", src |-> i, root |-> root, len |-> len]

\* Slip: every connection is handed the first request.
DistributionOfOne(root, len, order) ==
    {[type |-> "val", src |-> Proposer, dst |-> j, root |-> root,
      shard |-> Leaf[root][0], len |-> len] : j \in DOMAIN order}

\* makeRequest and DistributeMessage: the proposer keeps the first request.
Distribution(root, len, order) ==
    {[type |-> "val", src |-> Proposer, dst |-> j, root |-> root,
      shard |-> Leaf[root][order[j]], len |-> len] : j \in DOMAIN order}

\* m can be read from one of i's connections.
Arrives(i, m) ==
    \/ m \in FaultyTo[i]
    \/ /\ m \in msgs
       /\ m.src # i
       /\ m.type = "val" => m.dst = i

-----------------------------------------------------------------------------
Init ==
    /\ contentLength = [i \in Correct |-> 0]
    /\ echoReqRepo = [i \in Correct |-> {}]
    /\ readyReqRepo = [i \in Correct |-> {}]
    /\ valReceived = [i \in Correct |-> FALSE]
    /\ readySent = [i \in Correct |-> FALSE]
    /\ done = [i \in Correct |-> FALSE]
    /\ delivered = [i \in Correct |-> {}]
    /\ inputPc = "none"
    /\ msgs = {}

\* HandleMessage, before the request is queued: the first message to arrive,
\* whatever becomes of it later, fixes the length of the payload.
SetContentLength(i, m) ==
    /\ Arrives(i, m)
    /\ contentLength[i] = 0
    /\ contentLength' = [contentLength EXCEPT ![i] = m.len]
    /\ UNCHANGED <<echoReqRepo, readyReqRepo, valReceived, readySent, done,
                   delivered, inputPc, msgs>>

\* Slip: requests with another content length are not turned away.
AdmittedAnyLength(i, m) == Arrives(i, m) /\ contentLength[i] # 0

\* HandleMessage lets m through to the request loop.
Admitted(i, m) == Arrives(i, m) /\ contentLength[i] = m.len

SaveOwnEcho(i, root, shard) ==
    echoReqRepo' = [echoReqRepo EXCEPT ![i] =
        @ \cup {[src |-> i, root |-> root, shard |-> shard]}]

SaveOwnReady(i, root) ==
    readyReqRepo' = [readyReqRepo EXCEPT ![i] = @ \cup {[src |-> i, root |-> root]}]

ShareOwnEcho(i, root, shard) ==
    /\ valReceived' = [valReceived EXCEPT ![i] = TRUE]
    /\ msgs' = msgs \cup {Echo(i, root, shard, contentLength[i])}

\* Own ECHO and own READY are saved, only the ECHO is shared; no threshold is
\* looked at.
HandleValueRequest(i, m) ==
    /\ m.type = "val"
    /\ Admitted(i, m)
    /\ ~ valReceived[i]
    /\ ValidateMessage(m)
    /\ SaveOwnEcho(i, m.root, m.shard)
    /\ SaveOwnReady(i, m.root)
    /\ ShareOwnEcho(i, m.root, m.shard)
    /\ UNCHANGED <<contentLength, readySent, done, delivered, inputPc>>

\* The shard the proposer keeps.
InputShard == Leaf[Input.root][0]

\* The proposer's HandleInput runs in the goroutine of its caller, while the
\* request loop handles what arrives: first the length is set, if none is ...
HandleInput ==
    /\ Proposer \in Correct
    /\ inputPc = "none"
    /\ ~ valReceived[Proposer]
    /\ inputPc' = "echo"
    /\ contentLength' = [contentLength EXCEPT ![Proposer] =
                              IF @ = 0 THEN Input.len ELSE @]
    /\ UNCHANGED <<echoReqRepo, readyReqRepo, valReceived, readySent, done,
                   delivered, msgs>>

\* ... then handleValueRequest takes its steps ...
InputEcho ==
    /\ inputPc = "echo"
    /\ inputPc' = "ready"
    /\ SaveOwnEcho(Proposer, Input.root, InputShard)
    /\ UNCHANGED <<contentLength, readyReqRepo, valReceived, readySent, done,
                   delivered, msgs>>

InputReady ==
    /\ inputPc = "ready"
    /\ inputPc' = "share"
    /\ SaveOwnReady(Proposer, Input.root)
    /\ UNCHANGED <<contentLength, echoReqRepo, valReceived, readySent, done,
                   delivered, msgs>>

InputShare ==
    /\ inputPc = "share"
    /\ inputPc' = "distribute"
    /\ ShareOwnEcho(Proposer, Input.root, InputShard)
    /\ UNCHANGED <<contentLength, echoReqRepo, readyReqRepo, readySent, done,
                   delivered>>

\* ... and the others get their VALs.
DistributeMessage ==
    /\ inputPc = "distribute"
    /\ inputPc' = "done"
    /\ \E order \in ConnOrders :
          msgs' = msgs \cup Distribution(Input.root, contentLength[Proposer], order)
    /\ UNCHANGED <<contentLength, echoReqRepo, readyReqRepo, valReceived,
                   readySent, done, delivered>>

InputStep ==
    \/ HandleInput
    \/ InputEcho
    \/ InputReady
    \/ InputShare
    \/ DistributeMessage

\* Slip: readySent is not looked at.
ShareReadyAgain(enough, i, root) ==
    IF enough
    THEN /\ readySent' = [readySent EXCEPT ![i] = TRUE]
         /\ msgs' = msgs \cup {Ready(i, root, contentLength[i])}
    ELSE UNCHANGED <<readySent, msgs>>

\* Own READY is shared but not saved.
ShareReadyIf(enough, i, root) ==
    IF enough /\ ~ readySent[i]
    THEN /\ readySent' = [readySent EXCEPT ![i] = TRUE]
         /\ msgs' = msgs \cup {Ready(i, root, contentLength[i])}
    ELSE UNCHANGED <<readySent, msgs>>

\* The output test that ends both handlers; a failed decode leaves done unset.
TryOutput(i, root, echos, readys) ==
    IF /\ ~ done[i]
       /\ Count(readys, root) >= OutputThreshold
       /\ Count(echos, root) >= EchoThreshold
       /\ Decodable(echos, root)
    THEN /\ done' = [done EXCEPT ![i] = TRUE]
         /\ delivered' = [delivered EXCEPT ![i] =
                @ \cup {Decode(echos, root, contentLength[i])}]
    ELSE UNCHANGED <<done, delivered>>

HandleEchoRequest(i, m) ==
    /\ m.type = "echo"
    /\ Admitted(i, m)
    /\ ~ Find(echoReqRepo[i], m.src)
    /\ ValidateMessage(m)
    /\ LET echos == echoReqRepo[i] \cup
                      {[src |-> m.src, root |-> m.root, shard |-> m.shard]}
       IN  /\ echoReqRepo' = [echoReqRepo EXCEPT ![i] = echos]
           /\ ShareReadyIf(Count(echos, m.root) >= EchoThreshold, i, m.root)
           /\ TryOutput(i, m.root, echos, readyReqRepo[i])
    /\ UNCHANGED <<contentLength, readyReqRepo, valReceived, inputPc>>

HandleReadyRequest(i, m) ==
    /\ m.type = "ready"
    /\ Admitted(i, m)
    /\ ~ Find(readyReqRepo[i], m.src)
    /\ LET readys == readyReqRepo[i] \cup {[src |-> m.src, root |-> m.root]}
       IN  /\ readyReqRepo' = [readyReqRepo EXCEPT ![i] = readys]
           /\ ShareReadyIf(Count(readys, m.root) >= ReadyThreshold, i, m.root)
           /\ TryOutput(i, m.root, echoReqRepo[i], readys)
    /\ UNCHANGED <<contentLength, echoReqRepo, valReceived, inputPc>>

Receive(i, m) ==
    \/ SetContentLength(i, m)
    \/ HandleValueRequest(i, m)
    \/ HandleEchoRequest(i, m)
    \/ HandleReadyRequest(i, m)

Next ==
    \/ InputStep
    \/ \E i \in Correct : \E m \in msgs \cup FaultyTo[i] : Receive(i, m)

Spec == Init /\ [][Next]_vars

\* ACS gives the proposer its input once, and the connections of a correct
\* node keep handing the messages of correct nodes to its request loop.
\* Nothing makes a message of a faulty node arrive.
Fairness ==
    /\ WF_vars(InputStep)
    /\ \A i \in Correct : WF_vars(\E m \in msgs : Receive(i, m))

FairSpec == Spec /\ Fairness

-----------------------------------------------------------------------------
(* Properties.                                                             *)

\* The shape of every variable, and that nothing leaves a correct node with a
\* broken Merkle branch or before its content length is known (rbc.go: RBC).
TypeOK ==
    /\ contentLength \in [Correct -> Lengths \cup {0}]
    /\ echoReqRepo \in [Correct -> SUBSET EchoEntry]
    /\ readyReqRepo \in [Correct -> SUBSET ReadyEntry]
    /\ valReceived \in [Correct -> BOOLEAN]
    /\ readySent \in [Correct -> BOOLEAN]
    /\ done \in [Correct -> BOOLEAN]
    /\ delivered \in [Correct -> SUBSET Value]
    /\ inputPc \in {"none", "echo", "ready", "share", "distribute", "done"}
    /\ msgs \subseteq {m \in Message : m.src \in Correct}

\* A correct node never shares two different ECHOs, nor two different READYs,
\* in whatever order VAL, ECHO and READY requests reach its handlers: the
\* quorum arguments of the protocol count nodes, not messages.
SingleVote ==
    \A m1, m2 \in msgs :
        /\ m1.type = m2.type
        /\ m1.type # "val"
        /\ m1.src = m2.src
        => m1 = m2

\* What any two correct nodes hand to their data channels has one Merkle root
\* and one length, and is one value if the proposer encoded it as
\* enc.Encode does; equivocating VALs, ECHOs and READYs do not change that
\* (docs/RBC-EN.md: Agreement).
Agreement ==
    \A i, j \in Correct : \A v \in delivered[i], w \in delivered[j] :
        /\ v.root = w.root
        /\ v.len = w.len
        /\ v.root \in Codewords => v = w

\* A delivered value is backed by N-2F correct nodes that shared an ECHO for
\* its root under the delivered length: the requests of the faulty nodes and
\* the node's own entries never make up the output test by themselves.
OutputHeldByQuorum ==
    \A i \in Correct : \A v \in delivered[i] :
        Cardinality({j \in Correct : \E m \in msgs :
                        /\ m.type = "echo"
                        /\ m.src = j
                        /\ m.root = v.root
                        /\ m.len = v.len}) >= N - 2 * F

\* With a correct proposer, no correct node votes for, or delivers, anything
\* but the payload HandleInput was given, whatever ECHOs and READYs for other
\* roots it receives (docs/RBC-EN.md: Validity).
OnlyTheInput ==
    Proposer \in Correct =>
        /\ \A m \in msgs : m.root = Input.root
        /\ \A i \in Correct : \A v \in delivered[i] : v.root = Input.root

\* With a correct proposer, the shards in the ECHOs of correct nodes are
\* enough to rebuild every delivered value: a node that has not delivered
\* yet never depends on a faulty node for data (the data it lacks is in
\* messages already shared).
Recoverable ==
    (Proposer \in Correct /\ \E i \in Correct : delivered[i] # {}) =>
        Cardinality({m.shard : m \in {x \in msgs : x.type = "echo"}})
            >= NumDataShards

\* i has saved all that the output test asks for, but its own votes came last,
\* and handleValueRequest does not try to output.
HoldsOutput(i) ==
    /\ Count(echoReqRepo[i], Input.root) >= EchoThreshold
    /\ Count(readyReqRepo[i], Input.root) >= OutputThreshold
    /\ Decodable(echoReqRepo[i], Input.root)

\* Every correct node delivers a correct proposer's input, or holds all it takes,
\* whatever the faulty nodes vote for and however late its VAL comes
\* (docs/RBC-EN.md: Validity; rbc.go: handleValueRequest).
Validity ==
    <>(\A i \in Correct :
          \/ \E v \in delivered[i] : v.root = Input.root /\ v.len = Input.len
          \/ HoldsOutput(i))

\* Once F+1 correct nodes have shared READY(r) under one length, every correct
\* node shares a READY in the end, unless it has pinned another length
\* (handleReadyRequest: readyThreshold).  The messages stay, so []<> is enough.
ReadySpreads ==
    []<>(\A r \in Roots, l \in Lengths, i \in Correct :
            Cardinality({j \in Correct : Ready(j, r, l) \in msgs}) >= F + 1
                => readySent[i] \/ contentLength[i] # l)

-----------------------------------------------------------------------------
(* What the documents say and some instance refutes.                       *)

\* If a correct node delivers, every correct node delivers
\* (docs/RBC-EN.md:50; the output test of rbc.go asks for N-F ECHOs and counts
\* the own READY only after a VAL).
Totality ==
    \A i, j \in Correct : (delivered[i] # {}) ~> (delivered[j] # {})

\* What is delivered for a correct proposer is its whole input
\* (docs/RBC-EN.md:51); the length comes from the first message to arrive.
WholeInput ==
    Proposer \in Correct => \A i \in Correct : \A v \in delivered[i] :
        v.root = Input.root /\ v.len = Input.len
=============================================================================
