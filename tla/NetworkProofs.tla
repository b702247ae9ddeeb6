--------------------------- MODULE NetworkProofs ---------------------------
(***************************************************************************)
(* Proofs about Network, for any nodes, broadcasts and capacities: the     *)
(* member map follows the pool, nobody gets a message of a broadcast       *)
(* twice, and what Close may leave open.                                   *)
(***************************************************************************)
EXTENDS Network, SequenceTheorems, FiniteSetTheorems, TLAPS

-----------------------------------------------------------------------------
(* The inductive invariant.                                                *)

Connections ==
    [from : Nodes, to : Nodes, up : BOOLEAN, dialled : {"open", "closed"},
     accepted : {"no", "open", "closed"}, queue : Seq(Messages)]

\* Which connection Connect has at hand.
AtHand(n) == connectPc[n].at \in {"add", "member"}

Shapes ==
    /\ scenario \in Scenarios
    /\ listenPc \in [Nodes -> {"off", "start", "serve", "ended"}]
    /\ lis \in [Nodes -> {"none", "open", "closed"}]
    /\ closePc \in [Nodes -> {"open", "get", "loop", "lock", "done"}]
    /\ conns \in Seq(Connections)
    /\ connectPc \in [Nodes -> [at : {"out", "add", "member"}, id : Nat]]
    /\ connMap \in [Nodes -> [Nodes -> Nat]]
    /\ memberMap \in [Nodes -> SUBSET Nodes]
    /\ calls \in [Sharers -> Nat]
    /\ job \in [Sharers -> Seq([id : Nat, msg : Messages])]
    /\ served \in [Nodes -> Seq(Messages)]
    /\ snapshot \in [Nodes -> Seq(Nat)]

\* What is kept of connections, in the pool and on the way, is of connections there
\* are, to where it says.
Places ==
    /\ \A c \in Ids :
          /\ <<conns[c].from, conns[c].to>> \in scenario.dials
          /\ Len(conns[c].queue) <= QueueSize
    /\ late \subseteq Ids
    /\ \A n \in Nodes :
          AtHand(n) => connectPc[n].id \in Ids /\ conns[connectPc[n].id].from = n
    /\ \A g \in Sharers : \A k \in DOMAIN job[g] : job[g][k].id \in Ids
    /\ \A n \in Nodes : \A k \in DOMAIN snapshot[n] : snapshot[n][k] \in Ids
    /\ \A n, t \in Nodes : connMap[n][t] # 0 =>
          /\ connMap[n][t] \in Ids
          /\ conns[connMap[n][t]].from = n
          /\ conns[connMap[n][t]].to = t

\* Between Add of the pool and Add of the member map the new address may be
\* missing, and no other.
Members ==
    \A n, t \in Nodes :
       IF connectPc[n].at = "member" /\ t = conns[connectPc[n].id].to
       THEN connMap[n][t] # 0
       ELSE t \in memberMap[n] <=> connMap[n][t] # 0

TypeInv == Shapes /\ Places /\ Members

\* Two messages are not of one broadcast, or go to two nodes and are not of one
\* place in a list.
Apart(x, n, y, m) ==
    (x.src = y.src /\ x.call = y.call) => n # m /\ (x.part # y.part \/ x.part = 0)

Away(x, n, q, m) == \A j \in DOMAIN q : Apart(x, n, q[j], m)

Disjoint(p, n, q, m) == \A i \in DOMAIN p : Away(p[i], n, q, m)

Spread(q, n) ==
    \A i, j \in DOMAIN q : i # j => Apart(q[i], n, q[j], n)

Target(g, k) == conns[job[g][k].id].to

\* What a sharer still has to send is of its last broadcast, each entry for another
\* node.
JobApart ==
    \A g \in Sharers : \A k \in DOMAIN job[g] :
       /\ job[g][k].msg.src = g
       /\ job[g][k].msg.call = calls[g]
       /\ \A l \in DOMAIN job[g] : k # l =>
             Apart(job[g][k].msg, Target(g, k), job[g][l].msg, Target(g, l))
       /\ \A c \in Ids :
             Away(job[g][k].msg, Target(g, k), conns[c].queue, conns[c].to)
       /\ \A n \in Nodes : Away(job[g][k].msg, Target(g, k), served[n], n)

QueueApart ==
    \A c \in Ids :
       /\ Spread(conns[c].queue, conns[c].to)
       /\ \A d \in Ids : c # d =>
             Disjoint(conns[c].queue, conns[c].to, conns[d].queue, conns[d].to)
       /\ \A n \in Nodes : Disjoint(conns[c].queue, conns[c].to, served[n], n)

ServedApart ==
    \A n \in Nodes :
       /\ Spread(served[n], n)
       /\ \A m \in Nodes : n # m => Disjoint(served[n], n, served[m], m)

Known(q) == \A i \in DOMAIN q : q[i].call <= calls[q[i].src]

\* No message is of a broadcast that is still to come.
Begun ==
    /\ \A c \in Ids : Known(conns[c].queue)
    /\ \A n \in Nodes : Known(served[n])

EachInv == JobApart /\ QueueApart /\ ServedApart /\ Begun

\* Close is at the lock of a connection whose flag it has set, and Connect adds
\* the last connection its node has dialled.
ClosePlaces ==
    /\ \A n \in Nodes :
          closePc[n] = "lock" =>
              snapshot[n] # <<>> /\ conns[Head(snapshot[n])].dialled = "closed"
    /\ \A n \in Nodes :
          connectPc[n].at = "add" =>
              \A c \in Ids : conns[c].from = n => c <= connectPc[n].id

\* Where a connection that is open can still be found.
Found(c) ==
    LET n == conns[c].from IN
    \/ \E d \in Ids : d > c /\ conns[d].from = n /\ conns[d].to = conns[c].to
    \/ c \in late
    \/ connectPc[n].at = "add" /\ connectPc[n].id = c
    \/ closePc[n] \in {"open", "get"} /\ connMap[n][conns[c].to] = c
    \/ closePc[n] \in {"loop", "lock"} /\ \E k \in DOMAIN snapshot[n] : snapshot[n][k] = c

LeakInv ==
    /\ ClosePlaces
    /\ \A c \in Ids : conns[c].dialled = "open" => Found(c)

IInv == TypeInv /\ EachInv /\ LeakInv

-----------------------------------------------------------------------------
(* Sequences, and the connections as one.                                  *)

LEMMA TailFacts ==
    ASSUME NEW S, NEW q \in Seq(S), q # <<>>
    PROVE  /\ Head(q) \in S
           /\ 1 \in DOMAIN q /\ Head(q) = q[1]
           /\ Tail(q) \in Seq(S)
           /\ Len(Tail(q)) = Len(q) - 1
           /\ \A k \in DOMAIN Tail(q) :
                 k # 0 /\ k + 1 \in DOMAIN q /\ Tail(q)[k] = q[k + 1]
<1>1. /\ Head(q) \in S
      /\ Tail(q) \in Seq(S)
      /\ Len(Tail(q)) = Len(q) - 1
      /\ \A k \in 1 .. Len(Tail(q)) : Tail(q)[k] = q[k + 1]
  BY HeadTailProperties
<1>2. DOMAIN q = 1 .. Len(q) /\ DOMAIN Tail(q) = 1 .. Len(Tail(q)) /\ Len(q) \in Nat
  BY <1>1, LenProperties
<1>3. Len(q) # 0 /\ Head(q) = q[1]
  OBVIOUS
<1>. QED
  BY <1>1, <1>2, <1>3

LEMMA AppendFacts ==
    ASSUME NEW S, NEW q \in Seq(S), NEW e \in S
    PROVE  /\ Append(q, e) \in Seq(S)
           /\ Len(Append(q, e)) = Len(q) + 1
           /\ Len(q) \in Nat
           /\ DOMAIN q = 1 .. Len(q)
           /\ DOMAIN Append(q, e) = 1 .. Len(q) + 1
           /\ Append(q, e)[Len(q) + 1] = e
           /\ \A k \in DOMAIN q : Append(q, e)[k] = q[k]
           /\ \A k \in DOMAIN Append(q, e) : k \in DOMAIN q \/ k = Len(q) + 1
OBVIOUS

\* A step that changes one connection and not where it leads.
LEMMA ExceptConn ==
    ASSUME conns \in Seq(Connections), NEW c \in Ids, NEW e \in Connections
    PROVE  /\ [conns EXCEPT ![c] = e] \in Seq(Connections)
           /\ DOMAIN [conns EXCEPT ![c] = e] = Ids
           /\ [conns EXCEPT ![c] = e][c] = e
           /\ \A d \in Ids \ {c} : [conns EXCEPT ![c] = e][d] = conns[d]
<1>1. Ids = 1 .. Len(conns)
  BY LenProperties DEF Ids
<1>. QED
  BY <1>1, ExceptSeq DEF Ids

LEMMA ConnType ==
    ASSUME conns \in Seq(Connections)
    PROVE  /\ Ids = 1 .. Len(conns)
           /\ Len(conns) \in Nat
           /\ \A c \in Ids : conns[c] \in Connections
BY LenProperties DEF Ids

\* The connections lead where they led, with the messages they had, and none opens.
KeepsQueues ==
    /\ conns' \in Seq(Connections)
    /\ Ids' = Ids
    /\ \A c \in Ids :
          /\ conns'[c].from = conns[c].from
          /\ conns'[c].to = conns[c].to
          /\ conns'[c].queue = conns[c].queue
          /\ conns'[c].dialled = "open" => conns[c].dialled = "open"

LEMMA ExceptKeepsQueues ==
    ASSUME Shapes, NEW c \in Ids, NEW e \in Connections,
           conns' = [conns EXCEPT ![c] = e],
           e.from = conns[c].from, e.to = conns[c].to, e.queue = conns[c].queue,
           e.dialled = "open" => conns[c].dialled = "open"
    PROVE  KeepsQueues
<1>1. /\ conns' \in Seq(Connections)
      /\ DOMAIN conns' = Ids
      /\ conns'[c] = e
      /\ \A d \in Ids \ {c} : conns'[d] = conns[d]
  BY ExceptConn DEF Shapes
<1>. QED
  BY <1>1 DEF KeepsQueues, Ids

\* What servers, readers and Close do to connections leaves the queues alone.
LEMMA QuietSteps ==
    ASSUME IInv,
           \/ UNCHANGED conns
           \/ \E n \in Nodes : ServeEnds(n) \/ CloseFlag(n) \/ CloseStream(n)
           \/ \E c \in Ids : Notice(c) \/ StreamBreaks(c)
    PROVE  KeepsQueues
<1>1. Shapes /\ Places /\ ClosePlaces
  BY DEF IInv, TypeInv, LeakInv
<1>2. /\ conns \in Seq(Connections)
      /\ Ids = 1 .. Len(conns)
      /\ Len(conns) \in Nat
      /\ \A c \in Ids : conns[c] \in Connections
  BY <1>1, ConnType DEF Shapes
<1>3. CASE UNCHANGED conns
  BY <1>2, <1>3 DEF KeepsQueues, Ids
<1>4. ASSUME NEW n \in Nodes, ServeEnds(n) PROVE KeepsQueues
  <2>1. conns' = [c \in Ids |-> IF conns[c].to = n
                                THEN [conns[c] EXCEPT !.up = FALSE]
                                ELSE conns[c]]
    BY <1>4 DEF ServeEnds
  <2>2. \A c \in Ids : /\ [conns[c] EXCEPT !.up = FALSE] \in Connections
                       /\ [conns[c] EXCEPT !.up = FALSE].from = conns[c].from
                       /\ [conns[c] EXCEPT !.up = FALSE].to = conns[c].to
                       /\ [conns[c] EXCEPT !.up = FALSE].queue = conns[c].queue
                       /\ [conns[c] EXCEPT !.up = FALSE].dialled = conns[c].dialled
    BY <1>2 DEF Connections
  <2>3. conns' \in [1 .. Len(conns) -> Connections]
    BY <1>2, <2>1, <2>2
  <2>4. conns' \in Seq(Connections)
    BY <1>2, <2>3, SeqDef
  <2>. QED
    BY <2>1, <2>2, <2>4 DEF KeepsQueues, Ids
<1>5. ASSUME NEW c \in Ids, NEW e \in Connections,
             conns' = [conns EXCEPT ![c] = e],
             e.from = conns[c].from, e.to = conns[c].to,
             e.queue = conns[c].queue,
             e.dialled = "open" => conns[c].dialled = "open"
      PROVE  KeepsQueues
  BY <1>1, <1>5, ExceptKeepsQueues
<1>6. ASSUME NEW c \in Ids, Notice(c) \/ StreamBreaks(c) PROVE KeepsQueues
  <2>1. \E e \in {[conns[c] EXCEPT !.accepted = "open"],
                  [conns[c] EXCEPT !.accepted = "closed"],
                  [conns[c] EXCEPT !.dialled = "closed"],
                  [conns[c] EXCEPT !.up = FALSE]} :
           conns' = [conns EXCEPT ![c] = e]
    BY <1>6 DEF Notice, Accept, AcceptedFails, DialledFails, StreamBreaks
  <2>2. \A e \in {[conns[c] EXCEPT !.accepted = "open"],
                  [conns[c] EXCEPT !.accepted = "closed"],
                  [conns[c] EXCEPT !.dialled = "closed"],
                  [conns[c] EXCEPT !.up = FALSE]} :
           /\ e \in Connections
           /\ e.from = conns[c].from /\ e.to = conns[c].to
           /\ e.queue = conns[c].queue
           /\ e.dialled = "open" => conns[c].dialled = "open"
    BY <1>2 DEF Connections
  <2>. QED
    BY <2>1, <2>2, <1>5
<1>7. ASSUME NEW n \in Nodes, CloseFlag(n) \/ CloseStream(n) PROVE KeepsQueues
  <2>1. snapshot[n] # <<>>
    BY <1>1, <1>7 DEF CloseFlag, CloseStream, ClosePlaces
  <2>2. Head(snapshot[n]) \in Ids
    BY <1>1, <2>1, TailFacts DEF Shapes, Places
  <2>3. \/ UNCHANGED conns
        \/ \E e \in {[conns[Head(snapshot[n])] EXCEPT !.dialled = "closed"],
                     [conns[Head(snapshot[n])] EXCEPT !.up = FALSE]} :
              conns' = [conns EXCEPT ![Head(snapshot[n])] = e]
    BY <1>7 DEF CloseFlag, CloseStream
  <2>4. \A e \in {[conns[Head(snapshot[n])] EXCEPT !.dialled = "closed"],
                  [conns[Head(snapshot[n])] EXCEPT !.up = FALSE]} :
           /\ e \in Connections
           /\ e.from = conns[Head(snapshot[n])].from
           /\ e.to = conns[Head(snapshot[n])].to
           /\ e.queue = conns[Head(snapshot[n])].queue
           /\ e.dialled = "open" => conns[Head(snapshot[n])].dialled = "open"
    BY <1>2, <2>2 DEF Connections
  <2>. QED
    BY <1>3, <1>5, <2>2, <2>3, <2>4
<1>. QED
  BY <1>3, <1>4, <1>6, <1>7

\* GetAll lists every connection of the pool once, each to another node.
LEMMA GetAllFacts ==
    ASSUME Shapes, Places, NEW n \in Nodes, NEW q \in GetAll(n)
    PROVE  /\ q \in Seq(Nat)
           /\ \A k \in DOMAIN q : q[k] \in Ids /\ conns[q[k]].from = n
           /\ \A k, l \in DOMAIN q : k # l => conns[q[k]].to # conns[q[l]].to
           /\ \A t \in Nodes :
                 connMap[n][t] # 0 => \E k \in DOMAIN q : q[k] = connMap[n][t]
<1> DEFINE pool == Range(connMap[n]) \ {0}
           size == Cardinality(pool)
<1>1. connMap[n] \in [Nodes -> Nat]
  BY DEF Shapes
<1>2. IsFiniteSet(pool)
  <2>1. connMap[n] \in Surjection(Nodes, Range(connMap[n]))
    BY <1>1 DEF Surjection, Range
  <2>2. IsFiniteSet(Range(connMap[n]))
    BY <2>1, FS_Surjection, NetworkAssumption
  <2>. QED
    BY <2>2, FS_Subset
<1>3. size \in Nat
  BY <1>2, FS_CardinalityType
<1>4. /\ q \in [1 .. size -> pool]
      /\ \A k, l \in 1 .. size : k # l => q[k] # q[l]
  BY DEF GetAll, SetToSeqs
<1>5. pool \subseteq Nat
  BY <1>1 DEF Range
<1>6. q \in Seq(Nat)
  <2>1. q \in [1 .. size -> Nat]
    BY <1>4, <1>5
  <2>2. \A m \in Nat : [1 .. m -> Nat] \subseteq Seq(Nat)
    BY SeqDef
  <2>. QED
    BY <1>3, <2>1, <2>2
<1>7. \A c \in pool : \E t \in Nodes : c # 0 /\ connMap[n][t] = c
  BY <1>1 DEF Range
<1>8. \A c \in pool : c \in Ids /\ conns[c].from = n /\ connMap[n][conns[c].to] = c
  BY <1>7 DEF Places
<1>9. \A t \in Nodes : connMap[n][t] # 0 => \E k \in DOMAIN q : q[k] = connMap[n][t]
  <2>1. q \in Injection(1 .. size, pool)
    BY <1>4 DEF Injection, IsInjective
  <2>2. Cardinality(1 .. size) = size
    <3>1. \A m \in Nat : Cardinality(1 .. m) = m
      BY FS_Interval
    <3>. QED
      BY <1>3, <3>1
  <2>3. q \in Surjection(1 .. size, pool)
    BY <1>2, <2>1, <2>2, FS_Injection
  <2>4. \A c \in pool : \E k \in 1 .. size : q[k] = c
    BY <2>3 DEF Surjection
  <2>5. \A t \in Nodes : connMap[n][t] # 0 => connMap[n][t] \in pool
    BY <1>1 DEF Range
  <2>. QED
    BY <1>4, <2>4, <2>5
<1>10. \A k \in DOMAIN q : q[k] \in pool
  BY <1>4
<1>11. \A k, l \in DOMAIN q : k # l => conns[q[k]].to # conns[q[l]].to
  <2>1. \A c, d \in pool : conns[c].to = conns[d].to => c = d
    BY <1>8
  <2>2. \A k, l \in DOMAIN q : k # l => q[k] # q[l]
    BY <1>4
  <2> HIDE DEF pool
  <2>. QED
    BY <1>10, <2>1, <2>2
<1>. QED
  BY <1>6, <1>8, <1>9, <1>10, <1>11

-----------------------------------------------------------------------------
(* What the steps that touch a queue or a connection do to them.           *)

LEMMA DialEffect ==
    ASSUME Shapes, NEW n \in Nodes, NEW t \in Nodes, Dial(n, t)
    PROVE  /\ conns' \in Seq(Connections)
           /\ Len(conns) \in Nat
           /\ Ids = 1 .. Len(conns)
           /\ Ids' = 1 .. Len(conns) + 1
           /\ \A c \in Ids : conns'[c] = conns[c]
           /\ conns'[Len(conns) + 1] =
                 [from |-> n, to |-> t, up |-> TRUE, dialled |-> "open",
                  accepted |-> "no", queue |-> <<>>]
<1> DEFINE e == [from |-> n, to |-> t, up |-> TRUE, dialled |-> "open",
                 accepted |-> "no", queue |-> <<>>]
<1>1. e \in Connections
  BY DEF Connections
<1>2. conns \in Seq(Connections) /\ conns' = Append(conns, e)
  BY DEF Shapes, Dial
<1> HIDE DEF e
<1>3. /\ Append(conns, e) \in Seq(Connections)
      /\ Len(conns) \in Nat
      /\ DOMAIN conns = 1 .. Len(conns)
      /\ DOMAIN Append(conns, e) = 1 .. Len(conns) + 1
      /\ Append(conns, e)[Len(conns) + 1] = e
      /\ \A k \in DOMAIN conns : Append(conns, e)[k] = conns[k]
  BY <1>1, <1>2, AppendFacts
<1>. QED
  BY <1>2, <1>3 DEF Ids, e

LEMMA SendEffect ==
    ASSUME IInv, NEW g \in Sharers, Send(g)
    PROVE  LET c == Head(job[g]).id
               x == Head(job[g]).msg
           IN  /\ c \in Ids /\ x \in Messages
               /\ conns[c].queue \in Seq(Messages)
               /\ Len(conns[c].queue) < QueueSize
               /\ conns' \in Seq(Connections)
               /\ Ids' = Ids
               /\ conns'[c].queue = Append(conns[c].queue, x)
               /\ \A d \in Ids \ {c} : conns'[d].queue = conns[d].queue
               /\ \A d \in Ids : /\ conns'[d].from = conns[d].from
                                 /\ conns'[d].to = conns[d].to
                                 /\ conns'[d].dialled = conns[d].dialled
<1> DEFINE c == Head(job[g]).id
           x == Head(job[g]).msg
           e == [conns[c] EXCEPT !.queue = Append(conns[c].queue, x)]
<1>1. Shapes /\ Places
  BY DEF IInv, TypeInv
<1>2. job[g] \in Seq([id : Nat, msg : Messages]) /\ job[g] # <<>>
  BY <1>1 DEF Shapes, Send
<1>3. 1 \in DOMAIN job[g] /\ Head(job[g]) = job[g][1] /\ x \in Messages
  <2>1. /\ 1 \in DOMAIN job[g] /\ Head(job[g]) = job[g][1]
        /\ Head(job[g]) \in [id : Nat, msg : Messages]
    BY <1>2, TailFacts
  <2>. QED
    BY <2>1
<1>4. c \in Ids
  BY <1>1, <1>3 DEF Places
<1>5. conns \in Seq(Connections) /\ conns[c] \in Connections
  BY <1>1, <1>4, ConnType DEF Shapes
<1>6. conns[c].queue \in Seq(Messages) /\ Append(conns[c].queue, x) \in Seq(Messages)
  BY <1>3, <1>5 DEF Connections
<1>7. /\ e \in Connections
      /\ e.queue = Append(conns[c].queue, x)
      /\ e.from = conns[c].from /\ e.to = conns[c].to
      /\ e.dialled = conns[c].dialled
  BY <1>5, <1>6 DEF Connections
<1>8. ~ Full(c) /\ conns' = [conns EXCEPT ![c] = e]
  BY DEF Send
<1>9. Len(conns[c].queue) < QueueSize
  <2>1. Len(conns[c].queue) \in Nat /\ Len(conns[c].queue) <= QueueSize
    BY <1>1, <1>4, <1>6, LenProperties DEF Places
  <2>. QED
    BY <1>8, <2>1, NetworkAssumption DEF Full
<1> HIDE DEF e
<1>10. /\ conns' \in Seq(Connections)
       /\ DOMAIN conns' = Ids
       /\ conns'[c] = e
       /\ \A d \in Ids \ {c} : conns'[d] = conns[d]
  BY <1>4, <1>5, <1>7, <1>8, ExceptConn
<1>. QED
  BY <1>3, <1>4, <1>6, <1>7, <1>9, <1>10 DEF Ids

LEMMA ServeEffect ==
    ASSUME Shapes, NEW c \in Ids, ServeRequest(c)
    PROVE  /\ conns[c].queue \in Seq(Messages) /\ conns[c].queue # <<>>
           /\ conns[c].to \in Nodes
           /\ conns' \in Seq(Connections)
           /\ Ids' = Ids
           /\ conns'[c].queue = Tail(conns[c].queue)
           /\ \A d \in Ids \ {c} : conns'[d].queue = conns[d].queue
           /\ \A d \in Ids : /\ conns'[d].from = conns[d].from
                             /\ conns'[d].to = conns[d].to
                             /\ conns'[d].dialled = conns[d].dialled
<1> DEFINE e == [conns[c] EXCEPT !.queue = Tail(conns[c].queue)]
<1>1. conns \in Seq(Connections) /\ conns[c] \in Connections
  BY ConnType DEF Shapes
<1>2. conns[c].queue \in Seq(Messages) /\ conns[c].queue # <<>> /\ conns[c].to \in Nodes
  BY <1>1 DEF Connections, ServeRequest
<1>3. Tail(conns[c].queue) \in Seq(Messages)
  BY <1>2, HeadTailProperties
<1>4. /\ e \in Connections
      /\ e.queue = Tail(conns[c].queue)
      /\ e.from = conns[c].from /\ e.to = conns[c].to
      /\ e.dialled = conns[c].dialled
  BY <1>1, <1>3 DEF Connections
<1>5. conns' = [conns EXCEPT ![c] = e]
  BY DEF ServeRequest
<1> HIDE DEF e
<1>6. /\ conns' \in Seq(Connections)
      /\ DOMAIN conns' = Ids
      /\ conns'[c] = e
      /\ \A d \in Ids \ {c} : conns'[d] = conns[d]
  BY <1>1, <1>4, <1>5, ExceptConn
<1>. QED
  BY <1>2, <1>4, <1>6 DEF Ids

\* A broadcast takes one entry for each connection of the pool.
LEMMA ShareEffect ==
    ASSUME IInv, NEW g \in Sharers, ShareMessage(g) \/ DistributeMessage(g)
    PROVE  /\ calls' = [calls EXCEPT ![g] = calls[g] + 1]
           /\ \A h \in Sharers \ {g} : job'[h] = job[h]
           /\ job' \in [Sharers -> Seq([id : Nat, msg : Messages])]
           /\ \A k \in DOMAIN job'[g] :
                 /\ job'[g][k].id \in Ids
                 /\ job'[g][k].msg.src = g
                 /\ job'[g][k].msg.call = calls[g] + 1
                 /\ \A l \in DOMAIN job'[g] : k # l =>
                       Apart(job'[g][k].msg, conns[job'[g][k].id].to,
                             job'[g][l].msg, conns[job'[g][l].id].to)
<1>1. Shapes /\ Places
  BY DEF IInv, TypeInv
<1>2. Home[g] \in Nodes /\ calls[g] + 1 \in Nat
  BY <1>1, NetworkAssumption DEF Shapes
<1>3. PICK q \in GetAll(Home[g]) :
         \/ job' = [job EXCEPT ![g] =
                       [k \in DOMAIN q |-> [id |-> q[k], msg |-> Msg(g, 0)]]]
         \/ job' = [job EXCEPT ![g] =
                       [k \in DOMAIN q |-> [id |-> q[k], msg |-> Msg(g, k)]]]
  BY DEF ShareMessage, DistributeMessage
<1>4. /\ q \in Seq(Nat)
      /\ \A k \in DOMAIN q : q[k] \in Ids
      /\ \A k, l \in DOMAIN q : k # l => conns[q[k]].to # conns[q[l]].to
  BY <1>1, <1>2, GetAllFacts
<1>5. DOMAIN q = 1 .. Len(q) /\ Len(q) \in Nat /\ \A k \in DOMAIN q : q[k] \in Nat
  BY <1>4, LenProperties
<1>6. PICK p \in [DOMAIN q -> Nat] :
         /\ job' = [job EXCEPT ![g] =
                       [k \in DOMAIN q |-> [id |-> q[k], msg |-> Msg(g, p[k])]]]
         /\ \A k, l \in DOMAIN q : k # l => p[k] # p[l] \/ p[k] = 0
  <2>1. CASE job' = [job EXCEPT ![g] =
                       [k \in DOMAIN q |-> [id |-> q[k], msg |-> Msg(g, 0)]]]
    <3>1. WITNESS [k \in DOMAIN q |-> 0] \in [DOMAIN q -> Nat]
    <3>. QED
      BY <2>1
  <2>2. CASE job' = [job EXCEPT ![g] =
                       [k \in DOMAIN q |-> [id |-> q[k], msg |-> Msg(g, k)]]]
    <3>1. [k \in DOMAIN q |-> k] \in [DOMAIN q -> Nat]
      BY <1>5
    <3>2. WITNESS [k \in DOMAIN q |-> k] \in [DOMAIN q -> Nat]
    <3>. QED
      BY <2>2
  <2>. QED
    BY <1>3, <2>1, <2>2
<1> DEFINE list == [k \in DOMAIN q |-> [id |-> q[k], msg |-> Msg(g, p[k])]]
<1>7. \A k \in DOMAIN q :
         /\ Msg(g, p[k]) \in Messages
         /\ Msg(g, p[k]).src = g
         /\ Msg(g, p[k]).call = calls[g] + 1
         /\ Msg(g, p[k]).part = p[k]
  BY <1>2, <1>6 DEF Msg, Messages
<1>8. list \in Seq([id : Nat, msg : Messages])
  <2>1. list \in [1 .. Len(q) -> [id : Nat, msg : Messages]]
    BY <1>5, <1>7
  <2>. QED
    BY <1>5, <2>1, SeqDef
<1>9. job \in [Sharers -> Seq([id : Nat, msg : Messages])]
  BY <1>1 DEF Shapes
<1>10. /\ job'[g] = list
       /\ \A h \in Sharers \ {g} : job'[h] = job[h]
       /\ job' \in [Sharers -> Seq([id : Nat, msg : Messages])]
  BY <1>6, <1>8, <1>9
<1>11. \A k \in DOMAIN list :
          /\ list[k].id = q[k]
          /\ list[k].msg.src = g
          /\ list[k].msg.call = calls[g] + 1
          /\ list[k].msg.part = p[k]
  BY <1>7
<1>12. \A k, l \in DOMAIN list : k # l =>
          Apart(list[k].msg, conns[list[k].id].to, list[l].msg, conns[list[l].id].to)
  BY <1>4, <1>6, <1>11 DEF Apart
<1>13. calls' = [calls EXCEPT ![g] = calls[g] + 1]
  BY DEF ShareMessage, DistributeMessage
<1>14. \A k \in DOMAIN list : list[k].id \in Ids
  BY <1>4, <1>11
<1> HIDE DEF list
<1>. QED
  BY <1>10, <1>11, <1>12, <1>13, <1>14

-----------------------------------------------------------------------------
(* The types, and what the pool and the member map say.                    *)

LEMMA InitTypeInv == Init => TypeInv
<1> SUFFICES ASSUME Init PROVE TypeInv
  OBVIOUS
<1>1. <<>> \in Seq(Connections) /\ DOMAIN <<>> = {}
  OBVIOUS
<1>2. Shapes
  BY <1>1 DEF Init, Shapes
<1>3. Places
  BY <1>1 DEF Init, Places, Ids, AtHand
<1>4. Members
  BY DEF Init, Members
<1>. QED
  BY <1>2, <1>3, <1>4 DEF TypeInv

\* Nothing is noted of a connection that was not there.
LEMMA SameTargets ==
    ASSUME Places, Members,
           Ids' = Ids,
           \A c \in Ids : /\ conns'[c].from = conns[c].from
                          /\ conns'[c].to = conns[c].to
                          /\ Len(conns'[c].queue) <= QueueSize,
           UNCHANGED <<scenario, connectPc, connMap, memberMap, late>>,
           \A g \in Sharers : \A k \in DOMAIN job'[g] : job'[g][k].id \in Ids,
           \A n \in Nodes : \A k \in DOMAIN snapshot'[n] : snapshot'[n][k] \in Ids
    PROVE  Places' /\ Members'
<1>1. /\ \A c \in Ids' : /\ <<conns'[c].from, conns'[c].to>> \in scenario'.dials
                        /\ Len(conns'[c].queue) <= QueueSize
      /\ late' \subseteq Ids'
  BY DEF Places
<1>2. \A n \in Nodes : AtHand(n)' => /\ connectPc'[n].id \in Ids'
                                     /\ conns'[connectPc'[n].id].from = n
  BY DEF Places, AtHand
<1>3. \A n, t \in Nodes : connMap'[n][t] # 0 =>
         /\ connMap'[n][t] \in Ids'
         /\ conns'[connMap'[n][t]].from = n
         /\ conns'[connMap'[n][t]].to = t
  BY DEF Places
<1>4. Places'
  BY <1>1, <1>2, <1>3 DEF Places
<1>5. \A n \in Nodes : connectPc[n].at = "member" =>
         conns'[connectPc[n].id].to = conns[connectPc[n].id].to
  BY DEF Places, AtHand
<1>6. Members'
  BY <1>5 DEF Members
<1>. QED
  BY <1>4, <1>6

LEMMA QuietKeepsPlaces ==
    ASSUME Places, Members, KeepsQueues,
           UNCHANGED <<scenario, connectPc, connMap, memberMap, late, job>>,
           \A n \in Nodes : \A k \in DOMAIN snapshot'[n] :
              \E j \in DOMAIN snapshot[n] : snapshot'[n][k] = snapshot[n][j]
    PROVE  Places' /\ Members'
<1>1. \A g \in Sharers : \A k \in DOMAIN job'[g] : job'[g][k].id \in Ids
  <2>1. job' = job
    OBVIOUS
  <2>. QED
    BY <2>1 DEF Places
<1>2. \A n \in Nodes : \A k \in DOMAIN snapshot'[n] : snapshot'[n][k] \in Ids
  <2>1. \A n \in Nodes : \A j \in DOMAIN snapshot[n] : snapshot[n][j] \in Ids
    BY DEF Places
  <2>. QED
    BY <2>1
<1>3. \A c \in Ids : Len(conns[c].queue) <= QueueSize
  BY DEF Places
<1>4. /\ Ids' = Ids
      /\ \A c \in Ids : /\ conns'[c].from = conns[c].from
                         /\ conns'[c].to = conns[c].to
                         /\ Len(conns'[c].queue) <= QueueSize
  BY <1>3 DEF KeepsQueues
<1>5. UNCHANGED <<scenario, connectPc, connMap, memberMap, late>>
  OBVIOUS
<1>. QED
  BY <1>1, <1>2, <1>4, <1>5, SameTargets

LEMMA TypeFacts ==
    ASSUME IInv
    PROVE  /\ Shapes
           /\ Places
           /\ Members
           /\ ClosePlaces
           /\ conns \in Seq(Connections)
           /\ Ids = 1 .. Len(conns)
           /\ Len(conns) \in Nat
           /\ \A c \in Ids : conns[c] \in Connections
<1>1. Shapes /\ Places /\ Members /\ ClosePlaces
  BY DEF IInv, TypeInv, LeakInv
<1>. QED
  BY <1>1, ConnType DEF Shapes

\* Close goes through its list from the front.
LEMMA SnapshotTail ==
    ASSUME Shapes, NEW n \in Nodes, snapshot[n] # <<>>,
           snapshot' = [snapshot EXCEPT ![n] = Tail(snapshot[n])]
    PROVE  /\ snapshot' \in [Nodes -> Seq(Nat)]
           /\ \A m \in Nodes : \A k \in DOMAIN snapshot'[m] :
                 \E j \in DOMAIN snapshot[m] : snapshot'[m][k] = snapshot[m][j]
           /\ \A j \in DOMAIN snapshot[n] :
                 \/ snapshot[n][j] = Head(snapshot[n])
                 \/ \E k \in DOMAIN snapshot'[n] : snapshot'[n][k] = snapshot[n][j]
<1>1. snapshot \in [Nodes -> Seq(Nat)] /\ snapshot[n] \in Seq(Nat)
  BY DEF Shapes
<1>2. /\ Head(snapshot[n]) = snapshot[n][1]
      /\ Tail(snapshot[n]) \in Seq(Nat)
      /\ Len(Tail(snapshot[n])) = Len(snapshot[n]) - 1
      /\ \A k \in DOMAIN Tail(snapshot[n]) :
            /\ k + 1 \in DOMAIN snapshot[n]
            /\ Tail(snapshot[n])[k] = snapshot[n][k + 1]
  BY <1>1, TailFacts
<1>3. /\ DOMAIN snapshot[n] = 1 .. Len(snapshot[n])
      /\ DOMAIN Tail(snapshot[n]) = 1 .. Len(Tail(snapshot[n]))
      /\ Len(snapshot[n]) \in Nat
  BY <1>1, <1>2, LenProperties
<1>4. \A j \in DOMAIN snapshot[n] :
         \/ j = 1
         \/ /\ j - 1 \in DOMAIN Tail(snapshot[n])
            /\ Tail(snapshot[n])[j - 1] = snapshot[n][j]
  <2> TAKE j \in DOMAIN snapshot[n]
  <2>1. CASE j # 1
    <3>1. j - 1 \in DOMAIN Tail(snapshot[n]) /\ (j - 1) + 1 = j
      BY <1>2, <1>3, <2>1
    <3>2. Tail(snapshot[n])[j - 1] = snapshot[n][(j - 1) + 1]
      BY <1>2, <3>1
    <3>. QED
      BY <3>1, <3>2
  <2>. QED
    BY <2>1
<1>5. /\ snapshot'[n] = Tail(snapshot[n])
      /\ \A m \in Nodes \ {n} : snapshot'[m] = snapshot[m]
      /\ snapshot' \in [Nodes -> Seq(Nat)]
  BY <1>1, <1>2
<1>6. \A m \in Nodes : \A k \in DOMAIN snapshot'[m] :
         \E j \in DOMAIN snapshot[m] : snapshot'[m][k] = snapshot[m][j]
  <2> TAKE m \in Nodes
  <2>1. CASE m = n
    <3> TAKE k \in DOMAIN snapshot'[m]
    <3>1. /\ k + 1 \in DOMAIN snapshot[n]
          /\ snapshot'[n][k] = snapshot[n][k + 1]
      BY <1>2, <1>5, <2>1
    <3>. QED
      BY <2>1, <3>1
  <2>2. CASE m # n
    BY <1>5, <2>2
  <2>. QED
    BY <2>1, <2>2
<1>7. \A j \in DOMAIN snapshot[n] :
         \/ snapshot[n][j] = Head(snapshot[n])
         \/ \E k \in DOMAIN snapshot'[n] : snapshot'[n][k] = snapshot[n][j]
  BY <1>2, <1>4, <1>5
<1>. QED
  BY <1>5, <1>6, <1>7

\* Every step keeps them.
LEMMA NextTypeInv == ASSUME IInv, Next PROVE TypeInv'
<1> USE TypeFacts DEF TypeInv
<1>0. UNCHANGED scenario
  BY DEF Next
<1>1. ASSUME \/ \E n \in Nodes : Run(n) \/ ServerStep(n) \/ Close(n) \/ CloseDone(n)
             \/ \E c \in Ids : Notice(c) \/ StreamBreaks(c)
      PROVE  TypeInv'
  <2>1. KeepsQueues
    BY <1>1, QuietSteps DEF Run, ServerStep, Listen, Close, CloseDone
  <2>2. /\ UNCHANGED <<connectPc, connMap, memberMap, late, job, calls, served>>
        /\ UNCHANGED snapshot
    BY <1>1 DEF Run, ServerStep, Listen, ServeEnds, Close, CloseDone, Notice, Accept,
       AcceptedFails, DialledFails, StreamBreaks, clientVars, shareVars, closeVars
  <2>3. /\ listenPc' \in [Nodes -> {"off", "start", "serve", "ended"}]
        /\ lis' \in [Nodes -> {"none", "open", "closed"}]
    <3>1. ASSUME NEW n \in Nodes, Run(n) \/ Listen(n) \/ ServeEnds(n) \/ Close(n)
          PROVE  /\ \E label \in {"start", "serve", "ended"} :
                       listenPc' \in {listenPc, [listenPc EXCEPT ![n] = label]}
                 /\ \E label \in {"open", "closed"} :
                       lis' \in {lis, [lis EXCEPT ![n] = label]}
      BY <3>1 DEF Run, Listen, ServeEnds, Close, Shapes
    <3>2. ASSUME \/ \E n \in Nodes : CloseDone(n)
                 \/ \E c \in Ids : Notice(c) \/ StreamBreaks(c)
          PROVE  UNCHANGED <<listenPc, lis>>
      BY <3>2 DEF CloseDone, Notice, Accept, AcceptedFails, DialledFails, StreamBreaks,
         serverVars
    <3>3. /\ listenPc \in [Nodes -> {"off", "start", "serve", "ended"}]
          /\ lis \in [Nodes -> {"none", "open", "closed"}]
      BY DEF Shapes
    <3>4. ASSUME NEW n \in Nodes, Run(n) \/ Listen(n) \/ ServeEnds(n) \/ Close(n)
          PROVE  /\ listenPc' \in [Nodes -> {"off", "start", "serve", "ended"}]
                 /\ lis' \in [Nodes -> {"none", "open", "closed"}]
      BY <3>1, <3>3, <3>4
    <3>. QED
      BY <1>1, <3>2, <3>3, <3>4 DEF ServerStep
  <2>4. closePc' \in [Nodes -> {"open", "get", "loop", "lock", "done"}]
    <3>1. ASSUME NEW n \in Nodes, Close(n) \/ CloseDone(n)
          PROVE  closePc' \in [Nodes -> {"open", "get", "loop", "lock", "done"}]
      <4>1. \E label \in {"get", "done"} : closePc' = [closePc EXCEPT ![n] = label]
        BY <3>1 DEF Close, CloseDone
      <4>2. closePc \in [Nodes -> {"open", "get", "loop", "lock", "done"}]
        BY DEF Shapes
      <4>. QED
        BY <4>1, <4>2
    <3>2. ASSUME \/ \E n \in Nodes : Run(n) \/ ServerStep(n)
                 \/ \E c \in Ids : Notice(c) \/ StreamBreaks(c)
          PROVE  UNCHANGED closePc
      BY <3>2 DEF Run, ServerStep, Listen, ServeEnds, Notice, Accept,
         AcceptedFails, DialledFails, StreamBreaks, closeVars
    <3>. QED
      BY <1>1, <3>1, <3>2 DEF Shapes
  <2>5. Shapes'
    BY <1>0, <2>1, <2>2, <2>3, <2>4 DEF Shapes, KeepsQueues
  <2>. QED
    BY <1>0, <2>1, <2>2, <2>5, QuietKeepsPlaces
<1>2. ASSUME NEW n \in Nodes, CloseFlag(n) \/ CloseStream(n) PROVE TypeInv'
  <2>1. KeepsQueues
    BY <1>2, QuietSteps
  <2>2. snapshot[n] # <<>>
    BY <1>2 DEF CloseFlag, CloseStream, ClosePlaces
  <2>3. /\ UNCHANGED <<connectPc, connMap, memberMap, late, job, calls, served>>
        /\ UNCHANGED serverVars
        /\ \/ UNCHANGED snapshot
           \/ snapshot' = [snapshot EXCEPT ![n] = Tail(snapshot[n])]
        /\ \/ UNCHANGED closePc
           \/ \E label \in {"loop", "lock"} :
                 closePc' = [closePc EXCEPT ![n] = label]
    BY <1>2 DEF CloseFlag, CloseStream, clientVars, shareVars
  <2>4. /\ snapshot' \in [Nodes -> Seq(Nat)]
        /\ \A m \in Nodes : \A k \in DOMAIN snapshot'[m] :
              \E j \in DOMAIN snapshot[m] : snapshot'[m][k] = snapshot[m][j]
    <3>1. CASE UNCHANGED snapshot
      BY <3>1 DEF Shapes
    <3>2. CASE snapshot' = [snapshot EXCEPT ![n] = Tail(snapshot[n])]
      BY <2>2, <3>2, SnapshotTail
    <3>. QED
      BY <2>3, <3>1, <3>2
  <2>5. closePc' \in [Nodes -> {"open", "get", "loop", "lock", "done"}]
    BY <2>3 DEF Shapes
  <2>6. Shapes'
    BY <1>0, <2>1, <2>3, <2>4, <2>5 DEF Shapes, KeepsQueues, serverVars
  <2>. QED
    BY <1>0, <2>1, <2>3, <2>4, <2>6, QuietKeepsPlaces
<1>3. ASSUME NEW n \in Nodes, CloseGetAll(n) PROVE TypeInv'
  <2>1. PICK q \in GetAll(n) : snapshot' = [snapshot EXCEPT ![n] = q]
    BY <1>3 DEF CloseGetAll
  <2>2. q \in Seq(Nat) /\ \A k \in DOMAIN q : q[k] \in Ids
    BY GetAllFacts
  <2>3. /\ UNCHANGED <<serverVars, conns, clientVars, shareVars, served>>
        /\ closePc' = [closePc EXCEPT ![n] = "loop"]
    BY <1>3 DEF CloseGetAll
  <2>4. Shapes'
    BY <1>0, <2>1, <2>2, <2>3 DEF Shapes, serverVars, clientVars, shareVars
  <2>5. Places'
    BY <1>0, <2>1, <2>2, <2>3 DEF Shapes, Places, Ids, AtHand, clientVars, shareVars
  <2>6. Members'
    BY <2>3 DEF Members, clientVars
  <2>. QED
    BY <2>4, <2>5, <2>6
<1>4. ASSUME NEW n \in Nodes, NEW t \in Nodes, <<n, t>> \in scenario.dials, Dial(n, t)
      PROVE  TypeInv'
  <2>1. /\ conns' \in Seq(Connections)
        /\ Len(conns) \in Nat
        /\ Ids = 1 .. Len(conns)
        /\ Ids' = 1 .. Len(conns) + 1
        /\ \A c \in Ids : conns'[c] = conns[c]
        /\ conns'[Len(conns) + 1] =
              [from |-> n, to |-> t, up |-> TRUE, dialled |-> "open",
               accepted |-> "no", queue |-> <<>>]
    BY <1>4, DialEffect
  <2>2. /\ UNCHANGED <<serverVars, connMap, memberMap, late, shareVars, served,
                       closeVars>>
        /\ connectPc[n].at = "out"
        /\ connectPc' = [connectPc EXCEPT ![n] =
                            [at |-> "add", id |-> Len(conns) + 1]]
    BY <1>4 DEF Dial
  <2>3. connectPc' \in [Nodes -> [at : {"out", "add", "member"}, id : Nat]]
    BY <2>1, <2>2 DEF Shapes
  <2>4. Shapes'
    BY <1>0, <2>1, <2>2, <2>3 DEF Shapes, serverVars, shareVars, closeVars
  <2>5. /\ connectPc'[n].at = "add" /\ connectPc'[n].id = Len(conns) + 1
        /\ \A m \in Nodes \ {n} : connectPc'[m] = connectPc[m]
    BY <2>2 DEF Shapes
  <2>6. Places'
    <3>1. \A c \in Ids' : /\ <<conns'[c].from, conns'[c].to>> \in scenario'.dials
                          /\ Len(conns'[c].queue) <= QueueSize
      <4>1. \A c \in Ids' : c \in Ids \/ c = Len(conns) + 1
        BY <2>1
      <4>2. Len(<<>>) <= QueueSize
        BY NetworkAssumption
      <4>. QED
        <5>1. \A c \in Ids : /\ <<conns[c].from, conns[c].to>> \in scenario.dials
                            /\ Len(conns[c].queue) <= QueueSize
          BY DEF Places
        <5>2. \A c \in Ids : /\ <<conns'[c].from, conns'[c].to>> \in scenario'.dials
                            /\ Len(conns'[c].queue) <= QueueSize
          BY <1>0, <2>1, <5>1
        <5>3. LET d == Len(conns) + 1 IN
              /\ <<conns'[d].from, conns'[d].to>> \in scenario'.dials
              /\ Len(conns'[d].queue) <= QueueSize
          BY <1>0, <1>4, <2>1, <4>2
        <5>. QED
          BY <4>1, <5>2, <5>3
    <3>2. /\ late' \subseteq Ids'
          /\ \A g \in Sharers : \A k \in DOMAIN job'[g] : job'[g][k].id \in Ids'
          /\ \A m \in Nodes : \A k \in DOMAIN snapshot'[m] :
                snapshot'[m][k] \in Ids'
      BY <2>1, <2>2 DEF Places, shareVars, closeVars
    <3>3. \A m \in Nodes : AtHand(m)' => /\ connectPc'[m].id \in Ids'
                                         /\ conns'[connectPc'[m].id].from = m
      <4>1. connectPc'[n].id \in Ids' /\ conns'[connectPc'[n].id].from = n
        BY <2>1, <2>5
      <4>2. \A m \in Nodes \ {n} : AtHand(m)' => AtHand(m)
        BY <2>5 DEF AtHand
      <4>3. \A m \in Nodes \ {n} : AtHand(m) => /\ connectPc[m].id \in Ids'
                                               /\ conns'[connectPc[m].id].from = m
        BY <2>1 DEF Places
      <4>. QED
        BY <2>5, <4>1, <4>2, <4>3
    <3>4. \A m, u \in Nodes : connMap'[m][u] # 0 =>
             /\ connMap'[m][u] \in Ids'
             /\ conns'[connMap'[m][u]].from = m
             /\ conns'[connMap'[m][u]].to = u
      BY <2>1, <2>2 DEF Places
    <3>. QED
      BY <3>1, <3>2, <3>3, <3>4 DEF Places
  <2>7. Members'
    <3>1. \A m \in Nodes : connectPc'[m].at = "member" =>
             /\ connectPc[m] = connectPc'[m]
             /\ conns'[connectPc[m].id] = conns[connectPc[m].id]
      BY <2>1, <2>5 DEF Places, AtHand
    <3>2. \A m \in Nodes : connectPc[m].at = "member" => connectPc[m] = connectPc'[m]
      BY <2>2, <2>5
    <3>. QED
      BY <2>2, <3>1, <3>2 DEF Members
  <2>. QED
    BY <2>4, <2>6, <2>7
<1>5. ASSUME NEW n \in Nodes, Add(n) PROVE TypeInv'
  <2> DEFINE c == connectPc[n].id
  <2>1. /\ UNCHANGED <<serverVars, conns, memberMap, shareVars, served, closeVars>>
        /\ connectPc[n].at = "add"
        /\ connMap' = [connMap EXCEPT ![n][conns[c].to] = c]
        /\ late' \in {late, late \cup {c}}
        /\ connectPc' = [connectPc EXCEPT ![n].at = "member"]
    BY <1>5 DEF Add
  <2>2. c \in Ids /\ conns[c].from = n /\ conns[c].to \in Nodes /\ c # 0 /\ c \in Nat
    BY <2>1 DEF Places, AtHand, Connections
  <2>3. Shapes'
    BY <1>0, <2>1, <2>2 DEF Shapes, serverVars, shareVars, closeVars
  <2>4. /\ connectPc'[n].at = "member" /\ connectPc'[n].id = c
        /\ \A m \in Nodes \ {n} : connectPc'[m] = connectPc[m]
        /\ connMap'[n][conns[c].to] = c
        /\ \A m, t \in Nodes : m # n \/ t # conns[c].to =>
              connMap'[m][t] = connMap[m][t]
    BY <2>1, <2>2 DEF Shapes
  <2>5. Places'
    <3>1. /\ Ids' = Ids
          /\ UNCHANGED <<scenario, conns, job, snapshot>>
          /\ late' \subseteq Ids
      BY <1>0, <2>1, <2>2 DEF Places, Ids, shareVars, closeVars
    <3>2. \A m \in Nodes : AtHand(m)' =>
             connectPc'[m].id \in Ids /\ conns[connectPc'[m].id].from = m
      BY <2>2, <2>4 DEF Places, AtHand
    <3>3. \A m, t \in Nodes : connMap'[m][t] # 0 =>
             /\ connMap'[m][t] \in Ids
             /\ conns[connMap'[m][t]].from = m
             /\ conns[connMap'[m][t]].to = t
      BY <2>2, <2>4 DEF Places
    <3>. QED
      BY <3>1, <3>2, <3>3 DEF Places
  <2>6. Members'
    BY <2>1, <2>2, <2>4 DEF Members, Places
  <2>. QED
    BY <2>3, <2>5, <2>6
<1>6. ASSUME NEW n \in Nodes, AddMember(n) PROVE TypeInv'
  <2> DEFINE c == connectPc[n].id
  <2>1. /\ UNCHANGED <<serverVars, conns, connMap, late, shareVars, served, closeVars>>
        /\ connectPc[n].at = "member"
        /\ memberMap' = [memberMap EXCEPT ![n] = memberMap[n] \cup {conns[c].to}]
        /\ connectPc' = [connectPc EXCEPT ![n] = [at |-> "out", id |-> 0]]
    BY <1>6 DEF AddMember
  <2>2. c \in Ids /\ conns[c].to \in Nodes
    BY <2>1 DEF Places, AtHand, Connections
  <2>3. Shapes'
    BY <1>0, <2>1, <2>2 DEF Shapes, serverVars, shareVars, closeVars
  <2>4. /\ connectPc'[n].at = "out"
        /\ \A m \in Nodes \ {n} : connectPc'[m] = connectPc[m]
        /\ memberMap'[n] = memberMap[n] \cup {conns[c].to}
        /\ \A m \in Nodes \ {n} : memberMap'[m] = memberMap[m]
    BY <2>1 DEF Shapes
  <2>5. Places'
    BY <1>0, <2>1, <2>4 DEF Places, Ids, AtHand, shareVars, closeVars
  <2>6. Members'
    BY <2>1, <2>2, <2>4 DEF Members
  <2>. QED
    BY <2>3, <2>5, <2>6
<1>7. ASSUME NEW g \in Sharers, ShareMessage(g) \/ DistributeMessage(g)
      PROVE  TypeInv'
  <2>1. /\ calls' = [calls EXCEPT ![g] = calls[g] + 1]
        /\ \A h \in Sharers \ {g} : job'[h] = job[h]
        /\ job' \in [Sharers -> Seq([id : Nat, msg : Messages])]
        /\ \A k \in DOMAIN job'[g] : job'[g][k].id \in Ids
    BY <1>7, ShareEffect
  <2>2. UNCHANGED <<serverVars, conns, clientVars, served, closeVars>>
    BY <1>7 DEF ShareMessage, DistributeMessage
  <2>3. calls' \in [Sharers -> Nat]
    BY <2>1 DEF Shapes
  <2>4. Shapes'
    BY <1>0, <2>1, <2>2, <2>3 DEF Shapes, serverVars, clientVars, closeVars
  <2>5. Places'
    <3>1. /\ Ids' = Ids
          /\ UNCHANGED <<scenario, conns, connectPc, connMap, late, snapshot>>
      BY <1>0, <2>2 DEF Ids, clientVars, closeVars
    <3>2. \A h \in Sharers : \A k \in DOMAIN job'[h] : job'[h][k].id \in Ids
      BY <2>1 DEF Places
    <3>. QED
      BY <3>1, <3>2 DEF Places, AtHand
  <2>6. Members'
    BY <2>2 DEF Members, clientVars
  <2>. QED
    BY <2>4, <2>5, <2>6
<1>8. ASSUME NEW g \in Sharers, Send(g) PROVE TypeInv'
  <2> DEFINE c == Head(job[g]).id
             x == Head(job[g]).msg
  <2>1. /\ c \in Ids /\ x \in Messages
        /\ conns[c].queue \in Seq(Messages)
        /\ Len(conns[c].queue) < QueueSize
        /\ conns' \in Seq(Connections)
        /\ Ids' = Ids
        /\ conns'[c].queue = Append(conns[c].queue, x)
        /\ \A d \in Ids \ {c} : conns'[d].queue = conns[d].queue
        /\ \A d \in Ids : /\ conns'[d].from = conns[d].from
                          /\ conns'[d].to = conns[d].to
    BY <1>8, SendEffect
  <2>2. /\ UNCHANGED <<serverVars, clientVars, calls, served, closeVars>>
        /\ job[g] # <<>>
        /\ job' = [job EXCEPT ![g] = Tail(job[g])]
    BY <1>8 DEF Send
  <2>3. /\ Tail(job[g]) \in Seq([id : Nat, msg : Messages])
        /\ \A k \in DOMAIN Tail(job[g]) :
              k + 1 \in DOMAIN job[g] /\ Tail(job[g])[k] = job[g][k + 1]
    <3>1. job[g] \in Seq([id : Nat, msg : Messages])
      BY DEF Shapes
    <3>. QED
      BY <2>2, <3>1, TailFacts
  <2>4. /\ job' \in [Sharers -> Seq([id : Nat, msg : Messages])]
        /\ job'[g] = Tail(job[g])
        /\ \A h \in Sharers \ {g} : job'[h] = job[h]
    BY <2>2, <2>3 DEF Shapes
  <2>5. Shapes'
    BY <1>0, <2>1, <2>2, <2>4 DEF Shapes, serverVars, clientVars, closeVars
  <2>6. Len(conns'[c].queue) <= QueueSize
    <3> HIDE DEF c, x
    <3>1. /\ Len(Append(conns[c].queue, x)) = Len(conns[c].queue) + 1
          /\ Len(conns[c].queue) \in Nat
      BY <2>1, AppendFacts
    <3>2. QueueSize \in Nat
      BY NetworkAssumption
    <3>. QED
      BY <2>1, <3>1, <3>2
  <2>7. \A h \in Sharers : \A k \in DOMAIN job'[h] : job'[h][k].id \in Ids
    <3>1. \A k \in DOMAIN job[g] : job[g][k].id \in Ids
      BY DEF Places
    <3>2. \A k \in DOMAIN Tail(job[g]) : Tail(job[g])[k].id \in Ids
      BY <2>3, <3>1
    <3>. QED
      BY <2>4, <3>2 DEF Places
  <2>8. \A d \in Ids : Len(conns'[d].queue) <= QueueSize
    BY <2>1, <2>6 DEF Places
  <2> HIDE DEF c, x
  <2>9. UNCHANGED <<scenario, connectPc, connMap, memberMap, late, snapshot>>
    BY <1>0, <2>2 DEF clientVars, closeVars
  <2>10. \A n \in Nodes : \A k \in DOMAIN snapshot'[n] : snapshot'[n][k] \in Ids
    BY <2>9 DEF Places
  <2>11. \A d \in Ids : /\ conns'[d].from = conns[d].from
                        /\ conns'[d].to = conns[d].to
                        /\ Len(conns'[d].queue) <= QueueSize
    BY <2>1, <2>8
  <2>12. Ids' = Ids
    BY <2>1
  <2>13. Places' /\ Members'
    BY <2>9, <2>10, <2>11, <2>12, <2>7, SameTargets
  <2>. QED
    BY <2>5, <2>13
<1>9. ASSUME NEW c \in Ids, ServeRequest(c) PROVE TypeInv'
  <2>1. /\ conns[c].queue \in Seq(Messages) /\ conns[c].queue # <<>>
        /\ conns[c].to \in Nodes
        /\ conns' \in Seq(Connections)
        /\ Ids' = Ids
        /\ conns'[c].queue = Tail(conns[c].queue)
        /\ \A d \in Ids \ {c} : conns'[d].queue = conns[d].queue
        /\ \A d \in Ids : /\ conns'[d].from = conns[d].from
                          /\ conns'[d].to = conns[d].to
    BY <1>9, ServeEffect
  <2>2. /\ UNCHANGED <<serverVars, clientVars, shareVars, closeVars>>
        /\ served' = [served EXCEPT ![conns[c].to] =
                         Append(served[conns[c].to], Head(conns[c].queue))]
    BY <1>9 DEF ServeRequest
  <2>3. Head(conns[c].queue) \in Messages
    BY <2>1, TailFacts
  <2>4. served' \in [Nodes -> Seq(Messages)]
    BY <2>1, <2>2, <2>3 DEF Shapes
  <2>5. Shapes'
    BY <1>0, <2>1, <2>2, <2>4 DEF Shapes, serverVars, clientVars, shareVars, closeVars
  <2>6. Len(conns'[c].queue) <= QueueSize
    <3>1. /\ Len(conns'[c].queue) = Len(conns[c].queue) - 1
          /\ Len(conns[c].queue) \in Nat
      BY <2>1, TailFacts, LenProperties
    <3>2. QueueSize \in Nat /\ Len(conns[c].queue) <= QueueSize
      BY NetworkAssumption DEF Places
    <3>. QED
      BY <3>1, <3>2
  <2>7. \A d \in Ids : Len(conns'[d].queue) <= QueueSize
    BY <2>1, <2>6 DEF Places
  <2>8. \A g \in Sharers : \A k \in DOMAIN job'[g] : job'[g][k].id \in Ids
    BY <2>2 DEF Places, shareVars
  <2>9. UNCHANGED <<scenario, connectPc, connMap, memberMap, late, snapshot>>
    BY <1>0, <2>2 DEF clientVars, closeVars
  <2>10. \A n \in Nodes : \A k \in DOMAIN snapshot'[n] : snapshot'[n][k] \in Ids
    BY <2>9 DEF Places
  <2>11. \A d \in Ids : /\ conns'[d].from = conns[d].from
                        /\ conns'[d].to = conns[d].to
                        /\ Len(conns'[d].queue) <= QueueSize
    BY <2>1, <2>7
  <2>12. Ids' = Ids
    BY <2>1
  <2>13. Places' /\ Members'
    BY <2>9, <2>10, <2>11, <2>12, <2>8, SameTargets
  <2>. QED
    BY <2>5, <2>13
<1>10. \A n \in scenario.servers \cup scenario.closing : n \in Nodes
  BY NetworkAssumption DEF Shapes
<1>. QED
  BY <1>1, <1>2, <1>3, <1>4, <1>5, <1>6, <1>7, <1>8, <1>9, <1>10
     DEF Next, ConnectStep, CloseStep

-----------------------------------------------------------------------------
(* Each message once.                                                      *)

LEMMA ApartSymmetric ==
    ASSUME NEW x, NEW n, NEW y, NEW m, Apart(x, n, y, m)
    PROVE  Apart(y, m, x, n)
BY DEF Apart

LEMMA DisjointSymmetric ==
    ASSUME NEW p, NEW n, NEW q, NEW m, Disjoint(p, n, q, m)
    PROVE  Disjoint(q, m, p, n)
BY ApartSymmetric DEF Disjoint, Away

LEMMA AwayAppend ==
    ASSUME NEW x, NEW n, NEW m, NEW q \in Seq(Messages), NEW e \in Messages,
           Away(x, n, q, m), Apart(x, n, e, m)
    PROVE  Away(x, n, Append(q, e), m)
BY AppendFacts DEF Away

LEMMA DisjointAppend ==
    ASSUME NEW p \in Seq(Messages), NEW n, NEW q, NEW m, NEW e \in Messages,
           Disjoint(p, n, q, m), Away(e, n, q, m)
    PROVE  Disjoint(Append(p, e), n, q, m)
BY AppendFacts DEF Disjoint

LEMMA SpreadAppend ==
    ASSUME NEW q \in Seq(Messages), NEW n, NEW e \in Messages,
           Spread(q, n), Away(e, n, q, n)
    PROVE  Spread(Append(q, e), n)
<1>1. \A i \in DOMAIN q : Apart(e, n, q[i], n) /\ Apart(q[i], n, e, n)
  BY ApartSymmetric DEF Away
<1>2. /\ Append(q, e)[Len(q) + 1] = e
      /\ \A k \in DOMAIN q : Append(q, e)[k] = q[k]
      /\ \A k \in DOMAIN Append(q, e) : k \in DOMAIN q \/ k = Len(q) + 1
  BY AppendFacts
<1>3. \A i, j \in DOMAIN q : i # j => Apart(q[i], n, q[j], n)
  BY DEF Spread
<1> SUFFICES ASSUME NEW i \in DOMAIN Append(q, e), NEW j \in DOMAIN Append(q, e), i # j
             PROVE  Apart(Append(q, e)[i], n, Append(q, e)[j], n)
  BY DEF Spread
<1>. QED
  BY <1>1, <1>2, <1>3

LEMMA AwayTail ==
    ASSUME NEW x, NEW n, NEW m, NEW q \in Seq(Messages), q # <<>>, Away(x, n, q, m)
    PROVE  /\ Away(x, n, Tail(q), m)
           /\ Apart(x, n, Head(q), m)
BY TailFacts DEF Away

LEMMA DisjointTail ==
    ASSUME NEW p \in Seq(Messages), p # <<>>, NEW n, NEW q, NEW m, Disjoint(p, n, q, m)
    PROVE  /\ Disjoint(Tail(p), n, q, m)
           /\ Away(Head(p), n, q, m)
BY TailFacts DEF Disjoint

LEMMA SpreadTail ==
    ASSUME NEW q \in Seq(Messages), q # <<>>, NEW n, Spread(q, n)
    PROVE  /\ Spread(Tail(q), n)
           /\ Away(Head(q), n, Tail(q), n)
<1>1. /\ 1 \in DOMAIN q /\ Head(q) = q[1]
      /\ \A k \in DOMAIN Tail(q) :
            k # 0 /\ k + 1 \in DOMAIN q /\ Tail(q)[k] = q[k + 1]
  BY TailFacts
<1>2. \A i, j \in DOMAIN q : i # j => Apart(q[i], n, q[j], n)
  BY DEF Spread
<1>3. \A k \in DOMAIN Tail(q) : k \in Int
  <2>1. Tail(q) \in Seq(Messages)
    BY TailFacts
  <2>. QED
    BY <2>1, LenProperties
<1>4. \A k, l \in DOMAIN Tail(q) : k # l => k + 1 # l + 1
  BY <1>3
<1>5. \A k \in DOMAIN Tail(q) : k + 1 # 1
  BY <1>1, <1>3
<1>6. Spread(Tail(q), n)
  BY <1>1, <1>2, <1>4 DEF Spread
<1>7. Away(Head(q), n, Tail(q), n)
  BY <1>1, <1>2, <1>5 DEF Away
<1>. QED
  BY <1>6, <1>7

LEMMA EachFacts ==
    ASSUME IInv
    PROVE  /\ TypeInv /\ JobApart /\ QueueApart /\ ServedApart /\ Begun
           /\ \A c \in Ids : conns[c].queue \in Seq(Messages) /\ conns[c].to \in Nodes
           /\ \A n \in Nodes : served[n] \in Seq(Messages)
           /\ \A g \in Sharers : /\ job[g] \in Seq([id : Nat, msg : Messages])
                                 /\ \A k \in DOMAIN job[g] :
                                       job[g][k].msg \in Messages /\ job[g][k].id \in Ids
           /\ calls \in [Sharers -> Nat]
<1>1. TypeInv /\ EachInv /\ Shapes /\ Places
  BY DEF IInv, TypeInv
<1>2. \A c \in Ids : conns[c].queue \in Seq(Messages) /\ conns[c].to \in Nodes
  BY <1>1, ConnType DEF Shapes, Connections
<1>3. \A g \in Sharers : job[g] \in Seq([id : Nat, msg : Messages])
  BY <1>1 DEF Shapes
<1>4. \A g \in Sharers : \A k \in DOMAIN job[g] : job[g][k].msg \in Messages
  <2> TAKE g \in Sharers
  <2> TAKE k \in DOMAIN job[g]
  <2>1. job[g][k] \in [id : Nat, msg : Messages]
    BY <1>3, ElementOfSeq, LenProperties
  <2>. QED
    BY <2>1
<1>. QED
  BY <1>1, <1>2, <1>3, <1>4 DEF EachInv, Shapes, Places

\* Where nothing is sent or received, new connections are empty.
LEMMA CarryKeepsEach ==
    ASSUME IInv,
           Ids \subseteq Ids',
           \A c \in Ids : conns'[c].to = conns[c].to /\ conns'[c].queue = conns[c].queue,
           \A c \in Ids' \ Ids : conns'[c].queue = <<>>,
           UNCHANGED <<calls, job, served>>
    PROVE  EachInv'
<1>1. JobApart /\ QueueApart /\ ServedApart /\ Begun
  BY EachFacts
<1>2. \A g \in Sharers : \A k \in DOMAIN job[g] : Target(g, k)' = Target(g, k)
  BY EachFacts DEF Target
<1>3. \A x, n, m : Away(x, n, <<>>, m)
  BY DEF Away
<1>4. \A p, n, m : Disjoint(p, n, <<>>, m) /\ Disjoint(<<>>, n, p, m)
  BY <1>3 DEF Disjoint
<1>5. JobApart'
  <2>1. \A g \in Sharers : \A k \in DOMAIN job[g] : \A c \in Ids' :
           Away(job[g][k].msg, Target(g, k), conns'[c].queue, conns'[c].to)
    BY <1>1, <1>3 DEF JobApart
  <2>2. \A g \in Sharers : \A k \in DOMAIN job[g] :
           /\ job[g][k].msg.src = g
           /\ job[g][k].msg.call = calls[g]
           /\ \A l \in DOMAIN job[g] : k # l =>
                 Apart(job[g][k].msg, Target(g, k), job[g][l].msg, Target(g, l))
           /\ \A n \in Nodes : Away(job[g][k].msg, Target(g, k), served[n], n)
    BY <1>1 DEF JobApart
  <2>. QED
    BY <1>2, <2>1, <2>2 DEF JobApart
<1>6. QueueApart'
  <2>1. \A c \in Ids' : Spread(conns'[c].queue, conns'[c].to)
    <3>1. \A n : Spread(<<>>, n)
      BY DEF Spread
    <3>. QED
      BY <1>1, <3>1 DEF QueueApart
  <2>2. \A c, d \in Ids' : c # d =>
           Disjoint(conns'[c].queue, conns'[c].to, conns'[d].queue, conns'[d].to)
    BY <1>1, <1>4 DEF QueueApart
  <2>3. \A c \in Ids' : \A n \in Nodes :
           Disjoint(conns'[c].queue, conns'[c].to, served'[n], n)
    BY <1>1, <1>4 DEF QueueApart
  <2>. QED
    BY <2>1, <2>2, <2>3 DEF QueueApart
<1>7. ServedApart'
  BY <1>1 DEF ServedApart
<1>8. Begun'
  BY <1>1 DEF Begun, Known
<1>. QED
  BY <1>5, <1>6, <1>7, <1>8 DEF EachInv

LEMMA ShareKeepsEach ==
    ASSUME IInv, NEW g \in Sharers, ShareMessage(g) \/ DistributeMessage(g)
    PROVE  EachInv'
<1>1. /\ calls' = [calls EXCEPT ![g] = calls[g] + 1]
      /\ \A h \in Sharers \ {g} : job'[h] = job[h]
      /\ \A k \in DOMAIN job'[g] :
            /\ job'[g][k].id \in Ids
            /\ job'[g][k].msg.src = g
            /\ job'[g][k].msg.call = calls[g] + 1
            /\ \A l \in DOMAIN job'[g] : k # l =>
                  Apart(job'[g][k].msg, conns[job'[g][k].id].to,
                        job'[g][l].msg, conns[job'[g][l].id].to)
  BY ShareEffect
<1>2. UNCHANGED <<conns, served>> /\ Ids' = Ids
  BY DEF ShareMessage, DistributeMessage, Ids
<1>3. JobApart /\ QueueApart /\ ServedApart /\ Begun
  BY EachFacts
<1>4. /\ calls'[g] = calls[g] + 1
      /\ calls[g] \in Nat
      /\ \A h \in Sharers \ {g} : calls'[h] = calls[h]
      /\ \A h \in Sharers : calls[h] \in Nat /\ calls[h] <= calls'[h] /\ calls'[h] \in Nat
  BY <1>1, EachFacts
<1>5. \A q \in Seq(Messages) : \A x, n, m :
         Known(q) /\ x.src = g /\ x.call = calls[g] + 1 => Away(x, n, q, m)
  <2> SUFFICES ASSUME NEW q \in Seq(Messages), NEW x, NEW n, NEW m, Known(q),
                      x.src = g, x.call = calls[g] + 1, NEW j \in DOMAIN q
               PROVE  Apart(x, n, q[j], m)
    BY DEF Away
  <2>1. q[j] \in Messages
    BY ElementOfSeq, LenProperties
  <2>2. q[j].call \in Nat /\ q[j].call <= calls[q[j].src]
    BY <2>1 DEF Known, Messages
  <2>3. q[j].src = g => q[j].call # calls[g] + 1
    BY <1>4, <2>2
  <2>. QED
    BY <2>3 DEF Apart
<1>6. JobApart'
  <2>1. ASSUME NEW h \in Sharers \ {g}, NEW k \in DOMAIN job'[h]
        PROVE  /\ job'[h][k].msg.src = h
               /\ job'[h][k].msg.call = calls'[h]
               /\ \A l \in DOMAIN job'[h] : k # l =>
                     Apart(job'[h][k].msg, Target(h, k)', job'[h][l].msg, Target(h, l)')
               /\ \A c \in Ids' :
                     Away(job'[h][k].msg, Target(h, k)', conns'[c].queue, conns'[c].to)
               /\ \A n \in Nodes : Away(job'[h][k].msg, Target(h, k)', served'[n], n)
    <3>1. job'[h] = job[h] /\ calls'[h] = calls[h] /\ h \in Sharers
      BY <1>1, <1>4
    <3>2. \A l : Target(h, l)' = Target(h, l)
      BY <1>2, <3>1 DEF Target
    <3>. QED
      BY <1>2, <1>3, <3>1, <3>2 DEF JobApart
  <2>2. ASSUME NEW k \in DOMAIN job'[g]
        PROVE  /\ job'[g][k].msg.src = g
               /\ job'[g][k].msg.call = calls'[g]
               /\ \A l \in DOMAIN job'[g] : k # l =>
                     Apart(job'[g][k].msg, Target(g, k)', job'[g][l].msg, Target(g, l)')
               /\ \A c \in Ids' :
                     Away(job'[g][k].msg, Target(g, k)', conns'[c].queue, conns'[c].to)
               /\ \A n \in Nodes : Away(job'[g][k].msg, Target(g, k)', served'[n], n)
    <3>1. job'[g][k].msg.src = g /\ job'[g][k].msg.call = calls[g] + 1
      BY <1>1
    <3>2. \A l : Target(g, l)' = conns[job'[g][l].id].to
      BY <1>2 DEF Target
    <3>3. /\ \A c \in Ids : conns[c].queue \in Seq(Messages) /\ Known(conns[c].queue)
          /\ \A n \in Nodes : served[n] \in Seq(Messages) /\ Known(served[n])
      BY <1>3, EachFacts DEF Begun
    <3>4. /\ \A c \in Ids :
                Away(job'[g][k].msg, Target(g, k)', conns[c].queue, conns[c].to)
          /\ \A n \in Nodes : Away(job'[g][k].msg, Target(g, k)', served[n], n)
      BY <1>5, <3>1, <3>3
    <3>5. \A l \in DOMAIN job'[g] : k # l =>
             Apart(job'[g][k].msg, Target(g, k)', job'[g][l].msg, Target(g, l)')
      BY <1>1, <3>2
    <3>. QED
      BY <1>2, <1>4, <3>1, <3>4, <3>5
  <2>. QED
    BY <2>1, <2>2 DEF JobApart
<1>7. QueueApart' /\ ServedApart'
  BY <1>2, <1>3 DEF QueueApart, ServedApart
<1>8. Begun'
  <2>1. \A q \in Seq(Messages) : Known(q) => Known(q)'
    <3> SUFFICES ASSUME NEW q \in Seq(Messages), Known(q), NEW i \in DOMAIN q
                 PROVE  q[i].call <= calls'[q[i].src]
      BY DEF Known
    <3>1. q[i] \in Messages
      BY ElementOfSeq, LenProperties
    <3>2. q[i].call \in Nat /\ q[i].src \in Sharers /\ q[i].call <= calls[q[i].src]
      BY <3>1 DEF Known, Messages
    <3>. QED
      BY <1>4, <3>2
  <2>2. \A c \in Ids : Known(conns[c].queue) /\ conns[c].queue \in Seq(Messages)
    BY <1>3, EachFacts DEF Begun
  <2>3. \A n \in Nodes : Known(served[n]) /\ served[n] \in Seq(Messages)
    BY <1>3, EachFacts DEF Begun
  <2>4. \A c \in Ids : Known(conns[c].queue)'
    BY <1>2, <2>1, <2>2 DEF Known
  <2>5. \A n \in Nodes : Known(served[n])'
    BY <1>2, <2>1, <2>3 DEF Known
  <2>. QED
    BY <1>2, <2>4, <2>5 DEF Begun
<1>. QED
  BY <1>6, <1>7, <1>8 DEF EachInv

LEMMA SendKeepsEach ==
    ASSUME IInv, NEW g \in Sharers, Send(g)
    PROVE  EachInv'
<1> DEFINE c == Head(job[g]).id
           x == Head(job[g]).msg
           t == conns[c].to
<1>1. JobApart /\ QueueApart /\ ServedApart /\ Begun
  BY EachFacts
<1>2. /\ c \in Ids /\ x \in Messages
      /\ conns[c].queue \in Seq(Messages)
      /\ Ids' = Ids
      /\ conns'[c].queue = Append(conns[c].queue, x)
      /\ \A d \in Ids \ {c} : conns'[d].queue = conns[d].queue
      /\ \A d \in Ids : conns'[d].to = conns[d].to
  BY SendEffect
<1>3. /\ job[g] # <<>>
      /\ job' = [job EXCEPT ![g] = Tail(job[g])]
      /\ UNCHANGED <<calls, served>>
  BY DEF Send
<1>4. /\ 1 \in DOMAIN job[g] /\ Head(job[g]) = job[g][1]
      /\ \A k \in DOMAIN Tail(job[g]) :
            k # 0 /\ k + 1 \in DOMAIN job[g] /\ Tail(job[g])[k] = job[g][k + 1]
      /\ \A k \in DOMAIN Tail(job[g]) : k \in Int
  <2>1. job[g] \in Seq([id : Nat, msg : Messages])
    BY EachFacts
  <2>2. Tail(job[g]) \in Seq([id : Nat, msg : Messages])
    BY <1>3, <2>1, TailFacts
  <2>. QED
    BY <1>3, <2>1, <2>2, TailFacts, LenProperties
<1>5. /\ job'[g] = Tail(job[g])
      /\ \A h \in Sharers \ {g} : job'[h] = job[h]
  BY <1>3 DEF IInv, TypeInv, Shapes
<1>6. /\ x.src = g /\ x.call = calls[g]
      /\ t = Target(g, 1)
      /\ \A d \in Ids : Away(x, t, conns[d].queue, conns[d].to)
      /\ \A n \in Nodes : Away(x, t, served[n], n)
  BY <1>1, <1>4 DEF JobApart, Target
<1>7. \A l \in DOMAIN job[g] : l # 1 => Apart(job[g][l].msg, Target(g, l), x, t)
  BY <1>1, <1>4, <1>6 DEF JobApart
<1>8. \A h \in Sharers \ {g} : \A l \in DOMAIN job[h] :
         Apart(job[h][l].msg, Target(h, l), x, t)
  BY <1>1, <1>6 DEF JobApart, Apart
<1>9. \A h \in Sharers : \A l \in DOMAIN job[h] :
         h # g \/ l # 1 =>
            \A d \in Ids' :
               Away(job[h][l].msg, Target(h, l), conns'[d].queue, conns'[d].to)
  <2> SUFFICES ASSUME NEW h \in Sharers, NEW l \in DOMAIN job[h], h # g \/ l # 1,
                      NEW d \in Ids
               PROVE  Away(job[h][l].msg, Target(h, l), conns'[d].queue, conns'[d].to)
    BY <1>2
  <2>1. Away(job[h][l].msg, Target(h, l), conns[d].queue, conns[d].to)
    BY <1>1 DEF JobApart
  <2>2. CASE d # c
    BY <1>2, <2>1, <2>2
  <2>3. CASE d = c
    <3>1. Apart(job[h][l].msg, Target(h, l), x, t)
      BY <1>7, <1>8
    <3>2. Away(job[h][l].msg, Target(h, l), conns[c].queue, t)
      BY <2>1, <2>3
    <3> HIDE DEF c, x, t
    <3>3. Away(job[h][l].msg, Target(h, l), Append(conns[c].queue, x), t)
      BY <1>2, <3>1, <3>2, AwayAppend
    <3>. QED
      BY <1>2, <2>3, <3>3 DEF t
  <2>. QED
    BY <2>2, <2>3
<1>10. \A h \in Sharers : \A l : Target(h, l)' = conns'[job'[h][l].id].to
  BY DEF Target
\* What is left to send was there before, and is not the first.
<1>11. \A h \in Sharers : \A k \in DOMAIN job'[h] :
          LET l == IF h = g THEN k + 1 ELSE k IN
          /\ l \in DOMAIN job[h] /\ (h # g \/ l # 1)
          /\ job'[h][k] = job[h][l]
          /\ Target(h, k)' = Target(h, l)
  <2> SUFFICES ASSUME NEW h \in Sharers, NEW k \in DOMAIN job'[h]
               PROVE  LET l == IF h = g THEN k + 1 ELSE k IN
                      /\ l \in DOMAIN job[h] /\ (h # g \/ l # 1)
                      /\ job'[h][k] = job[h][l]
                      /\ Target(h, k)' = Target(h, l)
    OBVIOUS
  <2>1. CASE h = g
    <3>0. k \in DOMAIN Tail(job[g]) /\ k \in Int /\ k # 0
      BY <1>4, <1>5, <2>1
    <3>1. k + 1 \in DOMAIN job[g] /\ k + 1 # 1 /\ job'[g][k] = job[g][k + 1]
      BY <1>4, <1>5, <3>0
    <3>2. Target(g, k)' = Target(g, k + 1)
      BY <1>2, <3>1, EachFacts DEF Target
    <3>. QED
      BY <2>1, <3>1, <3>2
  <2>2. CASE h # g
    <3>1. k \in DOMAIN job[h] /\ job'[h][k] = job[h][k]
      BY <1>5, <2>2
    <3>2. Target(h, k)' = Target(h, k)
      BY <1>2, <3>1, EachFacts DEF Target
    <3>. QED
      BY <2>2, <3>1, <3>2
  <2>. QED
    BY <2>1, <2>2
<1>12. JobApart'
  <2> SUFFICES ASSUME NEW h \in Sharers, NEW k \in DOMAIN job'[h]
               PROVE  /\ job'[h][k].msg.src = h
                      /\ job'[h][k].msg.call = calls'[h]
                      /\ \A l \in DOMAIN job'[h] : k # l =>
                            Apart(job'[h][k].msg, Target(h, k)',
                                  job'[h][l].msg, Target(h, l)')
                      /\ \A d \in Ids' : Away(job'[h][k].msg, Target(h, k)',
                                              conns'[d].queue, conns'[d].to)
                      /\ \A n \in Nodes :
                            Away(job'[h][k].msg, Target(h, k)', served'[n], n)
    BY DEF JobApart
  <2> DEFINE old(k0) == IF h = g THEN k0 + 1 ELSE k0
  <2>1. \A l \in DOMAIN job'[h] :
           /\ old(l) \in DOMAIN job[h] /\ (h # g \/ old(l) # 1)
           /\ job'[h][l] = job[h][old(l)]
           /\ Target(h, l)' = Target(h, old(l))
    BY <1>11
  <2>2. \A l \in DOMAIN job'[h] : k # l => old(k) # old(l)
    <3>1. CASE h = g
      <4>1. \A l \in DOMAIN job'[h] : l \in Int
        BY <1>4, <1>5, <3>1
      <4>. QED
        BY <3>1, <4>1
    <3>2. CASE h # g
      BY <3>2
    <3>. QED
      BY <3>1, <3>2
  <2> HIDE DEF old
  <2>3. /\ job[h][old(k)].msg.src = h
        /\ job[h][old(k)].msg.call = calls[h]
        /\ \A l \in DOMAIN job[h] : old(k) # l =>
              Apart(job[h][old(k)].msg, Target(h, old(k)), job[h][l].msg, Target(h, l))
        /\ \A n \in Nodes : Away(job[h][old(k)].msg, Target(h, old(k)), served[n], n)
    BY <1>1, <2>1 DEF JobApart
  <2>4. \A d \in Ids' : Away(job[h][old(k)].msg, Target(h, old(k)),
                             conns'[d].queue, conns'[d].to)
    BY <1>9, <2>1
  <2>5. \A l \in DOMAIN job'[h] : k # l =>
           Apart(job'[h][k].msg, Target(h, k)', job'[h][l].msg, Target(h, l)')
    BY <2>1, <2>2, <2>3
  <2>6. job'[h][k] = job[h][old(k)] /\ Target(h, k)' = Target(h, old(k))
    BY <2>1
  <2>. QED
    BY <1>3, <2>3, <2>4, <2>5, <2>6
<1> HIDE DEF c, x, t
<1>13. t = conns[c].to /\ conns'[c].to = t
  BY <1>2 DEF t
<1>14. QueueApart'
  <2>1. Spread(Append(conns[c].queue, x), t)
    BY <1>1, <1>2, <1>6, <1>13, SpreadAppend DEF QueueApart
  <2>2. \A d \in Ids \ {c} :
           /\ Disjoint(Append(conns[c].queue, x), t, conns[d].queue, conns[d].to)
           /\ Disjoint(conns[d].queue, conns[d].to, Append(conns[c].queue, x), t)
    <3> TAKE d \in Ids \ {c}
    <3>1. Disjoint(conns[c].queue, t, conns[d].queue, conns[d].to)
      BY <1>1, <1>2, <1>13 DEF QueueApart
    <3>2. Away(x, t, conns[d].queue, conns[d].to)
      BY <1>6
    <3>3. Disjoint(Append(conns[c].queue, x), t, conns[d].queue, conns[d].to)
      BY <1>2, <3>1, <3>2, DisjointAppend
    <3>. QED
      BY <3>3, DisjointSymmetric
  <2>3. \A n \in Nodes : Disjoint(Append(conns[c].queue, x), t, served[n], n)
    <3> TAKE n \in Nodes
    <3>1. Disjoint(conns[c].queue, t, served[n], n)
      BY <1>1, <1>2, <1>13 DEF QueueApart
    <3>2. Away(x, t, served[n], n)
      BY <1>6
    <3>. QED
      BY <1>2, <3>1, <3>2, DisjointAppend
  <2>4. \A d \in Ids : d # c => /\ conns'[d].queue = conns[d].queue
                              /\ conns'[d].to = conns[d].to
    BY <1>2
  <2>5. \A d \in Ids : Spread(conns'[d].queue, conns'[d].to)
    BY <1>1, <1>2, <1>13, <2>1, <2>4 DEF QueueApart
  <2>6. \A d, e \in Ids : d # e =>
           Disjoint(conns'[d].queue, conns'[d].to, conns'[e].queue, conns'[e].to)
    <3> SUFFICES ASSUME NEW d \in Ids, NEW e \in Ids, d # e
                 PROVE  Disjoint(conns'[d].queue, conns'[d].to,
                                 conns'[e].queue, conns'[e].to)
      OBVIOUS
    <3>1. CASE d = c
      BY <1>2, <1>13, <2>2, <2>4, <3>1
    <3>2. CASE e = c
      BY <1>2, <1>13, <2>2, <2>4, <3>2
    <3>3. CASE d # c /\ e # c
      BY <1>1, <2>4, <3>3 DEF QueueApart
    <3>. QED
      BY <3>1, <3>2, <3>3
  <2>7. \A d \in Ids : \A n \in Nodes :
           Disjoint(conns'[d].queue, conns'[d].to, served[n], n)
    BY <1>1, <1>2, <1>13, <2>3, <2>4 DEF QueueApart
  <2>. QED
    BY <1>2, <1>3, <2>5, <2>6, <2>7 DEF QueueApart
<1>15. ServedApart'
  BY <1>1, <1>3 DEF ServedApart
<1>16. Begun'
  <2>1. Known(Append(conns[c].queue, x))
    <3>1. Known(conns[c].queue)
      BY <1>1, <1>2 DEF Begun
    <3>2. x.call <= calls[x.src]
      BY <1>6, EachFacts
    <3>. QED
      BY <1>2, <3>1, <3>2, AppendFacts DEF Known
  <2>2. \A d \in Ids : Known(conns'[d].queue)
    BY <1>1, <1>2, <2>1 DEF Begun
  <2>. QED
    BY <1>1, <1>2, <1>3, <2>2 DEF Begun, Known
<1>. QED
  BY <1>12, <1>14, <1>15, <1>16 DEF EachInv

LEMMA ServeKeepsEach ==
    ASSUME IInv, NEW c \in Ids, ServeRequest(c)
    PROVE  EachInv'
<1> DEFINE q == conns[c].queue
           x == Head(conns[c].queue)
           t == conns[c].to
<1>1. JobApart /\ QueueApart /\ ServedApart /\ Begun /\ Shapes
  BY EachFacts DEF TypeInv
<1>2. /\ q \in Seq(Messages) /\ q # <<>>
      /\ t \in Nodes
      /\ Ids' = Ids
      /\ conns'[c].queue = Tail(q)
      /\ \A d \in Ids \ {c} : conns'[d].queue = conns[d].queue
      /\ \A d \in Ids : conns'[d].to = conns[d].to
  BY <1>1, ServeEffect
<1>3. /\ UNCHANGED <<calls, job>>
      /\ served' = [served EXCEPT ![t] = Append(served[t], x)]
  BY DEF ServeRequest, shareVars
<1>4. /\ served'[t] = Append(served[t], x)
      /\ \A n \in Nodes \ {t} : served'[n] = served[n]
      /\ served[t] \in Seq(Messages)
  BY <1>1, <1>2, <1>3 DEF Shapes
<1>5. x \in Messages
  BY <1>2, TailFacts
<1>6. t = conns[c].to /\ conns'[c].to = t /\ q = conns[c].queue
  BY <1>2
<1> HIDE DEF q, x, t
<1>7. x = Head(q)
  BY DEF x, q
<1>8. JobApart'
  <2> SUFFICES ASSUME NEW g \in Sharers, NEW k \in DOMAIN job[g]
               PROVE  /\ job[g][k].msg.src = g
                      /\ job[g][k].msg.call = calls[g]
                      /\ \A l \in DOMAIN job[g] : k # l =>
                            Apart(job[g][k].msg, Target(g, k)',
                                  job[g][l].msg, Target(g, l)')
                      /\ \A d \in Ids : Away(job[g][k].msg, Target(g, k)',
                                             conns'[d].queue, conns'[d].to)
                      /\ \A n \in Nodes :
                            Away(job[g][k].msg, Target(g, k)', served'[n], n)
    BY <1>2, <1>3 DEF JobApart
  <2>1. \A l \in DOMAIN job[g] : Target(g, l)' = Target(g, l)
    BY <1>2, <1>3, EachFacts DEF Target
  <2>2. /\ job[g][k].msg.src = g
        /\ job[g][k].msg.call = calls[g]
        /\ \A l \in DOMAIN job[g] : k # l =>
              Apart(job[g][k].msg, Target(g, k), job[g][l].msg, Target(g, l))
        /\ \A d \in Ids :
              Away(job[g][k].msg, Target(g, k), conns[d].queue, conns[d].to)
        /\ \A n \in Nodes : Away(job[g][k].msg, Target(g, k), served[n], n)
    BY <1>1 DEF JobApart
  <2>3. /\ Away(job[g][k].msg, Target(g, k), Tail(q), t)
        /\ Apart(job[g][k].msg, Target(g, k), x, t)
    <3>1. Away(job[g][k].msg, Target(g, k), q, t)
      BY <1>6, <2>2
    <3>. QED
      BY <1>2, <1>7, <3>1, AwayTail
  <2>4. Away(job[g][k].msg, Target(g, k), Append(served[t], x), t)
    BY <1>2, <1>4, <1>5, <2>2, <2>3, AwayAppend
  <2>5. \A d \in Ids : Away(job[g][k].msg, Target(g, k), conns'[d].queue, conns'[d].to)
    BY <1>2, <1>6, <2>2, <2>3
  <2>6. \A n \in Nodes : Away(job[g][k].msg, Target(g, k), served'[n], n)
    BY <1>4, <2>2, <2>4
  <2>. QED
    BY <2>1, <2>2, <2>5, <2>6
<1>9. \A d \in Ids \ {c} :
         /\ Disjoint(Tail(q), t, conns[d].queue, conns[d].to)
         /\ Away(x, t, conns[d].queue, conns[d].to)
  BY <1>1, <1>2, <1>6, <1>7, DisjointTail DEF QueueApart
<1>10. \A n \in Nodes : /\ Disjoint(Tail(q), t, served[n], n)
                        /\ Away(x, t, served[n], n)
  BY <1>1, <1>2, <1>6, <1>7, DisjointTail DEF QueueApart
<1>11. Spread(Tail(q), t) /\ Away(x, t, Tail(q), t)
  BY <1>1, <1>2, <1>6, <1>7, SpreadTail DEF QueueApart
<1>12. \A d \in Ids : /\ conns'[d].to = conns[d].to
                      /\ Away(x, t, conns'[d].queue, conns[d].to)
                      /\ \A n \in Nodes :
                            Disjoint(conns'[d].queue, conns[d].to, served[n], n)
  BY <1>1, <1>2, <1>6, <1>9, <1>10, <1>11 DEF QueueApart
<1>13. QueueApart'
  <2>1. \A d \in Ids : Spread(conns'[d].queue, conns'[d].to)
    BY <1>1, <1>2, <1>6, <1>11 DEF QueueApart
  <2>2. \A d, e \in Ids : d # e =>
           Disjoint(conns'[d].queue, conns'[d].to, conns'[e].queue, conns'[e].to)
    <3>1. \A d \in Ids \ {c} : Disjoint(conns[d].queue, conns[d].to, Tail(q), t)
      BY <1>9, DisjointSymmetric
    <3>. QED
      BY <1>1, <1>2, <1>6, <1>9, <3>1 DEF QueueApart
  <2>3. \A d \in Ids :
           Disjoint(conns'[d].queue, conns[d].to, Append(served[t], x), t)
    <3> TAKE d \in Ids
    <3>1. Disjoint(served[t], t, conns'[d].queue, conns[d].to)
      BY <1>2, <1>12, DisjointSymmetric
    <3>2. Disjoint(Append(served[t], x), t, conns'[d].queue, conns[d].to)
      BY <1>4, <1>5, <1>12, <3>1, DisjointAppend
    <3>. QED
      BY <3>2, DisjointSymmetric
  <2>4. \A d \in Ids : \A n \in Nodes :
           Disjoint(conns'[d].queue, conns'[d].to, served'[n], n)
    BY <1>4, <1>12, <2>3
  <2>. QED
    BY <1>2, <2>1, <2>2, <2>4 DEF QueueApart
<1>14. ServedApart'
  <2>1. Spread(Append(served[t], x), t)
    BY <1>1, <1>2, <1>4, <1>5, <1>10, SpreadAppend DEF ServedApart
  <2>2. \A n \in Nodes \ {t} : /\ Disjoint(Append(served[t], x), t, served[n], n)
                               /\ Disjoint(served[n], n, Append(served[t], x), t)
    <3> TAKE n \in Nodes \ {t}
    <3>1. Disjoint(served[t], t, served[n], n) /\ Away(x, t, served[n], n)
      BY <1>1, <1>2, <1>10 DEF ServedApart
    <3>2. Disjoint(Append(served[t], x), t, served[n], n)
      BY <1>4, <1>5, <3>1, DisjointAppend
    <3>. QED
      BY <3>2, DisjointSymmetric
  <2>3. \A n \in Nodes : Spread(served'[n], n)
    BY <1>1, <1>4, <2>1 DEF ServedApart
  <2>4. \A n, m \in Nodes : n # m => Disjoint(served'[n], n, served'[m], m)
    BY <1>1, <1>4, <2>2 DEF ServedApart
  <2>. QED
    BY <2>3, <2>4 DEF ServedApart
<1>15. Begun'
  <2>1. Known(q) /\ Known(served[t])
    BY <1>1, <1>2, <1>6 DEF Begun
  <2>2. Known(Tail(q)) /\ x.call <= calls[x.src]
    BY <1>2, <1>7, <2>1, TailFacts DEF Known
  <2>3. Known(Append(served[t], x))
    BY <1>4, <1>5, <2>1, <2>2, AppendFacts DEF Known
  <2>4. \A d \in Ids : Known(conns'[d].queue)
    BY <1>1, <1>2, <2>2 DEF Begun
  <2>5. \A n \in Nodes : Known(served'[n])
    BY <1>1, <1>4, <2>3 DEF Begun
  <2>. QED
    BY <1>2, <1>3, <2>4, <2>5 DEF Begun, Known
<1>. QED
  BY <1>8, <1>13, <1>14, <1>15 DEF EachInv

LEMMA NextEachInv == ASSUME IInv, Next PROVE EachInv'
<1>1. ASSUME KeepsQueues, UNCHANGED <<calls, job, served>> PROVE EachInv'
  BY <1>1, CarryKeepsEach DEF KeepsQueues
<1>2. ASSUME NEW n \in Nodes,
             Run(n) \/ Listen(n) \/ Close(n) \/ CloseGetAll(n) \/ CloseDone(n)
             \/ Add(n) \/ AddMember(n)
      PROVE  EachInv'
  <2>1. UNCHANGED <<conns, calls, job, served>>
    BY <1>2 DEF Run, Listen, Close, CloseGetAll, CloseDone, Add, AddMember, shareVars
  <2>. QED
    BY <1>1, <2>1, QuietSteps
<1>3. ASSUME NEW n \in Nodes, ServeEnds(n) \/ CloseFlag(n) \/ CloseStream(n)
      PROVE  EachInv'
  <2>1. UNCHANGED <<calls, job, served>>
    BY <1>3 DEF ServeEnds, CloseFlag, CloseStream, shareVars
  <2>. QED
    BY <1>1, <1>3, <2>1, QuietSteps
<1>4. ASSUME NEW c \in Ids, Notice(c) \/ StreamBreaks(c) PROVE EachInv'
  <2>1. UNCHANGED <<calls, job, served>>
    BY <1>4 DEF Notice, Accept, AcceptedFails, DialledFails, StreamBreaks, shareVars
  <2>. QED
    BY <1>1, <1>4, <2>1, QuietSteps
<1>5. ASSUME NEW n \in Nodes, NEW t \in Nodes, Dial(n, t) PROVE EachInv'
  <2>1. Shapes
    BY DEF IInv, TypeInv
  <2>2. /\ Len(conns) \in Nat
        /\ Ids = 1 .. Len(conns)
        /\ Ids' = 1 .. Len(conns) + 1
        /\ \A c \in Ids : conns'[c] = conns[c]
        /\ conns'[Len(conns) + 1] =
              [from |-> n, to |-> t, up |-> TRUE, dialled |-> "open",
               accepted |-> "no", queue |-> <<>>]
    BY <1>5, <2>1, DialEffect
  <2>3. conns'[Len(conns) + 1].queue = <<>>
    BY <2>2
  <2>4. Ids \subseteq Ids' /\ \A c \in Ids' \ Ids : c = Len(conns) + 1
    BY <2>2
  <2>5. UNCHANGED <<calls, job, served>>
    BY <1>5 DEF Dial, shareVars
  <2>. QED
    BY <2>2, <2>3, <2>4, <2>5, CarryKeepsEach
<1>6. \A n \in scenario.servers \cup scenario.closing : n \in Nodes
  BY NetworkAssumption DEF IInv, TypeInv, Shapes
<1>. QED
  BY <1>2, <1>3, <1>4, <1>5, <1>6, ShareKeepsEach, SendKeepsEach, ServeKeepsEach
     DEF Next, ServerStep, ConnectStep, CloseStep

-----------------------------------------------------------------------------
(* What Close may leave open.                                              *)

\* No connection opens or leads elsewhere, and Connect takes up no new one.
KeepsDialled ==
    /\ Ids' = Ids
    /\ \A c \in Ids :
          /\ conns'[c].from = conns[c].from
          /\ conns'[c].to = conns[c].to
          /\ conns'[c].dialled = "open" => conns[c].dialled = "open"
          /\ conns'[c].dialled \in {"open", "closed"}
    /\ \A n \in Nodes :
          \/ connectPc'[n] = connectPc[n]
          \/ connectPc[n].at # "add" /\ connectPc'[n].at # "add"
    /\ UNCHANGED <<connMap, late>>

LEMMA LeakFacts ==
    ASSUME IInv
    PROVE  /\ ClosePlaces
           /\ \A c \in Ids : conns[c].dialled = "open" => Found(c)
           /\ \A c \in Ids : /\ conns[c].from \in Nodes
                             /\ conns[c].to \in Nodes
                             /\ conns[c].dialled \in {"open", "closed"}
           /\ \A n \in Nodes : snapshot[n] # <<>> =>
                 /\ Head(snapshot[n]) \in Ids
                 /\ 1 \in DOMAIN snapshot[n]
                 /\ Head(snapshot[n]) = snapshot[n][1]
<1>1. Shapes /\ Places /\ LeakInv
  BY DEF IInv, TypeInv
<1>2. \A c \in Ids : conns[c] \in Connections
  BY <1>1, ConnType DEF Shapes
<1>3. \A n \in Nodes : snapshot[n] # <<>> =>
         /\ 1 \in DOMAIN snapshot[n]
         /\ Head(snapshot[n]) = snapshot[n][1]
  BY <1>1, TailFacts DEF Shapes
<1>. QED
  BY <1>1, <1>2, <1>3 DEF LeakInv, Places, Connections

LEMMA QuietIsDialled ==
    ASSUME IInv, KeepsQueues, UNCHANGED <<connectPc, connMap, late>>
    PROVE  KeepsDialled
<1>1. conns' \in Seq(Connections) /\ Ids' = DOMAIN conns'
  BY DEF KeepsQueues, Ids
<1>2. \A c \in Ids' : conns'[c] \in Connections
  BY <1>1, ElementOfSeq, LenProperties
<1>. QED
  BY <1>2 DEF KeepsQueues, KeepsDialled, Connections

LEMMA QuietKeepsLeak ==
    ASSUME IInv, KeepsDialled, UNCHANGED <<closePc, snapshot>>
    PROVE  LeakInv'
<1>1. ClosePlaces'
  BY LeakFacts DEF KeepsDialled, ClosePlaces
<1>2. ASSUME NEW c \in Ids, conns'[c].dialled = "open" PROVE Found(c)'
  <2>1. Found(c) /\ conns[c].from \in Nodes
    BY <1>2, LeakFacts DEF KeepsDialled
  <2>2. CASE \E d \in Ids : /\ d > c
                            /\ conns[d].from = conns[c].from
                            /\ conns[d].to = conns[c].to
    BY <2>2 DEF KeepsDialled, Found
  <2>3. CASE c \in late
    BY <2>3 DEF KeepsDialled, Found
  <2>4. CASE connectPc[conns[c].from].at = "add" /\ connectPc[conns[c].from].id = c
    BY <2>1, <2>4 DEF KeepsDialled, Found
  <2>5. CASE /\ closePc[conns[c].from] \in {"open", "get"}
             /\ connMap[conns[c].from][conns[c].to] = c
    BY <2>5 DEF KeepsDialled, Found
  <2>6. CASE /\ closePc[conns[c].from] \in {"loop", "lock"}
             /\ \E k \in DOMAIN snapshot[conns[c].from] : snapshot[conns[c].from][k] = c
    BY <2>6 DEF KeepsDialled, Found
  <2>. QED
    BY <2>1, <2>2, <2>3, <2>4, <2>5, <2>6 DEF Found
<1>. QED
  BY <1>1, <1>2 DEF LeakInv, KeepsDialled

\* Close of one node goes on: what it could still find it can find.
LEMMA CloseKeepsLeak ==
    ASSUME IInv, KeepsDialled, NEW n \in Nodes,
           \A m \in Nodes \ {n} : /\ closePc'[m] = closePc[m]
                                  /\ snapshot'[m] = snapshot[m],
           closePc'[n] = "lock" =>
              snapshot'[n] # <<>> /\ conns'[Head(snapshot'[n])].dialled = "closed",
           \A c \in Ids :
              (/\ conns[c].from = n
               /\ conns'[c].dialled = "open"
               /\ \/ closePc[n] \in {"open", "get"} /\ connMap[n][conns[c].to] = c
                  \/ /\ closePc[n] \in {"loop", "lock"}
                     /\ \E k \in DOMAIN snapshot[n] : snapshot[n][k] = c)
              => \/ closePc'[n] \in {"open", "get"} /\ connMap[n][conns[c].to] = c
                 \/ /\ closePc'[n] \in {"loop", "lock"}
                    /\ \E k \in DOMAIN snapshot'[n] : snapshot'[n][k] = c
    PROVE  LeakInv'
<1>1. ClosePlaces'
  <2>1. \A m \in Nodes : closePc'[m] = "lock" =>
           snapshot'[m] # <<>> /\ conns'[Head(snapshot'[m])].dialled = "closed"
    BY LeakFacts DEF KeepsDialled, ClosePlaces
  <2>2. \A m \in Nodes : connectPc'[m].at = "add" =>
           \A c \in Ids' : conns'[c].from = m => c <= connectPc'[m].id
    BY LeakFacts DEF KeepsDialled, ClosePlaces
  <2>. QED
    BY <2>1, <2>2 DEF ClosePlaces
<1>2. ASSUME NEW c \in Ids, conns'[c].dialled = "open" PROVE Found(c)'
  <2>1. Found(c) /\ conns[c].from \in Nodes /\ conns'[c].from = conns[c].from
    BY <1>2, LeakFacts DEF KeepsDialled
  <2>2. CASE \E d \in Ids : /\ d > c
                            /\ conns[d].from = conns[c].from
                            /\ conns[d].to = conns[c].to
    BY <2>2 DEF KeepsDialled, Found
  <2>3. CASE c \in late
    BY <2>3 DEF KeepsDialled, Found
  <2>4. CASE connectPc[conns[c].from].at = "add" /\ connectPc[conns[c].from].id = c
    BY <2>1, <2>4 DEF KeepsDialled, Found
  <2>5. CASE \/ /\ closePc[conns[c].from] \in {"open", "get"}
                /\ connMap[conns[c].from][conns[c].to] = c
             \/ /\ closePc[conns[c].from] \in {"loop", "lock"}
                /\ \E k \in DOMAIN snapshot[conns[c].from] :
                      snapshot[conns[c].from][k] = c
    <3>1. CASE conns[c].from = n
      <4>1. \/ closePc'[n] \in {"open", "get"} /\ connMap[n][conns[c].to] = c
            \/ /\ closePc'[n] \in {"loop", "lock"}
               /\ \E k \in DOMAIN snapshot'[n] : snapshot'[n][k] = c
        BY <1>2, <2>5, <3>1
      <4>. QED
        BY <2>1, <3>1, <4>1 DEF KeepsDialled, Found
    <3>2. CASE conns[c].from # n
      BY <2>1, <2>5, <3>2 DEF KeepsDialled, Found
    <3>. QED
      BY <3>1, <3>2
  <2>. QED
    BY <2>1, <2>2, <2>3, <2>4, <2>5 DEF Found
<1>. QED
  BY <1>1, <1>2 DEF LeakInv, KeepsDialled

LEMMA CloseLeak ==
    ASSUME IInv, NEW n \in Nodes,
           Close(n) \/ CloseGetAll(n) \/ CloseFlag(n) \/ CloseStream(n) \/ CloseDone(n)
    PROVE  LeakInv'
<1>1. Shapes /\ Places
  BY DEF IInv, TypeInv
<1>2. KeepsQueues
  <2>1. UNCHANGED conns \/ CloseFlag(n) \/ CloseStream(n)
    BY DEF Close, CloseGetAll, CloseDone
  <2>. QED
    BY <2>1, QuietSteps
<1>3. UNCHANGED <<connectPc, connMap, late>>
  BY DEF Close, CloseGetAll, CloseFlag, CloseStream, CloseDone, clientVars
<1>4. KeepsDialled
  BY <1>2, <1>3, QuietIsDialled
<1>5. /\ closePc \in [Nodes -> {"open", "get", "loop", "lock", "done"}]
      /\ snapshot \in [Nodes -> Seq(Nat)]
  BY <1>1 DEF Shapes
<1>6. CASE Close(n)
  <2>1. /\ closePc[n] = "open" /\ closePc' = [closePc EXCEPT ![n] = "get"]
        /\ snapshot' = snapshot
    BY <1>6 DEF Close
  <2>2. closePc'[n] = "get" /\ \A m \in Nodes \ {n} : closePc'[m] = closePc[m]
    BY <1>5, <2>1
  <2>. QED
    BY <1>4, <2>1, <2>2, CloseKeepsLeak
<1>7. CASE CloseGetAll(n)
  <2>1. PICK q \in GetAll(n) : snapshot' = [snapshot EXCEPT ![n] = q]
    BY <1>7 DEF CloseGetAll
  <2>2. closePc[n] = "get" /\ closePc' = [closePc EXCEPT ![n] = "loop"]
    BY <1>7 DEF CloseGetAll
  <2>3. /\ closePc'[n] = "loop" /\ snapshot'[n] = q
        /\ \A m \in Nodes \ {n} : /\ closePc'[m] = closePc[m]
                                  /\ snapshot'[m] = snapshot[m]
    BY <1>5, <2>1, <2>2
  <2>4. \A t \in Nodes : connMap[n][t] # 0 => \E k \in DOMAIN q : q[k] = connMap[n][t]
    BY <1>1, GetAllFacts
  <2>5. \A c \in Ids : connMap[n][conns[c].to] = c => \E k \in DOMAIN q : q[k] = c
    <3>1. \A c \in Ids : c # 0 /\ conns[c].to \in Nodes
      BY TypeFacts, LeakFacts
    <3>. QED
      BY <2>4, <3>1
  <2>. QED
    BY <1>4, <2>2, <2>3, <2>5, CloseKeepsLeak
<1>8. CASE CloseDone(n)
  <2>1. /\ closePc[n] = "loop" /\ snapshot[n] = <<>> /\ snapshot' = snapshot
        /\ closePc' = [closePc EXCEPT ![n] = "done"]
    BY <1>8 DEF CloseDone
  <2>2. closePc'[n] = "done" /\ \A m \in Nodes \ {n} : closePc'[m] = closePc[m]
    BY <1>5, <2>1
  <2>3. DOMAIN snapshot[n] = {}
    BY <2>1
  <2>. QED
    BY <1>4, <2>1, <2>2, <2>3, CloseKeepsLeak
<1>9. CASE CloseFlag(n) \/ CloseStream(n)
  <2> DEFINE h == Head(snapshot[n])
  <2>1. /\ snapshot[n] # <<>> /\ closePc[n] \in {"loop", "lock"}
        /\ CloseStream(n) => conns[h].dialled = "closed"
    BY <1>9, LeakFacts DEF CloseFlag, CloseStream, ClosePlaces
  <2>2. h \in Ids /\ 1 \in DOMAIN snapshot[n] /\ h = snapshot[n][1]
    BY <2>1, LeakFacts
  <2>3. \/ /\ closePc' = [closePc EXCEPT ![n] = "lock"]
           /\ snapshot' = snapshot
           /\ conns'[h].dialled = "closed"
        \/ /\ closePc' = [closePc EXCEPT ![n] = "loop"]
           /\ snapshot' = [snapshot EXCEPT ![n] = Tail(snapshot[n])]
           /\ conns[h].dialled = "closed"
    <3>1. CASE CloseStream(n)
      BY <2>1, <3>1 DEF CloseStream
    <3>2. CASE CloseFlag(n) /\ conns[h].dialled = "closed"
      <4>1. closePc' = closePc /\ closePc[n] = "loop"
        BY <3>2 DEF CloseFlag
      <4>2. closePc' = [closePc EXCEPT ![n] = "loop"]
        BY <1>5, <4>1
      <4>. QED
        BY <3>2, <4>2 DEF CloseFlag
    <3>3. CASE CloseFlag(n) /\ conns[h].dialled # "closed"
      <4>1. conns' = [conns EXCEPT ![h].dialled = "closed"]
        BY <3>3 DEF CloseFlag
      <4>2. conns \in Seq(Connections) /\ conns[h] \in Connections
        BY <2>2, TypeFacts
      <4>3. conns'[h].dialled = "closed"
        BY <2>2, <4>1, <4>2 DEF Ids, Connections
      <4>. QED
        BY <3>3, <4>3 DEF CloseFlag
    <3>. QED
      BY <1>9, <3>1, <3>2, <3>3
  <2>4. \A m \in Nodes \ {n} : closePc'[m] = closePc[m] /\ snapshot'[m] = snapshot[m]
    BY <1>5, <2>3
  <2>5. closePc'[n] \in {"loop", "lock"}
    BY <1>5, <2>3
  <2>6. closePc'[n] = "lock" =>
           snapshot'[n] # <<>> /\ conns'[Head(snapshot'[n])].dialled = "closed"
    BY <1>5, <2>1, <2>3
  <2>7. \A c \in Ids :
           (/\ conns'[c].dialled = "open"
            /\ \E k \in DOMAIN snapshot[n] : snapshot[n][k] = c)
           => \E k \in DOMAIN snapshot'[n] : snapshot'[n][k] = c
    <3>1. CASE snapshot' = snapshot
      BY <3>1
    <3>2. CASE /\ snapshot' = [snapshot EXCEPT ![n] = Tail(snapshot[n])]
               /\ conns[h].dialled = "closed"
      <4>1. \A j \in DOMAIN snapshot[n] :
               \/ snapshot[n][j] = h
               \/ \E k \in DOMAIN snapshot'[n] : snapshot'[n][k] = snapshot[n][j]
        BY <1>1, <2>1, <3>2, SnapshotTail
      <4>2. conns'[h].dialled # "open"
        BY <1>4, <2>2, <3>2 DEF KeepsDialled
      <4>. QED
        BY <4>1, <4>2
    <3>. QED
      BY <2>3, <3>1, <3>2
  <2>. QED
    BY <1>4, <2>1, <2>4, <2>5, <2>6, <2>7, CloseKeepsLeak
<1>. QED
  BY <1>6, <1>7, <1>8, <1>9

LEMMA DialLeak ==
    ASSUME IInv, NEW n \in Nodes, NEW t \in Nodes, Dial(n, t)
    PROVE  LeakInv'
<1>1. Shapes
  BY DEF IInv, TypeInv
<1>2. /\ Len(conns) \in Nat
      /\ Ids = 1 .. Len(conns)
      /\ Ids' = 1 .. Len(conns) + 1
      /\ \A c \in Ids : conns'[c] = conns[c]
      /\ conns'[Len(conns) + 1] =
            [from |-> n, to |-> t, up |-> TRUE, dialled |-> "open",
             accepted |-> "no", queue |-> <<>>]
  BY <1>1, DialEffect
<1>3. /\ connectPc[n].at = "out"
      /\ connectPc' = [connectPc EXCEPT ![n] = [at |-> "add", id |-> Len(conns) + 1]]
      /\ UNCHANGED <<connMap, late, closePc, snapshot>>
  BY DEF Dial, closeVars
<1>4. /\ connectPc'[n].at = "add" /\ connectPc'[n].id = Len(conns) + 1
      /\ \A m \in Nodes \ {n} : connectPc'[m] = connectPc[m]
  BY <1>1, <1>3 DEF Shapes
<1>5. /\ conns'[Len(conns) + 1].from = n
      /\ \A c \in Ids' : c \in Ids \/ c = Len(conns) + 1
      /\ Ids \subseteq Ids'
  BY <1>2
<1>6. ClosePlaces'
  <2>1. \A m \in Nodes : closePc'[m] = "lock" =>
           snapshot'[m] # <<>> /\ conns'[Head(snapshot'[m])].dialled = "closed"
    BY <1>2, <1>3, LeakFacts DEF ClosePlaces
  <2>2. \A c \in Ids' : c <= connectPc'[n].id
    BY <1>2, <1>4
  <2>3. ASSUME NEW m \in Nodes \ {n}, connectPc'[m].at = "add",
               NEW c \in Ids', conns'[c].from = m
        PROVE  c <= connectPc'[m].id
    <3>1. c \in Ids /\ conns[c].from = m
      BY <1>2, <1>5, <2>3
    <3>. QED
      BY <1>4, <2>3, <3>1, LeakFacts DEF ClosePlaces
  <2>. QED
    BY <2>1, <2>2, <2>3 DEF ClosePlaces
<1>7. ASSUME NEW c \in Ids', c = Len(conns) + 1 PROVE Found(c)'
  BY <1>4, <1>5, <1>7 DEF Found
<1>8. ASSUME NEW c \in Ids, conns'[c].dialled = "open" PROVE Found(c)'
  <2>1. Found(c) /\ conns'[c] = conns[c] /\ conns[c].from \in Nodes
    BY <1>2, <1>8, LeakFacts
  <2>2. CASE \E d \in Ids : /\ d > c
                            /\ conns[d].from = conns[c].from
                            /\ conns[d].to = conns[c].to
    BY <1>2, <1>5, <2>1, <2>2 DEF Found
  <2>3. CASE ~ \E d \in Ids : /\ d > c
                              /\ conns[d].from = conns[c].from
                              /\ conns[d].to = conns[c].to
    BY <1>3, <1>4, <2>1, <2>3 DEF Found
  <2>. QED
    BY <2>2, <2>3
<1>. QED
  BY <1>5, <1>6, <1>7, <1>8 DEF LeakInv

\* What Add takes out of the pool is older than what it puts in.
LEMMA AddLeak ==
    ASSUME IInv, NEW n \in Nodes, Add(n)
    PROVE  LeakInv'
<1> DEFINE a == connectPc[n].id
<1>1. Shapes /\ Places
  BY DEF IInv, TypeInv
<1>2. /\ connectPc[n].at = "add"
      /\ connMap' = [connMap EXCEPT ![n][conns[a].to] = a]
      /\ late' = IF closePc[n] \in {"open", "get"} THEN late ELSE late \cup {a}
      /\ connectPc' = [connectPc EXCEPT ![n].at = "member"]
      /\ UNCHANGED <<conns, closePc, snapshot>>
  BY DEF Add, closeVars
<1>3. a \in Ids /\ conns[a].from = n /\ conns[a].to \in Nodes
  BY <1>1, <1>2, LeakFacts DEF Places, AtHand
<1>4. /\ connectPc'[n].at = "member"
      /\ \A m \in Nodes \ {n} : connectPc'[m] = connectPc[m]
      /\ connMap'[n][conns[a].to] = a
      /\ \A m, t \in Nodes : m # n \/ t # conns[a].to => connMap'[m][t] = connMap[m][t]
  BY <1>1, <1>2, <1>3 DEF Shapes
<1>5. Ids' = Ids
  BY <1>2 DEF Ids
<1>6. ClosePlaces'
  <2>1. \A m \in Nodes : closePc'[m] = "lock" =>
           snapshot'[m] # <<>> /\ conns'[Head(snapshot'[m])].dialled = "closed"
    BY <1>2, LeakFacts DEF ClosePlaces
  <2>2. \A m \in Nodes : connectPc'[m].at = "add" => connectPc'[m] = connectPc[m]
    BY <1>4
  <2>3. \A m \in Nodes : connectPc'[m].at = "add" =>
           \A c \in Ids' : conns'[c].from = m => c <= connectPc'[m].id
    BY <1>2, <1>5, <2>2, LeakFacts DEF ClosePlaces
  <2>. QED
    BY <2>1, <2>3 DEF ClosePlaces
<1>7. \A c \in Ids : conns[c].from = n => c <= a
  BY <1>2, LeakFacts DEF ClosePlaces
<1>8. a \in Nat /\ \A c \in Ids : c \in Nat
  BY <1>3, TypeFacts
<1>9. ASSUME NEW c \in Ids, conns[c].dialled = "open" PROVE Found(c)'
  <2>1. Found(c) /\ conns[c].from \in Nodes /\ conns[c].to \in Nodes
    BY <1>9, LeakFacts
  <2>2. CASE \E d \in Ids : /\ d > c
                            /\ conns[d].from = conns[c].from
                            /\ conns[d].to = conns[c].to
    BY <1>2, <1>5, <2>2 DEF Found
  <2>3. CASE c \in late
    BY <1>2, <2>3 DEF Found
  <2>4. CASE connectPc[conns[c].from].at = "add" /\ connectPc[conns[c].from].id = c
    <3>1. CASE conns[c].from # n
      BY <1>2, <1>4, <2>1, <2>4, <3>1 DEF Found
    <3>2. CASE conns[c].from = n
      <4>1. c = a
        BY <2>4, <3>2
      <4>2. CASE closePc[n] \in {"open", "get"}
        BY <1>2, <1>4, <3>2, <4>1, <4>2 DEF Found
      <4>3. CASE closePc[n] \notin {"open", "get"}
        BY <1>2, <4>1, <4>3 DEF Found
      <4>. QED
        BY <4>2, <4>3
    <3>. QED
      BY <3>1, <3>2
  <2>5. CASE /\ closePc[conns[c].from] \in {"open", "get"}
             /\ connMap[conns[c].from][conns[c].to] = c
    <3>1. CASE conns[c].from # n \/ conns[c].to # conns[a].to
      <4>1. connMap'[conns[c].from][conns[c].to] = c
        BY <1>4, <2>1, <2>5, <3>1
      <4>. QED
        BY <1>2, <2>5, <4>1 DEF Found
    <3>2. CASE conns[c].from = n /\ conns[c].to = conns[a].to /\ c = a
      BY <1>2, <1>4, <2>5, <3>2 DEF Found
    <3>3. CASE conns[c].from = n /\ conns[c].to = conns[a].to /\ c # a
      <4>1. a > c
        BY <1>7, <1>8, <3>3
      <4>. QED
        BY <1>2, <1>3, <1>5, <3>3, <4>1 DEF Found
    <3>. QED
      BY <3>1, <3>2, <3>3
  <2>6. CASE /\ closePc[conns[c].from] \in {"loop", "lock"}
             /\ \E k \in DOMAIN snapshot[conns[c].from] : snapshot[conns[c].from][k] = c
    BY <1>2, <2>6 DEF Found
  <2>. QED
    BY <2>1, <2>2, <2>3, <2>4, <2>5, <2>6 DEF Found
<1>. QED
  BY <1>2, <1>5, <1>6, <1>9 DEF LeakInv

LEMMA NextLeakInv == ASSUME IInv, Next PROVE LeakInv'
<1>1. ASSUME KeepsQueues, UNCHANGED <<connectPc, connMap, late, closePc, snapshot>>
      PROVE  LeakInv'
  BY <1>1, QuietIsDialled, QuietKeepsLeak
<1>2. ASSUME NEW n \in Nodes, Run(n) \/ ServerStep(n) PROVE LeakInv'
  <2>1. UNCHANGED conns \/ ServeEnds(n)
    BY <1>2 DEF Run, ServerStep, Listen
  <2>2. UNCHANGED <<connectPc, connMap, late, closePc, snapshot>>
    BY <1>2 DEF Run, ServerStep, Listen, ServeEnds, clientVars, closeVars
  <2>. QED
    BY <1>1, <2>1, <2>2, QuietSteps
<1>3. ASSUME NEW c \in Ids, Notice(c) \/ StreamBreaks(c) PROVE LeakInv'
  <2>1. UNCHANGED <<connectPc, connMap, late, closePc, snapshot>>
    BY <1>3 DEF Notice, Accept, AcceptedFails, DialledFails, StreamBreaks, clientVars,
       closeVars
  <2>. QED
    BY <1>1, <1>3, <2>1, QuietSteps
<1>4. ASSUME NEW g \in Sharers, ShareMessage(g) \/ DistributeMessage(g) PROVE LeakInv'
  <2>1. UNCHANGED <<conns, connectPc, connMap, late, closePc, snapshot>>
    BY <1>4 DEF ShareMessage, DistributeMessage, clientVars, closeVars
  <2>. QED
    BY <1>1, <2>1, QuietSteps
<1>5. ASSUME NEW n \in Nodes, AddMember(n) PROVE LeakInv'
  <2>1. /\ UNCHANGED <<conns, connMap, late, closePc, snapshot>>
        /\ connectPc[n].at = "member"
        /\ connectPc' = [connectPc EXCEPT ![n] = [at |-> "out", id |-> 0]]
    BY <1>5 DEF AddMember, closeVars
  <2>2. connectPc \in [Nodes -> [at : {"out", "add", "member"}, id : Nat]]
    BY DEF IInv, TypeInv, Shapes
  <2>3. \A m \in Nodes : \/ connectPc'[m] = connectPc[m]
                         \/ connectPc[m].at # "add" /\ connectPc'[m].at # "add"
    BY <2>1, <2>2
  <2>4. KeepsDialled
    BY <2>1, <2>3, LeakFacts DEF KeepsDialled, Ids
  <2>. QED
    BY <2>1, <2>4, QuietKeepsLeak
<1>6. ASSUME /\ Ids' = Ids
             /\ \A d \in Ids : /\ conns'[d].from = conns[d].from
                               /\ conns'[d].to = conns[d].to
                               /\ conns'[d].dialled = conns[d].dialled,
             UNCHANGED <<clientVars, closeVars>>
      PROVE  LeakInv'
  <2>1. UNCHANGED <<connectPc, connMap, late, closePc, snapshot>>
    BY <1>6 DEF clientVars, closeVars
  <2>2. KeepsDialled
    BY <1>6, <2>1, LeakFacts DEF KeepsDialled
  <2>. QED
    BY <2>1, <2>2, QuietKeepsLeak
<1>7. ASSUME NEW g \in Sharers, Send(g) PROVE LeakInv'
  <2>1. UNCHANGED <<clientVars, closeVars>>
    BY <1>7 DEF Send
  <2>. QED
    BY <1>6, <1>7, <2>1, SendEffect
<1>8. ASSUME NEW c \in Ids, ServeRequest(c) PROVE LeakInv'
  <2>1. Shapes /\ UNCHANGED <<clientVars, closeVars>>
    BY <1>8 DEF ServeRequest, IInv, TypeInv
  <2>. QED
    BY <1>6, <1>8, <2>1, ServeEffect
<1>9. \A n \in scenario.servers \cup scenario.closing : n \in Nodes
  BY NetworkAssumption DEF IInv, TypeInv, Shapes
<1>. QED
  BY <1>2, <1>3, <1>4, <1>5, <1>7, <1>8, <1>9, DialLeak, AddLeak, CloseLeak
     DEF Next, ConnectStep, CloseStep

-----------------------------------------------------------------------------
(* The theorems.                                                           *)

LEMMA InitIInv == Init => IInv
<1> SUFFICES ASSUME Init PROVE IInv
  OBVIOUS
<1>1. Ids = {} /\ \A g \in Sharers : DOMAIN job[g] = {}
  BY DEF Init, Ids
<1>2. \A n \in Nodes : DOMAIN served[n] = {}
  BY DEF Init
<1>3. EachInv
  BY <1>1, <1>2 DEF EachInv, JobApart, QueueApart, ServedApart, Begun, Spread, Disjoint,
     Away, Known
<1>4. LeakInv
  BY <1>1 DEF Init, LeakInv, ClosePlaces
<1>. QED
  BY <1>3, <1>4, InitTypeInv DEF IInv

LEMMA StutterIInv == ASSUME IInv, UNCHANGED vars PROVE IInv'
<1> USE DEF vars, serverVars, clientVars, shareVars, closeVars
<1>1. KeepsQueues
  BY QuietSteps
<1>2. TypeInv'
  <2>1. Shapes'
    BY TypeFacts DEF Shapes
  <2>2. Places' /\ Members'
    BY <1>1, TypeFacts, QuietKeepsPlaces
  <2>. QED
    BY <2>1, <2>2 DEF TypeInv
<1>3. EachInv'
  BY <1>1, CarryKeepsEach DEF KeepsQueues
<1>4. KeepsDialled
  BY <1>1, QuietIsDialled
<1>5. LeakInv'
  BY <1>4, QuietKeepsLeak
<1>. QED
  BY <1>2, <1>3, <1>5 DEF IInv

LEMMA Invariance == Spec => []IInv
<1>1. IInv /\ [Next]_vars => IInv'
  BY NextTypeInv, NextEachInv, NextLeakInv, StutterIInv DEF IInv
<1>. QED
  BY InitIInv, <1>1, PTL DEF Spec

\* For any number of nodes, connections, broadcasts and senders: between calls of
\* Connect the members of a node are those its pool has connections to, each
\* connection under its own address and no queue above its capacity (core.go:
\* connect; conn.go: Add, Send).
THEOREM TypeCorrect == Spec => []TypeOK
<1>1. IInv => TypeOK
  <2> SUFFICES ASSUME IInv PROVE TypeOK
    OBVIOUS
  <2>1. Shapes /\ Places /\ Members
    BY DEF IInv, TypeInv
  <2>2. \A c \in Ids : Range(conns[c].queue) \subseteq Messages
    <3> TAKE c \in Ids
    <3>1. conns[c].queue \in Seq(Messages)
      BY EachFacts
    <3>2. \A k \in DOMAIN conns[c].queue : conns[c].queue[k] \in Messages
      BY <3>1, ElementOfSeq, LenProperties
    <3>. QED
      BY <3>2 DEF Range
  <2>3. \A c \in Ids : /\ <<conns[c].from, conns[c].to>> \in scenario.dials
                       /\ Len(conns[c].queue) <= QueueSize
    BY <2>1 DEF Places
  <2>4. \A n, t \in Nodes :
           /\ connMap[n][t] # 0 => /\ conns[connMap[n][t]].from = n
                                   /\ conns[connMap[n][t]].to = t
           /\ connectPc[n].at # "member" => (t \in memberMap[n] <=> connMap[n][t] # 0)
    BY <2>1 DEF Places, Members
  <2>. QED
    BY <2>1, <2>2, <2>3, <2>4 DEF TypeOK, Shapes, Places
<1>. QED
  BY <1>1, Invariance, PTL

\* A broadcast reaches a node at most once, and a message of a distributed list one
\* node at most, however often connections to that node are made, replaced, broken
\* and closed while the sharer goes through its list (conn.go: GetAll, Add,
\* ShareMessage, DistributeMessage).
THEOREM EachOnce == Spec => []OneEach
<1>1. IInv => OneEach
  <2> SUFFICES ASSUME IInv,
                      NEW n1 \in Nodes, NEW n2 \in Nodes,
                      NEW i \in DOMAIN served[n1], NEW j \in DOMAIN served[n2],
                      <<n1, i>> # <<n2, j>>,
                      served[n1][i].src = served[n2][j].src,
                      served[n1][i].call = served[n2][j].call
               PROVE  /\ n1 # n2
                      /\ \/ served[n1][i].part # served[n2][j].part
                         \/ served[n1][i].part = 0
    BY DEF OneEach
  <2>1. ServedApart
    BY EachFacts
  <2>2. Apart(served[n1][i], n1, served[n2][j], n2)
    <3>1. CASE n1 = n2
      BY <2>1, <3>1 DEF ServedApart, Spread
    <3>2. CASE n1 # n2
      BY <2>1, <3>2 DEF ServedApart, Disjoint, Away
    <3>. QED
      BY <3>1, <3>2
  <2>. QED
    BY <2>2 DEF Apart
<1>. QED
  BY <1>1, Invariance, PTL

\* Close leaves a connection open only if the pool had lost it to a later one with
\* the same address, or connect adds it after Close has taken its list (core.go:
\* connect, Close; conn.go: Add).
THEOREM LeaksExplained == Spec => []LeakCause
<1>1. IInv => LeakCause
  <2> SUFFICES ASSUME IInv, NEW c \in Ids,
                      closePc[conns[c].from] = "done", conns[c].dialled = "open"
               PROVE  \/ \E d \in Ids : /\ d > c
                                        /\ conns[d].from = conns[c].from
                                        /\ conns[d].to = conns[c].to
                      \/ c \in late
                      \/ connectPc[conns[c].from] = [at |-> "add", id |-> c]
    BY DEF LeakCause
  <2>1. Found(c) /\ conns[c].from \in Nodes
    BY LeakFacts
  <2>2. connectPc[conns[c].from] \in [at : {"out", "add", "member"}, id : Nat]
    BY <2>1 DEF IInv, TypeInv, Shapes
  <2>3. connectPc[conns[c].from].at = "add" /\ connectPc[conns[c].from].id = c
           => connectPc[conns[c].from] = [at |-> "add", id |-> c]
    BY <2>2
  <2>. QED
    BY <2>1, <2>3 DEF Found
<1>. QED
  BY <1>1, Invariance, PTL

=============================================================================
