------------------------------ MODULE Network ------------------------------
(***************************************************************************)
(* How nodes reach each other: servers and clients (comm.go), the pool of  *)
(* dialled connections and its broadcasts (conn.go), the member map, and   *)
(* the life of a node (core/core.go): Run, Connect, Close.                 *)
(*                                                                         *)
(* A connection is known by its place in conns.  Its messages from Send to *)
(* the handler of the accepting node are one bounded queue; module         *)
(* Connection has the channels and goroutines of either end in detail.     *)
(* Nodes send over the connections they have dialled, and only those they  *)
(* have accepted have a handler.                                           *)
(***************************************************************************)
EXTENDS Integers, FiniteSets, Sequences, SequencesExt, Functions

CONSTANTS
    Nodes,
    Sharers, Home,     \* goroutines that broadcast, and the node of each
    QueueSize,         \* messages on their way over one connection
    Scenarios,         \* who serves, dials, closes; how many broadcasts
    MaxConns           \* bound: connections dialled

ASSUME NetworkAssumption ==
    /\ IsFiniteSet(Nodes)
    /\ Home \in [Sharers -> Nodes]
    /\ QueueSize \in Nat \ {0}
    /\ MaxConns \in Nat
    /\ \A s \in Scenarios :
          /\ s.servers \cup s.closing \subseteq Nodes
          /\ s.dials \subseteq Nodes \X Nodes
          /\ s.calls \in Nat

VARIABLES
    scenario,          \* one of Scenarios, chosen at the start
    listenPc, lis,     \* Listen of each server, and its listener
    conns,
    connectPc,         \* where Connect is, and with which connection
    connMap,           \* the pool: a connection, or 0, for each address
    memberMap,
    calls,             \* broadcasts each sharer has begun
    job,               \* what its broadcast still has to send, and where
    served,            \* messages the handler of each node was given
    closePc, snapshot, \* Close of each node; the connections it goes through
    late               \* connections added after that

serverVars == <<listenPc, lis>>
clientVars == <<connectPc, connMap, memberMap, late>>
shareVars == <<calls, job>>
closeVars == <<closePc, snapshot>>
vars == <<scenario, serverVars, conns, clientVars, shareVars, served, closeVars>>

Ids == DOMAIN conns

Init ==
    /\ scenario \in Scenarios
    /\ listenPc = [n \in Nodes |-> "off"]
    /\ lis = [n \in Nodes |-> "none"]
    /\ conns = <<>>
    /\ connectPc = [n \in Nodes |-> [at |-> "out", id |-> 0]]
    /\ connMap = [n \in Nodes |-> [t \in Nodes |-> 0]]
    /\ memberMap = [n \in Nodes |-> {}]
    /\ calls = [g \in Sharers |-> 0]
    /\ job = [g \in Sharers |-> <<>>]
    /\ served = [n \in Nodes |-> <<>>]
    /\ closePc = [n \in Nodes |-> "open"]
    /\ snapshot = [n \in Nodes |-> <<>>]
    /\ late = {}

-----------------------------------------------------------------------------
(* The server.                                                             *)

\* OnConn comes before Listen, so every accepted connection finds its handler.
Run(n) ==
    /\ listenPc[n] = "off"
    /\ listenPc' = [listenPc EXCEPT ![n] = "start"]
    /\ UNCHANGED <<lis, conns, clientVars, shareVars, served, closeVars>>

Listen(n) ==
    /\ listenPc[n] = "start"
    /\ listenPc' = [listenPc EXCEPT ![n] = "serve"]
    /\ lis' = [lis EXCEPT ![n] = "open"]
    /\ UNCHANGED <<conns, clientVars, shareVars, served, closeVars>>

\* Serve returns once the listener is closed, and grpc's Stop breaks the streams
\* of all accepted connections.
ServeEnds(n) ==
    /\ listenPc[n] = "serve"
    /\ lis[n] = "closed"
    /\ listenPc' = [listenPc EXCEPT ![n] = "ended"]
    /\ conns' = [c \in Ids |-> IF conns[c].to = n THEN [conns[c] EXCEPT !.up = FALSE]
                               ELSE conns[c]]
    /\ UNCHANGED <<lis, clientVars, shareVars, served, closeVars>>

\* Slip: the connection is not started.
AcceptNoStart(c) ==
    /\ conns[c].accepted = "no"
    /\ conns[c].up
    /\ conns' = [conns EXCEPT ![c].accepted = "closed"]
    /\ UNCHANGED <<serverVars, clientVars, shareVars, served, closeVars>>

\* MessageStream: the connection gets its handler and is started.
Accept(c) ==
    /\ conns[c].accepted = "no"
    /\ conns[c].up
    /\ conns' = [conns EXCEPT ![c].accepted = "open"]
    /\ UNCHANGED <<serverVars, clientVars, shareVars, served, closeVars>>

\* Slip: the loop stops after a message.
ServeRequestOnce(c) ==
    /\ conns[c].accepted = "open"
    /\ conns[c].queue # <<>>
    /\ served' = [served EXCEPT ![conns[c].to] = Append(@, Head(conns[c].queue))]
    /\ conns' = [conns EXCEPT ![c].queue = Tail(@), ![c].accepted = "closed"]
    /\ UNCHANGED <<serverVars, clientVars, shareVars, closeVars>>

ServeRequest(c) ==
    /\ conns[c].accepted = "open"
    /\ conns[c].queue # <<>>
    /\ served' = [served EXCEPT ![conns[c].to] = Append(@, Head(conns[c].queue))]
    /\ conns' = [conns EXCEPT ![c].queue = Tail(@)]
    /\ UNCHANGED <<serverVars, clientVars, shareVars, closeVars>>

\* Start returns with the stream's error and the server's handler closes.
AcceptedFails(c) ==
    /\ conns[c].accepted = "open"
    /\ ~ conns[c].up
    /\ conns' = [conns EXCEPT ![c].accepted = "closed"]
    /\ UNCHANGED <<serverVars, clientVars, shareVars, served, closeVars>>

-----------------------------------------------------------------------------
(* The client.                                                             *)

\* Dial opens a stream, or fails with nothing changed.
Dial(n, t) ==
    /\ connectPc[n].at = "out"
    /\ Len(conns) < MaxConns
    /\ listenPc[t] = "serve"
    /\ conns' = Append(conns, [from |-> n, to |-> t, up |-> TRUE, dialled |-> "open",
                               accepted |-> "no", queue |-> <<>>])
    /\ connectPc' = [connectPc EXCEPT ![n] = [at |-> "add", id |-> Len(conns) + 1]]
    /\ UNCHANGED <<serverVars, connMap, memberMap, late, shareVars, served,
                   closeVars>>

\* Slip: a connection to the address is there already, and stays.
AddIfAbsent(n) ==
    /\ connectPc[n].at = "add"
    /\ LET c == connectPc[n].id IN
       /\ connMap' = [connMap EXCEPT ![n][conns[c].to] = IF @ = 0 THEN c ELSE @]
       /\ late' = IF closePc[n] \in {"open", "get"} THEN late ELSE late \cup {c}
    /\ connectPc' = [connectPc EXCEPT ![n].at = "member"]
    /\ UNCHANGED <<serverVars, conns, memberMap, shareVars, served, closeVars>>

\* The pool has one connection for an address; the one it had is not closed.
Add(n) ==
    /\ connectPc[n].at = "add"
    /\ LET c == connectPc[n].id IN
       /\ connMap' = [connMap EXCEPT ![n][conns[c].to] = c]
       /\ late' = IF closePc[n] \in {"open", "get"} THEN late ELSE late \cup {c}
    /\ connectPc' = [connectPc EXCEPT ![n].at = "member"]
    /\ UNCHANGED <<serverVars, conns, memberMap, shareVars, served, closeVars>>

\* Slip: the member map is left alone.
AddMemberNot(n) ==
    /\ connectPc[n].at = "member"
    /\ connectPc' = [connectPc EXCEPT ![n] = [at |-> "out", id |-> 0]]
    /\ UNCHANGED <<serverVars, conns, connMap, memberMap, late, shareVars, served,
                   closeVars>>

AddMember(n) ==
    /\ connectPc[n].at = "member"
    /\ memberMap' = [memberMap EXCEPT ![n] = @ \cup {conns[connectPc[n].id].to}]
    /\ connectPc' = [connectPc EXCEPT ![n] = [at |-> "out", id |-> 0]]
    /\ UNCHANGED <<serverVars, conns, connMap, late, shareVars, served, closeVars>>

\* Start returns with the stream's error, and the connection closes but stays in
\* the pool.
DialledFails(c) ==
    /\ conns[c].dialled = "open"
    /\ ~ conns[c].up
    /\ conns' = [conns EXCEPT ![c].dialled = "closed"]
    /\ UNCHANGED <<serverVars, clientVars, shareVars, served, closeVars>>

StreamBreaks(c) ==
    /\ conns[c].up
    /\ conns' = [conns EXCEPT ![c].up = FALSE]
    /\ UNCHANGED <<serverVars, clientVars, shareVars, served, closeVars>>

-----------------------------------------------------------------------------
(* Broadcasts.                                                             *)

\* Slip: both the old and the new connection of an address are used.
GetAllEver(n) == SetToSeqs({c \in Ids : conns[c].from = n})
GetAll(n) == SetToSeqs(Range(connMap[n]) \ {0})

\* A message is known by its call and its place in the list, 0 if there is none.
Msg(g, part) == [src |-> g, call |-> calls[g] + 1, part |-> part]

ShareMessage(g) ==
    /\ job[g] = <<>>
    /\ calls[g] < scenario.calls
    /\ calls' = [calls EXCEPT ![g] = @ + 1]
    /\ \E q \in GetAll(Home[g]) :
          job' = [job EXCEPT ![g] = [k \in DOMAIN q |-> [id |-> q[k], msg |-> Msg(g, 0)]]]
    /\ UNCHANGED <<serverVars, conns, clientVars, served, closeVars>>

\* One message for each connection, in the order GetAll has them.
DistributeMessage(g) ==
    /\ job[g] = <<>>
    /\ calls[g] < scenario.calls
    /\ calls' = [calls EXCEPT ![g] = @ + 1]
    /\ \E q \in GetAll(Home[g]) :
          job' = [job EXCEPT ![g] = [k \in DOMAIN q |-> [id |-> q[k], msg |-> Msg(g, k)]]]
    /\ UNCHANGED <<serverVars, conns, clientVars, served, closeVars>>

Full(c) == Len(conns[c].queue) = QueueSize

\* Send puts the message on outChan, whether the connection still lives or not.
Send(g) ==
    /\ job[g] # <<>>
    /\ LET next == Head(job[g]) IN
       /\ ~ Full(next.id)
       /\ conns' = [conns EXCEPT ![next.id].queue = Append(@, next.msg)]
    /\ job' = [job EXCEPT ![g] = Tail(@)]
    /\ UNCHANGED <<serverVars, clientVars, calls, served, closeVars>>

\* A Send that waits at c for room holds its lock.
Holds(c) == Full(c) /\ \E g \in Sharers : job[g] # <<>> /\ Head(job[g]).id = c

-----------------------------------------------------------------------------
(* The end of a node.                                                      *)

\* Stop closes the listener, if there is one by now.
Close(n) ==
    /\ closePc[n] = "open"
    /\ closePc' = [closePc EXCEPT ![n] = "get"]
    /\ lis' = [lis EXCEPT ![n] = IF @ = "open" THEN "closed" ELSE @]
    /\ UNCHANGED <<listenPc, conns, clientVars, shareVars, served, snapshot>>

CloseGetAll(n) ==
    /\ closePc[n] = "get"
    /\ closePc' = [closePc EXCEPT ![n] = "loop"]
    /\ \E q \in GetAll(n) : snapshot' = [snapshot EXCEPT ![n] = q]
    /\ UNCHANGED <<serverVars, conns, clientVars, shareVars, served>>

CloseDone(n) ==
    /\ closePc[n] = "loop"
    /\ snapshot[n] = <<>>
    /\ closePc' = [closePc EXCEPT ![n] = "done"]
    /\ UNCHANGED <<serverVars, conns, clientVars, shareVars, served, snapshot>>

\* The stop flag of the next connection; nothing more if it was set.
CloseFlag(n) ==
    /\ closePc[n] = "loop"
    /\ snapshot[n] # <<>>
    /\ LET c == Head(snapshot[n]) IN
       IF conns[c].dialled = "closed"
       THEN /\ snapshot' = [snapshot EXCEPT ![n] = Tail(@)]
            /\ UNCHANGED <<conns, closePc>>
       ELSE /\ conns' = [conns EXCEPT ![c].dialled = "closed"]
            /\ closePc' = [closePc EXCEPT ![n] = "lock"]
            /\ UNCHANGED snapshot
    /\ UNCHANGED <<serverVars, clientVars, shareVars, served>>

\* Slip: the stream is left as it is.
CloseNoStream(n) ==
    /\ closePc[n] = "lock"
    /\ ~ Holds(Head(snapshot[n]))
    /\ snapshot' = [snapshot EXCEPT ![n] = Tail(@)]
    /\ closePc' = [closePc EXCEPT ![n] = "loop"]
    /\ UNCHANGED <<serverVars, conns, clientVars, shareVars, served>>

\* The stream is closed under the connection's lock.
CloseStream(n) ==
    /\ closePc[n] = "lock"
    /\ ~ Holds(Head(snapshot[n]))
    /\ conns' = [conns EXCEPT ![Head(snapshot[n])].up = FALSE]
    /\ snapshot' = [snapshot EXCEPT ![n] = Tail(@)]
    /\ closePc' = [closePc EXCEPT ![n] = "loop"]
    /\ UNCHANGED <<serverVars, clientVars, shareVars, served>>

-----------------------------------------------------------------------------

ServerStep(n) == Listen(n) \/ ServeEnds(n)

ConnectStep(n) ==
    \/ \E t \in Nodes : <<n, t>> \in scenario.dials /\ Dial(n, t)
    \/ Add(n)
    \/ AddMember(n)

CloseStep(n) == CloseGetAll(n) \/ CloseFlag(n) \/ CloseStream(n) \/ CloseDone(n)

Notice(c) == Accept(c) \/ AcceptedFails(c) \/ DialledFails(c)

Next ==
    /\ UNCHANGED scenario
    /\ \/ \E n \in Nodes : ServerStep(n) \/ ConnectStep(n) \/ CloseStep(n)
       \/ \E n \in scenario.servers : Run(n)
       \/ \E n \in scenario.closing : Close(n)
       \/ \E c \in Ids : Notice(c) \/ ServeRequest(c) \/ StreamBreaks(c)
       \/ \E g \in Sharers : ShareMessage(g) \/ DistributeMessage(g) \/ Send(g)

Spec == Init /\ [][Next]_vars

Live(c) == c \in Ids /\ conns[c].up /\ conns[c].dialled = "open"

\* Servers, connections, senders and closing nodes go on; messages move while
\* the stream is up and the writer runs.
Fairness ==
    LET Fair(A) == A /\ UNCHANGED scenario IN
    /\ \A n \in Nodes : WF_vars(Fair(ServerStep(n))) /\ WF_vars(Fair(CloseStep(n)))
    /\ \A c \in 1 .. MaxConns :
          /\ WF_vars(Fair(c \in Ids /\ Notice(c)))
          /\ WF_vars(Fair(Live(c) /\ ServeRequest(c)))
    /\ \A g \in Sharers : WF_vars(Fair(Send(g)))

FairSpec == Spec /\ Fairness

-----------------------------------------------------------------------------
(* Properties.                                                             *)

Messages == [src : Sharers, call : Nat, part : Nat]

\* The shape of the variables; between calls of Connect the members are those
\* the pool has connections to, each under its own address (core.go: connect).
TypeOK ==
    /\ listenPc \in [Nodes -> {"off", "start", "serve", "ended"}]
    /\ lis \in [Nodes -> {"none", "open", "closed"}]
    /\ closePc \in [Nodes -> {"open", "get", "loop", "lock", "done"}]
    /\ late \subseteq Ids
    /\ \A c \in Ids :
          /\ <<conns[c].from, conns[c].to>> \in scenario.dials
          /\ Len(conns[c].queue) <= QueueSize
          /\ Range(conns[c].queue) \subseteq Messages
    /\ \A n, t \in Nodes :
          /\ connMap[n][t] # 0 => conns[connMap[n][t]].from = n
                                  /\ conns[connMap[n][t]].to = t
          /\ connectPc[n].at # "member" =>
                (t \in memberMap[n] <=> connMap[n][t] # 0)

\* A broadcast reaches a node at most once, and a message of a distributed list at
\* most one node, although connections are replaced and broken meanwhile: what RBC
\* and BBA count is never one message twice (conn.go: GetAll, Add).
OneEach ==
    \A n1, n2 \in Nodes : \A i \in DOMAIN served[n1], j \in DOMAIN served[n2] :
        LET x == served[n1][i]
            y == served[n2][j]
        IN  (<<n1, i>> # <<n2, j>> /\ x.src = y.src /\ x.call = y.call) =>
                n1 # n2 /\ (x.part # y.part \/ x.part = 0)

\* A connection is open after its node's Close only if a later one to the same
\* address took its place in the pool, or it is added there when Close has looked
\* (core.go: Close; conn.go: Add).
LeakCause ==
    \A c \in Ids :
        LET n == conns[c].from IN
        (closePc[n] = "done" /\ conns[c].dialled = "open") =>
            \/ \E d \in Ids : d > c /\ conns[d].from = n /\ conns[d].to = conns[c].to
            \/ c \in late
            \/ connectPc[n] = [at |-> "add", id |-> c]

\* The sharer waits for room at a connection that sends no more.
Stuck(g) ==
    /\ job[g] # <<>>
    /\ Full(Head(job[g]).id)
    /\ ~ Live(Head(job[g]).id)

\* Every broadcast returns, or waits at a connection that is dead but still in the
\* pool it was taken from (conn.go: ShareMessage; core.go:177).
SharesReturn == \A g \in Sharers : []<>(job[g] = <<>> \/ Stuck(g))

\* What was sent over a connection that stays up reaches the other node's handler
\* (the assumption RBC and BBA make of their network).
Arrives ==
    \A c \in 1 .. MaxConns : []<>(~ Live(c) \/ conns[c].queue = <<>>)

\* Node.Close returns, unless a Send holds the lock of one of its connections, and
\* then the other end of every connection it has closed ends as well.
CloseReturns ==
    []<>(\A n \in Nodes :
            \/ closePc[n] = "lock" /\ Holds(Head(snapshot[n]))
            \/ /\ closePc[n] \in {"open", "done"}
               /\ \A c \in Ids : (conns[c].from = n /\ conns[c].dialled = "closed")
                                     => conns[c].accepted # "open")
=============================================================================
