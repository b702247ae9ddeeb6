------------------------------- MODULE Loops -------------------------------
(***************************************************************************)
(* The goroutines of one node's common subset and the channels between     *)
(* them: the connections call ACS.HandleMessage, ACS.run (acs/acs.go)      *)
(* serves them one at a time and waits for the reply of RBC.run            *)
(* (rbc/rbc.go) or puts a request on the channel of BBA.run (bba/bba.go);  *)
(* those two answer over the data and the binary channel, which only       *)
(* ACS.run reads.  Any of the loops may be closed.                         *)
(*                                                                         *)
(* What the handlers compute is left to RBC, BBA and ACS: here a request   *)
(* makes RBC deliver or not, and BBA decide or not and put up to PushMax   *)
(* requests on its own channel (its broadcasts reach itself that way).     *)
(* Sending to other nodes is taken to return (module Connection).          *)
(***************************************************************************)
EXTENDS Integers, FiniteSets, Sequences, SequencesExt

CONSTANTS
    Members,           \* the members: one RBC and one BBA each
    Conns,             \* goroutines that call HandleMessage
    ACS,               \* names ACS.run among the loops
    ReqSize,           \* capacity of a BBA's reqChan
    PushMax,           \* requests BBA.run puts on its own reqChan at a time
    Scenarios,         \* bounds: who takes part, how many loops are closed
    None

ASSUME LoopsAssumption ==
    /\ IsFiniteSet(Members)
    /\ ReqSize \in Nat \ {0} /\ PushMax \in Nat \ {0}
    /\ Scenarios \subseteq [members : SUBSET Members, closes : Nat]
    /\ ACS \notin Members
    /\ None \notin Conns \cup [kind : {"rbc", "bba"}, member : Members]
    /\ None \notin {"run", "caller"} \X (Members \cup {ACS})

Loops == Members \cup {ACS}   \* the loops with a stopFlag: ACS.run and BBA.run

VARIABLES
    scenario,          \* one of Scenarios, chosen at the start
    call,              \* the message of each connection's call
    pc,                \* where BBA.run and ACS.run are
    serving,           \* the connection ACS.run serves
    puts,              \* BBAs it still has to send a request to
    fed, zeroDue,      \* BBAs that got an input; a signal on agreementChan
    rbcPc, delivered,  \* RBC.run; whether it has delivered
    dataChan, binaryChan,
    reqs, pushes,      \* each reqChan's length; what BBA.run has to put there
    decided,
    closePc, token,    \* Close of each loop, and its closeChan
    passed,            \* the loop has taken the token and put it back
    rbcClose,          \* Close of each RBC
    panic              \* the loop whose closed channel ended the process

acsVars == <<serving, puts, fed, zeroDue>>
rbcVars == <<rbcPc, delivered, dataChan, rbcClose>>
bbaVars == <<reqs, pushes, decided, binaryChan>>
closeVars == <<closePc, token, passed>>
vars == <<scenario, call, pc, acsVars, rbcVars, bbaVars, closeVars, panic>>

DataSizeLow == Cardinality(scenario.members) - 1   \* slip: one place too few
DataSize == Cardinality(scenario.members)
BinarySize == Cardinality(scenario.members)

Init ==
    /\ scenario \in Scenarios
    /\ call = [c \in Conns |-> None]
    /\ pc = [x \in Loops |-> "select"]
    /\ serving = None
    /\ puts = <<>>
    /\ fed = {}
    /\ zeroDue = FALSE
    /\ rbcPc = [m \in Members |-> "select"]
    /\ delivered = {}
    /\ dataChan = <<>>
    /\ binaryChan = <<>>
    /\ reqs = [m \in Members |-> 0]
    /\ pushes = [m \in Members |-> 0]
    /\ decided = {}
    /\ closePc = [x \in Loops |-> "out"]
    /\ token = [x \in Loops |-> FALSE]
    /\ passed = {}
    /\ rbcClose = [m \in Members |-> "out"]
    /\ panic = None

Goto(x, label) == pc' = [pc EXCEPT ![x] = label]

-----------------------------------------------------------------------------
(* The stop flag and the token of ACS and BBA.                             *)

Stopped(x) == closePc[x] # "out"
Closed(x) == closePc[x] = "done"

\* Slip: the loop goes on after Close.
LoopTestNothing(x) == "select"

\* The loop test that follows each case of the select.
LoopTest(x) == IF Stopped(x) THEN "ended" ELSE "select"

TakeToken(x) ==
    /\ pc[x] = "select"
    /\ token[x]
    /\ token' = [token EXCEPT ![x] = FALSE]
    /\ Goto(x, "token")
    /\ UNCHANGED <<call, acsVars, rbcVars, bbaVars, closePc, passed, panic>>

\* Slip: the token stays with the loop.
KeepToken(x) ==
    /\ pc[x] = "token"
    /\ Goto(x, LoopTest(x))
    /\ UNCHANGED <<call, acsVars, rbcVars, bbaVars, closeVars, panic>>

PutBackToken(x) ==
    /\ pc[x] = "token"
    /\ token' = [token EXCEPT ![x] = TRUE]
    /\ passed' = passed \cup {x}
    /\ Goto(x, LoopTest(x))
    /\ UNCHANGED <<call, acsVars, rbcVars, bbaVars, closePc, panic>>

\* ACS.run takes a value from its closed closeChan and sends to it again, BBA.run
\* an empty request from its closed reqChan, whose type muxMessage logs.
ReadClosed(x) ==
    /\ pc[x] = "select"
    /\ Closed(x)
    /\ x \in Members => reqs[x] = 0
    /\ panic' = <<"run", x>>
    /\ UNCHANGED <<call, pc, acsVars, rbcVars, bbaVars, closeVars>>

\* How many loops are being closed or have been.
Closes ==
    Cardinality({x \in Loops : Stopped(x)})
        + Cardinality({m \in Members : rbcClose[m] # "out"})

\* The first caller of Close; the others return at once.
CloseSwap(x) ==
    /\ Closes < scenario.closes
    /\ closePc[x] = "out"
    /\ closePc' = [closePc EXCEPT ![x] = "put"]
    /\ UNCHANGED <<call, pc, acsVars, rbcVars, bbaVars, token, passed, panic>>

ClosePut(x) ==
    /\ closePc[x] = "put"
    /\ ~ token[x]
    /\ token' = [token EXCEPT ![x] = TRUE]
    /\ closePc' = [closePc EXCEPT ![x] = "take"]
    /\ UNCHANGED <<call, pc, acsVars, rbcVars, bbaVars, passed, panic>>

\* The token may be the one just put.
CloseTake(x) ==
    /\ closePc[x] = "take"
    /\ token[x]
    /\ token' = [token EXCEPT ![x] = FALSE]
    /\ closePc' = [closePc EXCEPT ![x] = "close"]
    /\ UNCHANGED <<call, pc, acsVars, rbcVars, bbaVars, passed, panic>>

CloseChan(x) ==
    /\ closePc[x] = "close"
    /\ closePc' = [closePc EXCEPT ![x] = "done"]
    /\ UNCHANGED <<call, pc, acsVars, rbcVars, bbaVars, token, passed, panic>>

CloseStep(x) == ClosePut(x) \/ CloseTake(x) \/ CloseChan(x)

-----------------------------------------------------------------------------
(* The connections and ACS.run.                                            *)

\* A connection's goroutine calls HandleMessage and waits for its turn.
HandleMessage(c) ==
    /\ call[c] = None
    /\ \E k \in {"rbc", "bba"}, m \in scenario.members :
          call' = [call EXCEPT ![c] = [kind |-> k, member |-> m]]
    /\ UNCHANGED <<pc, acsVars, rbcVars, bbaVars, closeVars, panic>>

\* ACS.run takes the call of c from the unbuffered reqChan.
TakeCall(c) ==
    /\ pc[ACS] = "select"
    /\ call[c] # None
    /\ serving' = c
    /\ IF call[c].kind = "rbc"
       THEN Goto(ACS, "rbc") /\ UNCHANGED puts
       ELSE Goto(ACS, "put") /\ puts' = <<call[c].member>>
    /\ UNCHANGED <<call, fed, zeroDue, rbcVars, bbaVars, closeVars, panic>>

\* The reply, and back to the loop test.
Served ==
    /\ serving' = None
    /\ call' = [c \in Conns |-> IF c = serving THEN None ELSE call[c]]
    /\ Goto(ACS, LoopTest(ACS))

\* The data of a member comes, and its agreement gets One: HandleInput shares a
\* BVAL, which reaches the own BBA as well, and puts a second request.
TakeData ==
    /\ pc[ACS] = "select"
    /\ dataChan # <<>>
    /\ dataChan' = Tail(dataChan)
    /\ puts' = <<Head(dataChan), Head(dataChan)>>
    /\ fed' = fed \cup {Head(dataChan)}
    /\ Goto(ACS, "put")
    /\ UNCHANGED <<call, serving, zeroDue, rbcPc, delivered, rbcClose, bbaVars,
                   closeVars, panic>>

\* Some decision makes N-F, and agreementChan gets a signal.
TakeDecision ==
    /\ pc[ACS] = "select"
    /\ binaryChan # <<>>
    /\ binaryChan' = Tail(binaryChan)
    /\ zeroDue' \in {zeroDue, TRUE}
    /\ Goto(ACS, LoopTest(ACS))
    /\ UNCHANGED <<call, serving, puts, fed, rbcVars, reqs, pushes, decided,
                   closeVars, panic>>

\* Those without an input that are still in their first round get Zero.
SendZeroToIdleBba ==
    /\ pc[ACS] = "select"
    /\ zeroDue
    /\ zeroDue' = FALSE
    /\ \E idle \in SUBSET (scenario.members \ fed) : \E q \in SetToSeqs(idle) :
          /\ puts' = [k \in 1 .. 2 * Len(q) |-> q[(k + 1) \div 2]]
          /\ fed' = fed \cup idle
          /\ Goto(ACS, IF idle = {} THEN LoopTest(ACS) ELSE "put")
    /\ UNCHANGED <<call, serving, rbcVars, bbaVars, closeVars, panic>>

\* A request goes to a BBA, unless its channel is full; a send to a closed channel
\* ends the process.
PutRequest ==
    /\ pc[ACS] = "put"
    /\ LET m == Head(puts) IN
       IF Closed(m)
       THEN /\ panic' = <<"caller", m>>
            /\ UNCHANGED <<call, pc, acsVars, reqs>>
       ELSE /\ reqs[m] < ReqSize
            /\ reqs' = [reqs EXCEPT ![m] = @ + 1]
            /\ puts' = Tail(puts)
            /\ IF Len(puts) = 1 THEN Served
               ELSE UNCHANGED <<call, serving, pc>>
            /\ UNCHANGED <<fed, zeroDue, panic>>
    /\ UNCHANGED <<rbcVars, pushes, decided, binaryChan, closeVars>>

-----------------------------------------------------------------------------
(* RBC.run and its Close.                                                  *)

RbcTake(m) ==
    /\ pc[ACS] = "rbc"
    /\ call[serving].member = m
    /\ rbcPc[m] = "select"
    /\ rbcPc' = [rbcPc EXCEPT ![m] = "handle"]
    /\ Goto(ACS, "rbcWait")
    /\ UNCHANGED <<call, acsVars, delivered, dataChan, rbcClose, bbaVars,
                   closeVars, panic>>

\* Slip: done is not looked at.
DecodeSuccessAgain(m) ==
    /\ rbcPc[m] = "handle"
    /\ rbcPc' = [rbcPc EXCEPT ![m] = "deliver"]
    /\ UNCHANGED <<call, pc, acsVars, delivered, dataChan, rbcClose, bbaVars,
                   closeVars, panic>>

\* The request completes what the output test asks for, once.
DecodeSuccess(m) ==
    /\ rbcPc[m] = "handle"
    /\ m \notin delivered
    /\ rbcPc' = [rbcPc EXCEPT ![m] = "deliver"]
    /\ UNCHANGED <<call, pc, acsVars, delivered, dataChan, rbcClose, bbaVars,
                   closeVars, panic>>

RbcDeliver(m) ==
    /\ rbcPc[m] = "deliver"
    /\ Len(dataChan) < DataSize
    /\ dataChan' = Append(dataChan, m)
    /\ delivered' = delivered \cup {m}
    /\ rbcPc' = [rbcPc EXCEPT ![m] = "reply"]
    /\ UNCHANGED <<call, pc, acsVars, rbcClose, bbaVars, closeVars, panic>>

\* The reply reaches ACS.run, which waits for it, and through it the connection.
RbcReply(m) ==
    /\ rbcPc[m] \in {"handle", "reply"}
    /\ rbcPc' = [rbcPc EXCEPT ![m] = "select"]
    /\ Served
    /\ UNCHANGED <<puts, fed, zeroDue, delivered, dataChan, rbcClose, bbaVars,
                   closeVars, panic>>

RbcClose(m) ==
    /\ Closes < scenario.closes
    /\ rbcClose[m] = "out"
    /\ rbcClose' = [rbcClose EXCEPT ![m] = "send"]
    /\ UNCHANGED <<call, pc, acsVars, rbcPc, delivered, dataChan, bbaVars,
                   closeVars, panic>>

\* The unbuffered closeChan: the token goes to run, and back.
RbcToken(m) ==
    /\ rbcClose[m] = "send"
    /\ rbcPc[m] = "select"
    /\ rbcPc' = [rbcPc EXCEPT ![m] = "token"]
    /\ rbcClose' = [rbcClose EXCEPT ![m] = "take"]
    /\ UNCHANGED <<call, pc, acsVars, delivered, dataChan, bbaVars, closeVars,
                   panic>>

RbcTokenBack(m) ==
    /\ rbcClose[m] = "take"
    /\ rbcPc[m] = "token"
    /\ rbcPc' = [rbcPc EXCEPT ![m] = "ended"]
    /\ rbcClose' = [rbcClose EXCEPT ![m] = "done"]
    /\ UNCHANGED <<call, pc, acsVars, delivered, dataChan, bbaVars, closeVars,
                   panic>>

-----------------------------------------------------------------------------
(* BBA.run.                                                                *)

\* A request, or an internal signal it raised, is handled: nothing comes of it, or
\* a decision, or requests on the own channel.
BbaTake(m) ==
    /\ pc[m] = "select"
    /\ reqs[m] > 0
    /\ reqs' = [reqs EXCEPT ![m] = @ - 1]
    /\ \/ Goto(m, LoopTest(m)) /\ UNCHANGED pushes
       \/ m \notin decided /\ Goto(m, "decide") /\ UNCHANGED pushes
       \/ /\ Goto(m, "push")
          /\ \E k \in 1 .. PushMax : pushes' = [pushes EXCEPT ![m] = k]
    /\ UNCHANGED <<call, acsVars, rbcVars, decided, binaryChan, closeVars,
                   panic>>

\* Close may have closed the channel meanwhile.
BbaPush(m) ==
    /\ pc[m] = "push"
    /\ IF Closed(m)
       THEN panic' = <<"run", m>> /\ UNCHANGED <<pc, reqs, pushes>>
       ELSE /\ reqs[m] < ReqSize
            /\ reqs' = [reqs EXCEPT ![m] = @ + 1]
            /\ pushes' = [pushes EXCEPT ![m] = @ - 1]
            /\ Goto(m, IF pushes[m] = 1 THEN LoopTest(m) ELSE "push")
            /\ UNCHANGED panic
    /\ UNCHANGED <<call, acsVars, rbcVars, decided, binaryChan, closeVars>>

AgreementSuccess(m) ==
    /\ pc[m] = "decide"
    /\ Len(binaryChan) < BinarySize
    /\ binaryChan' = Append(binaryChan, m)
    /\ decided' = decided \cup {m}
    /\ Goto(m, LoopTest(m))
    /\ UNCHANGED <<call, acsVars, rbcVars, reqs, pushes, closeVars, panic>>

-----------------------------------------------------------------------------

TokenStep(x) == TakeToken(x) \/ PutBackToken(x) \/ ReadClosed(x)

AcsStep ==
    \/ TokenStep(ACS)
    \/ TakeData
    \/ TakeDecision
    \/ SendZeroToIdleBba

RbcStep(m) ==
    \/ RbcTake(m)
    \/ DecodeSuccess(m)
    \/ RbcDeliver(m)
    \/ RbcReply(m)
    \/ RbcTokenBack(m)

BbaStep(m) ==
    \/ TokenStep(m)
    \/ BbaTake(m)
    \/ BbaPush(m)
    \/ AgreementSuccess(m)

Next ==
    /\ panic = None
    /\ UNCHANGED scenario
    /\ \/ \E c \in Conns : HandleMessage(c) \/ TakeCall(c)
       \/ AcsStep \/ PutRequest
       \/ \E m \in scenario.members :
             RbcStep(m) \/ RbcToken(m) \/ RbcClose(m) \/ BbaStep(m)
       \/ \E x \in scenario.members \cup {ACS} : CloseSwap(x) \/ CloseStep(x)

Spec == Init /\ [][Next]_vars

\* Every goroutine keeps running.  A select picks among its channels at random,
\* and those who wait on one channel are served in turn, so a goroutine whose
\* partner or whose room is there again and again gets through.
Fairness ==
    LET Fair(A) == panic = None /\ A /\ UNCHANGED scenario IN
    /\ WF_vars(Fair(AcsStep))
    /\ SF_vars(Fair(PutRequest))
    /\ \A c \in Conns : SF_vars(Fair(TakeCall(c)))
    /\ \A m \in Members :
          /\ WF_vars(Fair(RbcStep(m)))
          /\ SF_vars(Fair(RbcToken(m)))
          /\ WF_vars(Fair(BbaStep(m)))
    /\ \A x \in Loops : WF_vars(Fair(CloseStep(x)))

FairSpec == Spec /\ Fairness

-----------------------------------------------------------------------------
(* Properties.                                                             *)

\* The shape of the variables; a member's data and its decision wait once at most.
Shapes ==
    /\ call \in [Conns -> {None} \cup [kind : {"rbc", "bba"}, member : Members]]
    /\ pc \in [Loops -> {"select", "token", "ended", "rbc", "rbcWait", "put",
                         "push", "decide"}]
    /\ serving \in Conns \cup {None}
    /\ puts \in Seq(Members)
    /\ fed \subseteq Members
    /\ zeroDue \in BOOLEAN
    /\ rbcPc \in [Members -> {"select", "handle", "deliver", "reply", "token",
                              "ended"}]
    /\ dataChan \in Seq(Members) /\ IsInjective(dataChan)
    /\ binaryChan \in Seq(Members) /\ IsInjective(binaryChan)
    /\ delivered \cup decided \cup passed \subseteq Loops
    /\ reqs \in [Members -> 0 .. ReqSize]
    /\ pushes \in [Members -> 0 .. PushMax]
    /\ token \in [Loops -> BOOLEAN]
    /\ closePc \in [Loops -> {"out", "put", "take", "close", "done"}]
    /\ rbcClose \in [Members -> {"out", "send", "take", "done"}]
    /\ panic \in {None} \cup ({"run", "caller"} \X Loops)

\* RBC.run and BBA.run never wait on the channels that only ACS.run empties, which
\* may be waiting for them (core.go: NewDataChannel, NewBinaryChannel).
Room ==
    \A m \in Members :
       /\ rbcPc[m] = "deliver" => Len(dataChan) < DataSize
       /\ pc[m] = "decide" => Len(binaryChan) < BinarySize

\* The variables have their shape, and the capacities are enough: a member's data
\* and its decision are sent once, so the loops find room for them.
TypeOK == Shapes /\ Room

\* A BBA.run that waits for room on the channel only it empties, for good.
Jammed(m) == pc[m] = "push" /\ reqs[m] = ReqSize

\* ACS.run has ended, waits for one that has, or for a BBA that is jammed.
Halted ==
    \/ panic # None
    \/ pc[ACS] = "ended"
    \/ pc[ACS] = "rbc" /\ rbcPc[call[serving].member] = "ended"
    \/ /\ pc[ACS] = "put"
       /\ reqs[Head(puts)] = ReqSize
       /\ pc[Head(puts)] = "ended" \/ Jammed(Head(puts))

\* Every call of a connection returns, unless ACS.run has stopped for one of the
\* reasons above: waiting for each other's replies and channels the loops never
\* come to a standstill of another kind (acs.go: HandleMessage, run).
CallsReturn == \A c \in Conns : []<>(call[c] = None \/ Halted)

\* The first Close of every loop returns, whatever the loop is doing: nobody stays
\* between its steps (acs.go, bba.go, rbc.go: Close).
CloseReturns ==
    []<>(\/ /\ \A x \in Loops : Stopped(x) => Closed(x)
            /\ \A m \in Members : rbcClose[m] \in {"out", "done"}
         \/ panic # None)

\* A loop that Close has seen pass the token never touches a closed channel; only
\* where Close took back its own token can the loop end the process
\* (bba.go:191, acs.go:154).
PanicCause ==
    \A x \in Loops : panic = <<"run", x>> => x \notin passed
=============================================================================
