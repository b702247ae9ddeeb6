---------------------------- MODULE LoopsProofs ----------------------------
(***************************************************************************)
(* Proofs about Loops, for any members, connections and capacities: the    *)
(* data and the binary channel have room whenever RBC.run and BBA.run      *)
(* deliver, and a loop that has passed the token on meets no closed        *)
(* channel.                                                                *)
(***************************************************************************)
EXTENDS Loops, SequenceTheorems, FiniteSetTheorems, TLAPS

Busy(m) == rbcPc[m] \in {"handle", "deliver", "reply"}

\* ACS.run waits for the one RBC that serves it, and it and the BBAs have something
\* to put when they are at it.
Waits ==
    /\ pc[ACS] = "put" => puts # <<>>
    /\ \A m \in Members : Busy(m) => pc[ACS] = "rbcWait"
    /\ \A m, n \in Members : Busy(m) /\ Busy(n) => m = n
    /\ \A m \in Members : pc[m] = "push" => pushes[m] > 0

\* What waits on the data channel has been delivered, and an RBC at its delivery
\* has not delivered before.
DataOnce ==
    /\ \A k \in DOMAIN dataChan : dataChan[k] \in delivered
    /\ delivered \subseteq scenario.members
    /\ \A m \in Members :
          rbcPc[m] = "deliver" => m \in scenario.members \ delivered

\* The same of the decisions on the binary channel.
DecisionOnce ==
    /\ \A k \in DOMAIN binaryChan : binaryChan[k] \in decided
    /\ decided \subseteq scenario.members
    /\ \A m \in Members :
          pc[m] = "decide" => m \in scenario.members \ decided

\* There is no token before Close, so a loop that passes it on ends.
TokenLate ==
    /\ \A x \in Loops : token[x] \/ pc[x] = "token" => Stopped(x)
    /\ \A x \in passed : pc[x] = "ended"

IInv ==
    /\ scenario \in Scenarios
    /\ Shapes
    /\ Waits
    /\ DataOnce
    /\ DecisionOnce
    /\ TokenLate
    /\ PanicCause

-----------------------------------------------------------------------------
(* Sequences without repetition.                                           *)

\* Taking the head of a channel.
LEMMA TailOnce ==
    ASSUME NEW S, NEW q \in Seq(S), q # <<>>, IsInjective(q)
    PROVE  /\ Head(q) \in S
           /\ Tail(q) \in Seq(S)
           /\ IsInjective(Tail(q))
           /\ \A k \in DOMAIN Tail(q) : \E j \in DOMAIN q : Tail(q)[k] = q[j]
<1>1. /\ Head(q) \in S
      /\ Tail(q) \in Seq(S)
      /\ DOMAIN q = 1 .. Len(q)
      /\ DOMAIN Tail(q) = 1 .. Len(q) - 1
      /\ Len(q) \in Nat
  BY HeadTailProperties, LenProperties
<1>2. \A k \in DOMAIN Tail(q) : k + 1 \in DOMAIN q /\ Tail(q)[k] = q[k + 1]
  BY <1>1, HeadTailProperties
<1>. QED
  BY <1>1, <1>2 DEF IsInjective

LEMMA TailNotEmpty ==
    ASSUME NEW S, NEW q \in Seq(S), q # <<>>, Len(q) # 1
    PROVE  Tail(q) # <<>>
<1>1. Len(Tail(q)) = Len(q) - 1 /\ Len(q) \in Nat
  BY HeadTailProperties, LenProperties
<1>2. Tail(q) = <<>> => Len(Tail(q)) = 0
  BY EmptySeq, Zenon
<1>. QED
  BY <1>1, <1>2

\* Putting a new value on a channel.
LEMMA AppendOnce ==
    ASSUME NEW S, NEW q \in Seq(S), IsInjective(q), NEW e \in S,
           \A k \in DOMAIN q : q[k] # e
    PROVE  /\ Append(q, e) \in Seq(S)
           /\ IsInjective(Append(q, e))
           /\ \A k \in DOMAIN Append(q, e) :
                 \/ Append(q, e)[k] = e
                 \/ \E j \in DOMAIN q : Append(q, e)[k] = q[j]
<1>1. /\ Append(q, e) \in Seq(S)
      /\ Len(q) \in Nat
      /\ DOMAIN q = 1 .. Len(q)
      /\ DOMAIN Append(q, e) = 1 .. Len(q) + 1
      /\ Append(q, e)[Len(q) + 1] = e
      /\ \A j \in 1 .. Len(q) : Append(q, e)[j] = q[j]
  OBVIOUS
<1>2. \A k \in DOMAIN Append(q, e) : k \in DOMAIN q \/ k = Len(q) + 1
  BY <1>1
<1>. QED
  BY <1>1, <1>2 DEF IsInjective

\* A sequence whose values differ, all in T but for one that never occurs, is
\* shorter than T has elements.
LEMMA OnceRoom ==
    ASSUME NEW S, NEW q \in Seq(S), IsInjective(q),
           NEW T, IsFiniteSet(T), NEW m \in T,
           \A k \in DOMAIN q : q[k] \in T \ {m}
    PROVE  Len(q) < Cardinality(T)
<1>1. /\ IsFiniteSet(T \ {m})
      /\ Cardinality(T) \in Nat
      /\ Cardinality(T \ {m}) = Cardinality(T) - 1
  BY FS_RemoveElement, FS_CardinalityType
<1>2. Len(q) \in Nat /\ DOMAIN q = 1 .. Len(q) /\ q \in [1 .. Len(q) -> S]
  BY LenProperties
<1>3. q \in Injection(1 .. Len(q), T \ {m})
  BY <1>2 DEF Injection
<1>4. Cardinality(1 .. Len(q)) <= Cardinality(T \ {m})
  BY <1>1, <1>3, FS_Injection
<1>5. Cardinality(1 .. Len(q)) = Len(q)
  <2>1. \A n \in Nat : Cardinality(1 .. n) = n
    BY FS_Interval
  <2>. QED
    BY <1>2, <2>1
<1>. QED
  BY <1>1, <1>2, <1>4, <1>5

\* Every BBA in some order, twice.
LEMMA TwiceEach ==
    ASSUME NEW idle, IsFiniteSet(idle), NEW q \in SetToSeqs(idle),
           NEW p, p = [k \in 1 .. 2 * Len(q) |-> q[(k + 1) \div 2]]
    PROVE  /\ p \in Seq(idle)
           /\ p = <<>> => idle = {}
<1> DEFINE n == Cardinality(idle)
<1>1. n \in Nat /\ q \in [1 .. n -> idle] /\ Len(q) = n
  <2>1. n \in Nat /\ q \in [1 .. n -> idle]
    BY FS_CardinalityType DEF SetToSeqs
  <2>2. q \in Seq(idle)
    BY <2>1, SeqDef
  <2>. QED
    BY <2>1, <2>2, LenProperties
<1>2. \A k \in 1 .. 2 * n : (k + 1) \div 2 \in 1 .. n
  BY <1>1
<1>3. p \in [1 .. 2 * n -> idle] /\ 2 * n \in Nat
  BY <1>1, <1>2
<1>4. p \in Seq(idle) /\ Len(p) = 2 * n
  <2>1. \A k \in Nat : [1 .. k -> idle] \subseteq Seq(idle)
    BY SeqDef
  <2>2. p \in Seq(idle)
    BY <1>3, <2>1
  <2>3. Len(p) \in Nat /\ 1 .. Len(p) = 1 .. 2 * n
    BY <1>3, <2>2, LenProperties
  <2>. QED
    BY <1>1, <2>2, <2>3
<1>5. p = <<>> => idle = {}
  BY <1>1, <1>4, FS_EmptySet
<1>. QED
  BY <1>1, <1>4, <1>5

-----------------------------------------------------------------------------
(* The steps, one part of the invariant at a time.                         *)

LEMMA Scenario ==
    ASSUME IInv
    PROVE  scenario.members \subseteq Members /\ IsFiniteSet(scenario.members)
BY LoopsAssumption, FS_Subset DEF IInv

\* Nobody has delivered or decided, and nobody closes.
LEMMA InitIInv == Init => IInv
<1> SUFFICES ASSUME Init PROVE IInv
  OBVIOUS
<1>1. Shapes
  <2>1. <<>> \in Seq(Members) /\ IsInjective(<<>>)
    BY DEF IsInjective
  <2>2. 0 \in 0 .. ReqSize /\ 0 \in 0 .. PushMax
    BY LoopsAssumption
  <2>. QED
    BY <2>1, <2>2 DEF Init, Shapes, Loops
<1>2. Waits /\ DataOnce /\ DecisionOnce
  BY LoopsAssumption DEF Init, Waits, Busy, DataOnce, DecisionOnce, Loops
<1>3. TokenLate /\ PanicCause
  BY LoopsAssumption DEF Init, TokenLate, PanicCause, Loops, Stopped
<1>. QED
  BY <1>1, <1>2, <1>3 DEF Init, IInv

\* What a step starts from.
LEMMA StepFacts ==
    ASSUME IInv, Next
    PROVE  /\ panic = None
           /\ UNCHANGED scenario
           /\ scenario.members \subseteq Members
           /\ IsFiniteSet(scenario.members)
           /\ Shapes
           /\ Waits
           /\ DataOnce
           /\ DecisionOnce
           /\ TokenLate
           /\ PanicCause
BY Scenario DEF IInv, Next

\* Zero goes to some of those that have no input, and each is sent two requests.
LEMMA SendZeroEffect ==
    ASSUME IsFiniteSet(scenario.members), SendZeroToIdleBba
    PROVE  \E idle \in SUBSET (scenario.members \ fed) :
              /\ puts' \in Seq(idle)
              /\ puts' = <<>> => idle = {}
              /\ fed' = fed \cup idle
              /\ Goto(ACS, IF idle = {} THEN LoopTest(ACS) ELSE "put")
<1>1. PICK idle \in SUBSET (scenario.members \ fed) :
         \E q \in SetToSeqs(idle) :
            /\ puts' = [k \in 1 .. 2 * Len(q) |-> q[(k + 1) \div 2]]
            /\ fed' = fed \cup idle
            /\ Goto(ACS, IF idle = {} THEN LoopTest(ACS) ELSE "put")
  BY Zenon DEF SendZeroToIdleBba
<1>2. PICK q \in SetToSeqs(idle) :
         /\ puts' = [k \in 1 .. 2 * Len(q) |-> q[(k + 1) \div 2]]
         /\ fed' = fed \cup idle
         /\ Goto(ACS, IF idle = {} THEN LoopTest(ACS) ELSE "put")
  BY <1>1, Zenon
<1>3. IsFiniteSet(idle)
  BY FS_Subset
<1>4. puts' \in Seq(idle) /\ (puts' = <<>> => idle = {})
  BY <1>2, <1>3, TwiceEach, Zenon
<1>. QED
  BY <1>2, <1>4, Zenon

\* Where BBA.run goes from its select, and what it then has to put.
LEMMA BbaTakeEffect ==
    ASSUME Shapes, NEW m \in Members, BbaTake(m)
    PROVE  /\ reqs' \in [Members -> 0 .. ReqSize]
           /\ pushes' \in [Members -> 0 .. PushMax]
           /\ \E label \in {"select", "ended", "decide", "push"} :
                 /\ pc' = [pc EXCEPT ![m] = label]
                 /\ label = "push" => pushes'[m] > 0
                 /\ label = "decide" => m \notin decided
           /\ \A n \in Members \ {m} : pushes'[n] = pushes[n]
           /\ pc[m] = "select"
<1> USE LoopsAssumption DEF Shapes, Goto, Loops
<1>1. reqs' = [reqs EXCEPT ![m] = reqs[m] - 1] /\ reqs[m] > 0 /\ pc[m] = "select"
  BY DEF BbaTake
<1>2. reqs' \in [Members -> 0 .. ReqSize]
  BY <1>1
<1>3. CASE /\ UNCHANGED pushes
           /\ \/ pc' = [pc EXCEPT ![m] = LoopTest(m)]
              \/ pc' = [pc EXCEPT ![m] = "decide"] /\ m \notin decided
  BY <1>1, <1>2, <1>3 DEF LoopTest
<1>4. ASSUME NEW k \in 1 .. PushMax, pushes' = [pushes EXCEPT ![m] = k],
             pc' = [pc EXCEPT ![m] = "push"]
      PROVE  /\ pushes' \in [Members -> 0 .. PushMax]
             /\ pushes'[m] > 0
             /\ \A n \in Members \ {m} : pushes'[n] = pushes[n]
  BY <1>4
<1>5. CASE \E k \in 1 .. PushMax :
              /\ pushes' = [pushes EXCEPT ![m] = k]
              /\ pc' = [pc EXCEPT ![m] = "push"]
  BY <1>1, <1>2, <1>4, <1>5
<1>. QED
  BY <1>3, <1>5 DEF BbaTake

\* What is taken from a channel, put on it or sent to a BBA is a member.
LEMMA NextShapes == ASSUME IInv, Next PROVE Shapes'
<1> USE LoopsAssumption DEF Loops, Goto, acsVars, rbcVars, bbaVars, closeVars,
   Shapes
<1>1. ASSUME NEW c \in Conns, HandleMessage(c) PROVE Shapes'
  BY StepFacts, <1>1 DEF HandleMessage
<1>2. ASSUME NEW c \in Conns, TakeCall(c) PROVE Shapes'
  <2>1. /\ call[c].kind = "bba" => call[c].member \in Members
        /\ call[c].kind # "rbc" => call[c].kind = "bba"
    BY StepFacts, <1>2 DEF TakeCall
  <2>2. call[c].kind = "bba" => <<call[c].member>> \in Seq(Members)
    BY <2>1
  <2>3. puts' \in Seq(Members)
    BY StepFacts, <1>2, <2>1, <2>2 DEF TakeCall
  <2>. QED
    BY StepFacts, <1>2, <2>3 DEF TakeCall
<1>3. ASSUME NEW x \in Loops, TakeToken(x) PROVE Shapes'
  BY StepFacts, <1>3 DEF TakeToken
<1>4. ASSUME NEW x \in Loops, PutBackToken(x) PROVE Shapes'
  BY StepFacts, <1>4 DEF PutBackToken, LoopTest
<1>5. ASSUME NEW x \in Loops, ReadClosed(x) PROVE Shapes'
  BY StepFacts, <1>5 DEF ReadClosed
<1>6. ASSUME NEW x \in Loops, CloseSwap(x) PROVE Shapes'
  BY StepFacts, <1>6 DEF CloseSwap
<1>7. ASSUME NEW x \in Loops, ClosePut(x) PROVE Shapes'
  BY StepFacts, <1>7 DEF ClosePut
<1>8. ASSUME NEW x \in Loops, CloseTake(x) PROVE Shapes'
  BY StepFacts, <1>8 DEF CloseTake
<1>9. ASSUME NEW x \in Loops, CloseChan(x) PROVE Shapes'
  BY StepFacts, <1>9 DEF CloseChan
<1>10. ASSUME TakeData PROVE Shapes'
  <2>1. /\ Head(dataChan) \in Members
        /\ Tail(dataChan) \in Seq(Members)
        /\ IsInjective(Tail(dataChan))
    BY StepFacts, <1>10, TailOnce DEF TakeData
  <2>2. <<Head(dataChan), Head(dataChan)>> \in Seq(Members)
    BY <2>1
  <2>3. /\ dataChan' = Tail(dataChan)
        /\ puts' = <<Head(dataChan), Head(dataChan)>>
        /\ fed' = fed \cup {Head(dataChan)}
        /\ pc' = [pc EXCEPT ![ACS] = "put"]
        /\ UNCHANGED <<call, serving, zeroDue, rbcPc, delivered, rbcClose, bbaVars,
                       closeVars, panic>>
    BY <1>10 DEF TakeData
  <2>4. Shapes
    BY StepFacts
  <2>5. pc' \in [Loops -> {"select", "token", "ended", "rbc", "rbcWait", "put",
                           "push", "decide"}]
    BY <2>3, <2>4
  <2>6. fed' \subseteq Members
    BY <2>1, <2>3, <2>4
  <2>. QED
    BY <2>1, <2>2, <2>3, <2>4, <2>5, <2>6
<1>11. ASSUME TakeDecision PROVE Shapes'
  <2>1. /\ Tail(binaryChan) \in Seq(Members)
        /\ IsInjective(Tail(binaryChan))
    BY StepFacts, <1>11, TailOnce DEF TakeDecision
  <2>. QED
    BY StepFacts, <1>11, <2>1 DEF TakeDecision, LoopTest
<1>12. ASSUME SendZeroToIdleBba PROVE Shapes'
  <2>1. PICK idle \in SUBSET (scenario.members \ fed) :
           /\ puts' \in Seq(idle)
           /\ fed' = fed \cup idle
           /\ Goto(ACS, IF idle = {} THEN LoopTest(ACS) ELSE "put")
    BY StepFacts, <1>12, SendZeroEffect, Zenon
  <2>2. puts' \in Seq(Members)
    BY StepFacts, <2>1, SeqMonotonic
  <2>3. fed' \subseteq Members
    BY StepFacts, <2>1
  <2>4. pc' \in [Loops -> {"select", "token", "ended", "rbc", "rbcWait", "put",
                           "push", "decide"}]
    BY StepFacts, <2>1 DEF LoopTest
  <2>. QED
    BY StepFacts, <1>12, <2>2, <2>3, <2>4 DEF SendZeroToIdleBba
<1>13. ASSUME PutRequest PROVE Shapes'
  <2>1. /\ Head(puts) \in Members
        /\ Tail(puts) \in Seq(Members)
    BY StepFacts, <1>13 DEF PutRequest, Waits
  <2>2. CASE Closed(Head(puts))
    <3>1. /\ panic' = <<"caller", Head(puts)>>
          /\ UNCHANGED <<call, pc, acsVars, reqs, rbcVars, pushes, decided,
                         binaryChan, closeVars>>
      BY <1>13, <2>2 DEF PutRequest
    <3>. QED
      BY StepFacts, <2>1, <3>1
  <2>3. CASE ~ Closed(Head(puts))
    <3>0. /\ reqs \in [Members -> 0 .. ReqSize]
          /\ reqs[Head(puts)] < ReqSize
          /\ reqs' = [reqs EXCEPT ![Head(puts)] = reqs[Head(puts)] + 1]
      BY StepFacts, <1>13, <2>3 DEF PutRequest
    <3>1. reqs' \in [Members -> 0 .. ReqSize]
      BY <2>1, <3>0
    <3>2. /\ call' \in [Conns -> {None} \cup
                                 [kind : {"rbc", "bba"}, member : Members]]
          /\ serving' \in Conns \cup {None}
          /\ pc' \in [Loops -> {"select", "token", "ended", "rbc", "rbcWait",
                                "put", "push", "decide"}]
      BY StepFacts, <1>13, <2>3 DEF PutRequest, Served, LoopTest
    <3>3. /\ puts' = Tail(puts)
          /\ UNCHANGED <<fed, zeroDue, panic>>
          /\ UNCHANGED <<rbcVars, pushes, decided, binaryChan, closeVars>>
      BY <1>13, <2>3 DEF PutRequest
    <3>. QED
      BY StepFacts, <2>1, <3>1, <3>2, <3>3
  <2>. QED
    BY <2>2, <2>3
<1>14. ASSUME NEW m \in scenario.members, RbcTake(m) PROVE Shapes'
  BY StepFacts, <1>14 DEF RbcTake
<1>15. ASSUME NEW m \in scenario.members, DecodeSuccess(m) PROVE Shapes'
  BY StepFacts, <1>15 DEF DecodeSuccess
<1>16. ASSUME NEW m \in scenario.members, RbcToken(m) PROVE Shapes'
  BY StepFacts, <1>16 DEF RbcToken
<1>17. ASSUME NEW m \in scenario.members, RbcTokenBack(m) PROVE Shapes'
  BY StepFacts, <1>17 DEF RbcTokenBack
<1>18. ASSUME NEW m \in scenario.members, RbcClose(m) PROVE Shapes'
  BY StepFacts, <1>18 DEF RbcClose
<1>19. ASSUME NEW m \in scenario.members, RbcDeliver(m) PROVE Shapes'
  <2>1. \A k \in DOMAIN dataChan : dataChan[k] # m
    BY StepFacts, <1>19 DEF RbcDeliver, DataOnce
  <2>2. /\ Append(dataChan, m) \in Seq(Members)
        /\ IsInjective(Append(dataChan, m))
    BY StepFacts, <2>1, AppendOnce
  <2>. QED
    BY StepFacts, <1>19, <2>2 DEF RbcDeliver
<1>20. ASSUME NEW m \in scenario.members, RbcReply(m) PROVE Shapes'
  BY StepFacts, <1>20 DEF RbcReply, Served, LoopTest
<1>21. ASSUME NEW m \in scenario.members, BbaTake(m) PROVE Shapes'
  <2>1. /\ reqs' \in [Members -> 0 .. ReqSize]
        /\ pushes' \in [Members -> 0 .. PushMax]
        /\ \A n \in Members \ {m} : pushes'[n] = pushes[n]
        /\ m \in Members
        /\ pc[m] = "select"
    BY StepFacts, <1>21, BbaTakeEffect
  <2>2. PICK label \in {"select", "ended", "decide", "push"} :
           /\ pc' = [pc EXCEPT ![m] = label]
           /\ label = "push" => pushes'[m] > 0
    BY StepFacts, <1>21, BbaTakeEffect
  <2>. QED
    BY StepFacts, <1>21, <2>1, <2>2 DEF BbaTake
<1>22. ASSUME NEW m \in scenario.members, BbaPush(m) PROVE Shapes'
  <2>1. CASE Closed(m)
    BY StepFacts, <1>22, <2>1 DEF BbaPush
  <2>2. CASE ~ Closed(m)
    <3>1. /\ m \in Members
          /\ reqs \in [Members -> 0 .. ReqSize]
          /\ reqs[m] < ReqSize
          /\ reqs' = [reqs EXCEPT ![m] = reqs[m] + 1]
          /\ pushes \in [Members -> 0 .. PushMax]
          /\ pushes[m] > 0
          /\ pushes' = [pushes EXCEPT ![m] = pushes[m] - 1]
          /\ pc \in [Loops -> {"select", "token", "ended", "rbc", "rbcWait",
                               "put", "push", "decide"}]
          /\ \/ pc' = [pc EXCEPT ![m] = LoopTest(m)]
             \/ pc' = [pc EXCEPT ![m] = "push"]
      BY StepFacts, <1>22, <2>2 DEF BbaPush, Waits
    <3>2. reqs' \in [Members -> 0 .. ReqSize]
      BY <3>1
    <3>3. pushes' \in [Members -> 0 .. PushMax]
      BY <3>1
    <3>4. pc' \in [Loops -> {"select", "token", "ended", "rbc", "rbcWait", "put",
                             "push", "decide"}]
      BY <3>1 DEF LoopTest
    <3>. QED
      BY StepFacts, <1>22, <2>2, <3>2, <3>3, <3>4 DEF BbaPush
  <2>. QED
    BY <2>1, <2>2
<1>23. ASSUME NEW m \in scenario.members, AgreementSuccess(m) PROVE Shapes'
  <2>1. \A k \in DOMAIN binaryChan : binaryChan[k] # m
    BY StepFacts, <1>23 DEF AgreementSuccess, DecisionOnce
  <2>2. /\ Append(binaryChan, m) \in Seq(Members)
        /\ IsInjective(Append(binaryChan, m))
    BY StepFacts, <2>1, AppendOnce
  <2>. QED
    BY StepFacts, <1>23, <2>2 DEF AgreementSuccess, LoopTest
<1>. QED
  BY StepFacts, <1>1, <1>2, <1>3, <1>4, <1>5, <1>6, <1>7, <1>8, <1>9, <1>10,
     <1>11,
     <1>12, <1>13, <1>14, <1>15, <1>16, <1>17, <1>18, <1>19, <1>20, <1>21,
     <1>22, <1>23 DEF Next, AcsStep, RbcStep, BbaStep, TokenStep, CloseStep

\* One of the requests due goes on the member's own channel.
LEMMA PushEffect ==
    ASSUME Shapes, NEW m \in Members, BbaPush(m), ~ Closed(m), pushes[m] > 0
    PROVE  /\ UNCHANGED <<puts, rbcPc>>
           /\ pc'[ACS] = pc[ACS]
           /\ \A n \in Members : pc'[n] = "push" =>
                 pushes'[n] > 0 \/ (pc[n] = "push" /\ pushes'[n] = pushes[n])
<1>1. /\ DOMAIN pc = Members \cup {ACS}
      /\ pushes \in [Members -> 0 .. PushMax]
      /\ m # ACS
  BY LoopsAssumption DEF Shapes, Loops
<1>2. /\ pushes' = [pushes EXCEPT ![m] = pushes[m] - 1]
      /\ pc' = [pc EXCEPT ![m] = IF pushes[m] = 1 THEN LoopTest(m) ELSE "push"]
      /\ UNCHANGED <<puts, rbcPc>>
  BY DEF BbaPush, Goto, acsVars, rbcVars
<1>3. LoopTest(m) # "push"
  BY DEF LoopTest
<1>4. pushes[m] \in Nat /\ (pushes[m] # 1 => pushes[m] - 1 > 0)
  BY <1>1, LoopsAssumption
<1>. QED
  BY <1>1, <1>2, <1>3, <1>4

\* An RBC is at work from the time it takes the request until ACS.run has its reply.
LEMMA NextWaits == ASSUME IInv, Next PROVE Waits'
<1> USE LoopsAssumption DEF Loops, Goto, acsVars, rbcVars, bbaVars, closeVars,
   Waits, Busy, Shapes
<1>1. ASSUME NEW c \in Conns, TakeCall(c) PROVE Waits'
  <2>1. pc'[ACS] = "put" => puts' # <<>>
    <3>1. <<call[c].member>> # <<>>
      OBVIOUS
    <3>. QED
      BY StepFacts, <1>1, <3>1 DEF TakeCall
  <2>. QED
    BY StepFacts, <1>1, <2>1 DEF TakeCall
<1>2. ASSUME TakeData PROVE Waits'
  <2>1. puts' # <<>>
    BY StepFacts, <1>2 DEF TakeData
  <2>. QED
    BY StepFacts, <1>2, <2>1 DEF TakeData, Shapes
<1>3. ASSUME SendZeroToIdleBba PROVE Waits'
  <2>1. PICK idle \in SUBSET (scenario.members \ fed) :
           /\ puts' = <<>> => idle = {}
           /\ Goto(ACS, IF idle = {} THEN LoopTest(ACS) ELSE "put")
    BY StepFacts, <1>3, SendZeroEffect, Zenon
  <2>. QED
    BY StepFacts, <1>3, <2>1 DEF SendZeroToIdleBba, LoopTest, Shapes
<1>4. ASSUME PutRequest PROVE Waits'
  <2>1. CASE Closed(Head(puts))
    BY StepFacts, <1>4, <2>1 DEF PutRequest
  <2>2. CASE ~ Closed(Head(puts)) /\ Len(puts) = 1
    BY StepFacts, <1>4, <2>2 DEF PutRequest, Served, LoopTest, Shapes
  <2>3. CASE ~ Closed(Head(puts)) /\ Len(puts) # 1
    <3>1. puts \in Seq(Members) /\ puts # <<>> /\ Len(puts) # 1
      BY StepFacts, <1>4, <2>3 DEF PutRequest, Shapes
    <3>2. Tail(puts) # <<>>
      BY <3>1, TailNotEmpty
    <3>. QED
      BY StepFacts, <1>4, <2>3, <3>2 DEF PutRequest
  <2>. QED
    BY <2>1, <2>2, <2>3
<1>5. ASSUME NEW x \in Loops, TakeToken(x) PROVE Waits'
  BY StepFacts, <1>5 DEF TakeToken
<1>6. ASSUME NEW x \in Loops, PutBackToken(x) PROVE Waits'
  BY StepFacts, <1>6 DEF PutBackToken, LoopTest
<1>7. ASSUME TakeDecision PROVE Waits'
  BY StepFacts, <1>7 DEF TakeDecision, LoopTest
<1>8. ASSUME NEW m \in scenario.members, RbcTake(m) PROVE Waits'
  BY StepFacts, <1>8 DEF RbcTake
<1>9. ASSUME NEW m \in scenario.members, RbcReply(m) PROVE Waits'
  BY StepFacts, <1>9 DEF RbcReply, Served, LoopTest
<1>10. ASSUME NEW m \in scenario.members, BbaTake(m) PROVE Waits'
  <2>1. /\ reqs' \in [Members -> 0 .. ReqSize]
        /\ pushes' \in [Members -> 0 .. PushMax]
        /\ \A n \in Members \ {m} : pushes'[n] = pushes[n]
        /\ m \in Members
        /\ pc[m] = "select"
    BY StepFacts, <1>10, BbaTakeEffect
  <2>2. PICK label \in {"select", "ended", "decide", "push"} :
           /\ pc' = [pc EXCEPT ![m] = label]
           /\ label = "push" => pushes'[m] > 0
    BY StepFacts, <1>10, BbaTakeEffect
  <2>. QED
    BY StepFacts, <1>10, <2>1, <2>2 DEF BbaTake
<1>11. ASSUME NEW m \in scenario.members, BbaPush(m) PROVE Waits'
  <2>1. CASE Closed(m)
    <3>1. UNCHANGED <<pc, puts, rbcPc, pushes>>
      BY <1>11, <2>1 DEF BbaPush
    <3>. QED
      BY StepFacts, <3>1
  <2>2. CASE ~ Closed(m)
    <3>1. Shapes /\ Waits /\ m \in Members
      BY StepFacts
    <3>2. pushes[m] > 0
      BY <1>11, <3>1 DEF BbaPush
    <3>3. /\ UNCHANGED <<puts, rbcPc>>
          /\ pc'[ACS] = pc[ACS]
          /\ \A n \in Members : pc'[n] = "push" =>
                pushes'[n] > 0 \/ (pc[n] = "push" /\ pushes'[n] = pushes[n])
      BY <1>11, <2>2, <3>1, <3>2, PushEffect
    <3>. QED
      BY <3>1, <3>3
  <2>. QED
    BY <2>1, <2>2
<1>12. ASSUME NEW m \in scenario.members, AgreementSuccess(m) PROVE Waits'
  <2>1. /\ m \in Members /\ m # ACS
        /\ UNCHANGED <<puts, rbcPc, pushes>>
        /\ pc' = [pc EXCEPT ![m] = LoopTest(m)]
        /\ LoopTest(m) \notin {"put", "push"}
    BY StepFacts, <1>12 DEF AgreementSuccess, LoopTest, Shapes
  <2>2. /\ pc'[ACS] = pc[ACS]
        /\ \A n \in Members : pc'[n] = "push" => pc[n] = "push"
    BY StepFacts, <2>1 DEF Shapes
  <2>. QED
    BY StepFacts, <2>1, <2>2
<1>13. ASSUME NEW m \in scenario.members, DecodeSuccess(m) PROVE Waits'
  <2>1. /\ rbcPc[m] = "handle"
        /\ rbcPc' = [rbcPc EXCEPT ![m] = "deliver"]
        /\ UNCHANGED <<pc, puts, pushes>>
    BY <1>13 DEF DecodeSuccess
  <2>2. Shapes /\ Waits
    BY StepFacts
  <2>3. \A n \in Members : Busy(n)' => Busy(n)
    BY <2>1, <2>2
  <2>. QED
    BY <2>1, <2>2, <2>3
<1>14. ASSUME NEW m \in scenario.members, RbcDeliver(m) PROVE Waits'
  BY StepFacts, <1>14 DEF RbcDeliver
<1>15. ASSUME NEW m \in scenario.members, RbcToken(m) PROVE Waits'
  BY StepFacts, <1>15 DEF RbcToken
<1>16. ASSUME NEW m \in scenario.members, RbcTokenBack(m) PROVE Waits'
  BY StepFacts, <1>16 DEF RbcTokenBack
<1>17. CASE \/ \E c \in Conns :
                  HandleMessage(c)
            \/ \E x \in Loops :
                  ReadClosed(x) \/ CloseSwap(x) \/ ClosePut(x)
                  \/ CloseTake(x) \/ CloseChan(x)
            \/ \E m \in scenario.members :
                  RbcClose(m)
  <2>1. ASSUME NEW c \in Conns, HandleMessage(c) PROVE Waits'
    BY StepFacts, <2>1 DEF HandleMessage
  <2>2. ASSUME NEW x \in Loops, ReadClosed(x) PROVE Waits'
    BY StepFacts, <2>2 DEF ReadClosed
  <2>3. ASSUME NEW x \in Loops,
               CloseSwap(x) \/ ClosePut(x) \/ CloseTake(x) \/ CloseChan(x)
        PROVE  Waits'
    BY StepFacts, <2>3 DEF CloseSwap, ClosePut, CloseTake, CloseChan
  <2>4. ASSUME NEW m \in scenario.members, RbcClose(m) PROVE Waits'
    BY StepFacts, <2>4 DEF RbcClose
  <2>. QED
    BY <1>17, <2>1, <2>2, <2>3, <2>4
<1>. QED
  BY StepFacts, <1>1, <1>2, <1>3, <1>4, <1>5, <1>6, <1>7, <1>8, <1>9, <1>10,
     <1>11,
     <1>12, <1>13, <1>14, <1>15, <1>16, <1>17 DEF Next, AcsStep, RbcStep,
     BbaStep, TokenStep, CloseStep

\* done is set before a value goes to the data channel, and tested before.
LEMMA NextDataOnce == ASSUME IInv, Next PROVE DataOnce'
<1> USE LoopsAssumption DEF Loops, Goto, acsVars, rbcVars, bbaVars, closeVars,
   DataOnce, Shapes
<1>1. ASSUME TakeData PROVE DataOnce'
  <2>1. /\ dataChan \in Seq(Members)
        /\ dataChan # <<>>
        /\ IsInjective(dataChan)
    BY StepFacts, <1>1 DEF TakeData, Shapes
  <2>2. \A k \in DOMAIN Tail(dataChan) :
           \E j \in DOMAIN dataChan : Tail(dataChan)[k] = dataChan[j]
    BY <2>1, TailOnce
  <2>. QED
    BY StepFacts, <1>1, <2>2 DEF TakeData
<1>2. ASSUME NEW m \in scenario.members, RbcDeliver(m) PROVE DataOnce'
  <2>1. /\ dataChan \in Seq(Members)
        /\ IsInjective(dataChan)
        /\ m \in Members
        /\ \A k \in DOMAIN dataChan : dataChan[k] # m
    BY StepFacts, <1>2 DEF RbcDeliver, Shapes
  <2>2. \A k \in DOMAIN Append(dataChan, m) :
           \/ Append(dataChan, m)[k] = m
           \/ \E j \in DOMAIN dataChan : Append(dataChan, m)[k] = dataChan[j]
    BY <2>1, AppendOnce
  <2>3. /\ dataChan' = Append(dataChan, m)
        /\ delivered' = delivered \cup {m}
        /\ rbcPc' = [rbcPc EXCEPT ![m] = "reply"]
        /\ DOMAIN rbcPc = Members
    BY StepFacts, <1>2 DEF RbcDeliver, Shapes
  <2>4. \A k \in DOMAIN dataChan' : dataChan'[k] \in delivered'
    BY StepFacts, <2>2, <2>3
  <2>5. \A n \in Members :
           rbcPc'[n] = "deliver" => n \in scenario.members \ delivered'
    <3>1. \A n \in Members :
             rbcPc'[n] = "deliver" => n # m /\ rbcPc[n] = "deliver"
      BY <2>3
    <3>. QED
      BY StepFacts, <2>3, <3>1
  <2>. QED
    BY StepFacts, <2>3, <2>4, <2>5
<1>3. CASE \E m \in scenario.members :
              DecodeSuccess(m) \/ RbcTake(m) \/ RbcReply(m)
              \/ RbcToken(m) \/ RbcTokenBack(m)
  <2>1. ASSUME NEW m \in scenario.members, DecodeSuccess(m) PROVE DataOnce'
    BY StepFacts, <2>1 DEF DecodeSuccess
  <2>2. ASSUME NEW m \in scenario.members, RbcTake(m) PROVE DataOnce'
    BY StepFacts, <2>2 DEF RbcTake
  <2>3. ASSUME NEW m \in scenario.members, RbcReply(m) PROVE DataOnce'
    BY StepFacts, <2>3 DEF RbcReply, Served, LoopTest
  <2>4. ASSUME NEW m \in scenario.members, RbcToken(m) PROVE DataOnce'
    BY StepFacts, <2>4 DEF RbcToken
  <2>5. ASSUME NEW m \in scenario.members, RbcTokenBack(m) PROVE DataOnce'
    BY StepFacts, <2>5 DEF RbcTokenBack, LoopTest
  <2>. QED
    BY <1>3, <2>1, <2>2, <2>3, <2>4, <2>5
<1>4. CASE \/ \E c \in Conns :
                 HandleMessage(c) \/ TakeCall(c)
           \/ \E x \in Loops :
                 TakeToken(x) \/ PutBackToken(x) \/ ReadClosed(x)
                 \/ CloseSwap(x) \/ ClosePut(x) \/ CloseTake(x)
                 \/ CloseChan(x)
           \/ TakeDecision \/ SendZeroToIdleBba \/ PutRequest
           \/ \E m \in scenario.members :
                 RbcClose(m) \/ BbaTake(m) \/ BbaPush(m)
                 \/ AgreementSuccess(m)
  BY StepFacts, <1>4 DEF HandleMessage, TakeCall, TakeToken, PutBackToken,
     ReadClosed, CloseSwap, ClosePut, CloseTake, CloseChan, TakeDecision,
     SendZeroToIdleBba, PutRequest, RbcClose, BbaTake, BbaPush,
     AgreementSuccess, Served, LoopTest
<1>. QED
  BY StepFacts, <1>1, <1>2, <1>3, <1>4 DEF Next, AcsStep, RbcStep, BbaStep,
     TokenStep, CloseStep

\* The same of a decision.
LEMMA NextDecisionOnce == ASSUME IInv, Next PROVE DecisionOnce'
<1> USE LoopsAssumption DEF Loops, Goto, acsVars, rbcVars, bbaVars, closeVars,
   DecisionOnce, Shapes
<1>1. ASSUME TakeDecision PROVE DecisionOnce'
  <2>1. /\ binaryChan \in Seq(Members)
        /\ binaryChan # <<>>
        /\ IsInjective(binaryChan)
    BY StepFacts, <1>1 DEF TakeDecision, Shapes
  <2>2. \A k \in DOMAIN Tail(binaryChan) :
           \E j \in DOMAIN binaryChan : Tail(binaryChan)[k] = binaryChan[j]
    BY <2>1, TailOnce
  <2>. QED
    BY StepFacts, <1>1, <2>2 DEF TakeDecision, LoopTest
<1>2. ASSUME NEW m \in scenario.members, AgreementSuccess(m) PROVE DecisionOnce'
  <2>1. /\ binaryChan \in Seq(Members)
        /\ IsInjective(binaryChan)
        /\ m \in Members
        /\ \A k \in DOMAIN binaryChan : binaryChan[k] # m
    BY StepFacts, <1>2 DEF AgreementSuccess, Shapes
  <2>2. \A k \in DOMAIN Append(binaryChan, m) :
           \/ Append(binaryChan, m)[k] = m
           \/ \E j \in DOMAIN binaryChan : Append(binaryChan, m)[k] = binaryChan[j]
    BY <2>1, AppendOnce
  <2>3. /\ binaryChan' = Append(binaryChan, m)
        /\ decided' = decided \cup {m}
        /\ \A n \in Members :
              pc'[n] = "decide" => n # m /\ pc[n] = "decide"
    BY StepFacts, <1>2 DEF AgreementSuccess, LoopTest, Shapes
  <2>4. \A k \in DOMAIN binaryChan' : binaryChan'[k] \in decided'
    BY StepFacts, <2>2, <2>3
  <2>5. \A n \in Members :
           pc'[n] = "decide" => n \in scenario.members \ decided'
    BY StepFacts, <2>3
  <2>. QED
    BY StepFacts, <2>3, <2>4, <2>5
<1>3. ASSUME NEW m \in scenario.members, BbaTake(m) PROVE DecisionOnce'
  BY StepFacts, <1>3 DEF BbaTake, LoopTest
<1>4. ASSUME NEW m \in scenario.members, BbaPush(m) PROVE DecisionOnce'
  BY StepFacts, <1>4 DEF BbaPush, LoopTest
<1>5. ASSUME NEW x \in Loops, TakeToken(x) PROVE DecisionOnce'
  BY StepFacts, <1>5 DEF TakeToken
<1>6. ASSUME NEW x \in Loops, PutBackToken(x) PROVE DecisionOnce'
  BY StepFacts, <1>6 DEF PutBackToken, LoopTest
<1>7. ASSUME NEW c \in Conns, TakeCall(c) PROVE DecisionOnce'
  BY StepFacts, <1>7 DEF TakeCall
<1>8. ASSUME TakeData PROVE DecisionOnce'
  BY StepFacts, <1>8 DEF TakeData
<1>9. ASSUME SendZeroToIdleBba PROVE DecisionOnce'
  BY StepFacts, <1>9 DEF SendZeroToIdleBba, LoopTest
<1>10. ASSUME PutRequest PROVE DecisionOnce'
  BY StepFacts, <1>10 DEF PutRequest, Served, LoopTest
<1>11. ASSUME NEW m \in scenario.members, RbcTake(m) PROVE DecisionOnce'
  BY StepFacts, <1>11 DEF RbcTake
<1>12. ASSUME NEW m \in scenario.members, RbcReply(m) PROVE DecisionOnce'
  BY StepFacts, <1>12 DEF RbcReply, Served, LoopTest
<1>13. CASE \/ \E c \in Conns :
                  HandleMessage(c)
            \/ \E x \in Loops :
                  ReadClosed(x) \/ CloseSwap(x) \/ ClosePut(x)
                  \/ CloseTake(x) \/ CloseChan(x)
            \/ \E m \in scenario.members :
                  DecodeSuccess(m) \/ RbcDeliver(m) \/ RbcToken(m)
                  \/ RbcTokenBack(m) \/ RbcClose(m)
  BY StepFacts, <1>13 DEF HandleMessage, ReadClosed, CloseSwap, ClosePut,
     CloseTake, CloseChan, DecodeSuccess, RbcDeliver, RbcToken, RbcTokenBack,
     RbcClose
<1>. QED
  BY StepFacts, <1>1, <1>2, <1>3, <1>4, <1>5, <1>6, <1>7, <1>8, <1>9, <1>10,
     <1>11,
     <1>12, <1>13 DEF Next, AcsStep, RbcStep, BbaStep, TokenStep, CloseStep

\* Whoever holds the token holds it after Close has begun, and ends.
LEMMA NextTokenLate == ASSUME IInv, Next PROVE TokenLate'
<1> USE LoopsAssumption DEF Loops, Goto, acsVars, rbcVars, bbaVars, closeVars,
   TokenLate, Stopped, Shapes
<1>1. ASSUME NEW x \in Loops, TakeToken(x) PROVE TokenLate'
  BY StepFacts, <1>1 DEF TakeToken
<1>2. ASSUME NEW x \in Loops, PutBackToken(x) PROVE TokenLate'
  BY StepFacts, <1>2 DEF PutBackToken, LoopTest
<1>3. ASSUME NEW x \in Loops, ReadClosed(x) PROVE TokenLate'
  BY StepFacts, <1>3 DEF ReadClosed
<1>4. ASSUME NEW x \in Loops, CloseSwap(x) PROVE TokenLate'
  BY StepFacts, <1>4 DEF CloseSwap
<1>5. ASSUME NEW x \in Loops, ClosePut(x) PROVE TokenLate'
  BY StepFacts, <1>5 DEF ClosePut
<1>6. ASSUME NEW x \in Loops, CloseTake(x) PROVE TokenLate'
  BY StepFacts, <1>6 DEF CloseTake
<1>7. ASSUME NEW x \in Loops, CloseChan(x) PROVE TokenLate'
  BY StepFacts, <1>7 DEF CloseChan
<1>8. ASSUME NEW m \in scenario.members, RbcReply(m) PROVE TokenLate'
  <2>1. pc[ACS] = "rbcWait"
    BY StepFacts, <1>8 DEF RbcReply, Waits, Busy
  <2>. QED
    BY StepFacts, <1>8, <2>1 DEF RbcReply, Served, LoopTest
<1>9. ASSUME NEW m \in scenario.members, BbaTake(m) PROVE TokenLate'
  <2>1. /\ reqs' \in [Members -> 0 .. ReqSize]
        /\ pushes' \in [Members -> 0 .. PushMax]
        /\ \A n \in Members \ {m} : pushes'[n] = pushes[n]
        /\ m \in Members
        /\ pc[m] = "select"
    BY StepFacts, <1>9, BbaTakeEffect
  <2>2. PICK label \in {"select", "ended", "decide", "push"} :
           /\ pc' = [pc EXCEPT ![m] = label]
           /\ label = "push" => pushes'[m] > 0
    BY StepFacts, <1>9, BbaTakeEffect
  <2>. QED
    BY StepFacts, <1>9, <2>1, <2>2 DEF BbaTake
<1>10. ASSUME NEW m \in scenario.members, BbaPush(m) PROVE TokenLate'
  BY StepFacts, <1>10 DEF BbaPush, LoopTest
<1>11. ASSUME NEW m \in scenario.members, AgreementSuccess(m) PROVE TokenLate'
  BY StepFacts, <1>11 DEF AgreementSuccess, LoopTest
<1>12. ASSUME NEW c \in Conns, TakeCall(c) PROVE TokenLate'
  BY StepFacts, <1>12 DEF TakeCall
<1>13. ASSUME TakeData PROVE TokenLate'
  BY StepFacts, <1>13 DEF TakeData
<1>14. ASSUME TakeDecision PROVE TokenLate'
  BY StepFacts, <1>14 DEF TakeDecision, LoopTest
<1>15. ASSUME NEW m \in scenario.members, RbcTake(m) PROVE TokenLate'
  BY StepFacts, <1>15 DEF RbcTake
<1>16. ASSUME SendZeroToIdleBba PROVE TokenLate'
  BY StepFacts, <1>16 DEF SendZeroToIdleBba, LoopTest
<1>17. ASSUME PutRequest PROVE TokenLate'
  BY StepFacts, <1>17 DEF PutRequest, Served, LoopTest
<1>18. CASE \/ \E c \in Conns :
                  HandleMessage(c)
            \/ \E m \in scenario.members :
                  DecodeSuccess(m) \/ RbcDeliver(m) \/ RbcToken(m)
                  \/ RbcTokenBack(m) \/ RbcClose(m)
  BY StepFacts, <1>18 DEF HandleMessage, DecodeSuccess, RbcDeliver, RbcToken,
     RbcTokenBack, RbcClose
<1>. QED
  BY StepFacts, <1>1, <1>2, <1>3, <1>4, <1>5, <1>6, <1>7, <1>8, <1>9, <1>10,
     <1>11,
     <1>12, <1>13, <1>14, <1>15, <1>16, <1>17, <1>18 DEF Next, AcsStep,
     RbcStep, BbaStep, TokenStep, CloseStep

\* A loop that meets a closed channel is at its select or at a push: it has not ended.
LEMMA NextPanicCause == ASSUME IInv, Next PROVE PanicCause'
<1> USE LoopsAssumption DEF Loops, Goto, acsVars, rbcVars, bbaVars, closeVars,
   PanicCause, TokenLate, Shapes
<1>1. ASSUME NEW x \in Loops, PutBackToken(x) PROVE PanicCause'
  <2>1. panic' = None /\ \A y \in Loops : <<"run", y>> # None
    BY StepFacts, <1>1 DEF PutBackToken
  <2>. QED
    BY <2>1
<1>2. CASE \/ \E x \in Loops :
                 ReadClosed(x)
           \/ \E m \in scenario.members :
                 BbaPush(m)
  BY StepFacts, <1>2 DEF ReadClosed, BbaPush, LoopTest
<1>3. ASSUME PutRequest PROVE PanicCause'
  BY StepFacts, <1>3 DEF PutRequest, Served, LoopTest
<1>4. CASE \/ \E c \in Conns :
                 HandleMessage(c) \/ TakeCall(c)
           \/ \E x \in Loops :
                 TakeToken(x) \/ CloseSwap(x) \/ ClosePut(x)
                 \/ CloseTake(x) \/ CloseChan(x)
           \/ TakeData \/ TakeDecision \/ SendZeroToIdleBba
           \/ \E m \in scenario.members :
                 RbcTake(m) \/ DecodeSuccess(m) \/ RbcDeliver(m)
                 \/ RbcReply(m) \/ RbcToken(m) \/ RbcTokenBack(m)
                 \/ RbcClose(m) \/ BbaTake(m) \/ AgreementSuccess(m)
  BY StepFacts, <1>4 DEF HandleMessage, TakeCall, TakeToken, CloseSwap,
     ClosePut, CloseTake, CloseChan, TakeData, TakeDecision, SendZeroToIdleBba,
     RbcTake, DecodeSuccess, RbcDeliver, RbcReply, RbcToken, RbcTokenBack,
     RbcClose, BbaTake, AgreementSuccess, Served, LoopTest
<1>. QED
  BY StepFacts, <1>1, <1>2, <1>3, <1>4 DEF Next, AcsStep, RbcStep, BbaStep,
     TokenStep, CloseStep

LEMMA NextIInv == IInv /\ [Next]_vars => IInv'
<1>1. ASSUME IInv, UNCHANGED vars PROVE IInv'
  BY <1>1 DEF vars, acsVars, rbcVars, bbaVars, closeVars, IInv, Shapes, Waits,
     Busy, DataOnce, DecisionOnce, TokenLate, PanicCause, Stopped
<1>2. ASSUME IInv, Next PROVE IInv'
  BY <1>2, NextShapes, NextWaits, NextDataOnce, NextDecisionOnce,
     NextTokenLate, NextPanicCause DEF Next, IInv
<1>. QED
  BY <1>1, <1>2

\* An RBC or a BBA at its delivery is not among those that wait on the channel, nor
\* among those that were there.
LEMMA IInvTypeOK == IInv => TypeOK
<1> SUFFICES ASSUME IInv PROVE TypeOK
  OBVIOUS
<1> USE Scenario DEF IInv, Shapes
<1>1. ASSUME NEW m \in Members, rbcPc[m] = "deliver"
      PROVE  Len(dataChan) < DataSize
  <2>1. /\ m \in scenario.members
        /\ \A k \in DOMAIN dataChan : dataChan[k] \in scenario.members \ {m}
    BY <1>1 DEF DataOnce
  <2>. QED
    BY <2>1, OnceRoom DEF DataSize
<1>2. ASSUME NEW m \in Members, pc[m] = "decide"
      PROVE  Len(binaryChan) < BinarySize
  <2>1. /\ m \in scenario.members
        /\ \A k \in DOMAIN binaryChan : binaryChan[k] \in scenario.members \ {m}
    BY <1>2 DEF DecisionOnce
  <2>. QED
    BY <2>1, OnceRoom DEF BinarySize
<1>. QED
  BY <1>1, <1>2 DEF TypeOK, Room

LEMMA SpecIInv == Spec => []IInv
BY InitIInv, NextIInv, PTL DEF Spec

\* The channels have room for every delivery and every decision, however many
\* members and connections there are and whatever is closed: a node's loops never
\* wait for ACS.run (core.go: NewDataChannel, NewBinaryChannel).
THEOREM TypeCorrect == Spec => []TypeOK
BY SpecIInv, IInvTypeOK, PTL

\* A loop that Close has seen pass the token has ended, and never meets its closed
\* channel (bba.go:191, acs.go:154).
THEOREM PassedMeetsNoClosedChannel == Spec => []PanicCause
<1>1. IInv => PanicCause
  BY DEF IInv
<1>. QED
  BY SpecIInv, <1>1, PTL
=============================================================================
