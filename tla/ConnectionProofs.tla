-------------------------- MODULE ConnectionProofs --------------------------
(* Theorems about Connection.                                              *)
EXTENDS Connection, SequenceTheorems, TLAPS

(***************************************************************************)
(* The stop token has five places: stopChan, the hands of the two loops    *)
(* that pass it on, and the hands of the two that close.  It is nowhere    *)
(* before the flag is set, and in one place after that.                    *)
(***************************************************************************)
StopTypes ==
    /\ stopFlag \in {0, 1}
    /\ stopChan \in {0, 1}
    /\ DOMAIN closerPc = Closers

OnChan == stopChan = 1
AtWriter == writerPc = "putback"
AtMain == mainPc = "putback"
AtCloser(c) == closerPc[c] = "token"

NoToken ==
    ~OnChan /\ ~AtWriter /\ ~AtMain /\ \A c \in Closers : ~AtCloser(c)

OnePlace ==
    /\ OnChan => ~AtWriter /\ ~AtMain /\ \A c \in Closers : ~AtCloser(c)
    /\ AtWriter => ~AtMain /\ \A c \in Closers : ~AtCloser(c)
    /\ AtMain => \A c \in Closers : ~AtCloser(c)
    /\ \A c, d \in Closers : AtCloser(c) /\ AtCloser(d) => c = d

IInv ==
    /\ StopTypes
    /\ stopFlag = 0 => NoToken
    /\ OnePlace

\* Nothing is stopped at first.
LEMMA InitIInv == Init => IInv
  BY DEF Init, IInv, StopTypes, NoToken, OnePlace, OnChan, AtWriter, AtMain,
         AtCloser

\* Every step leaves the token in its place, or hands it on.
LEMMA NextIInv == IInv /\ [Next]_vars => IInv'
  <1> SUFFICES ASSUME IInv, [Next]_vars PROVE IInv'
    OBVIOUS
  <1> USE DEF IInv, StopTypes, NoToken, OnePlace, OnChan, AtWriter, AtMain,
              AtCloser
  <1>1. CASE \E g \in Senders : SendLock(g) \/ SendPut(g)
    BY <1>1 DEF SendLock, SendPut, inVars, stopVars
  <1>2. CASE WriterLoop \/ WriterTake \/ Write
    BY <1>2 DEF WriterLoop, WriterTake, Write, inVars, stopVars
  <1>3. CASE WriterStop
    BY <1>3 DEF WriterStop, inVars
  <1>4. CASE WriterPutBack
    BY <1>4 DEF WriterPutBack, StopSize, inVars
  <1>5. CASE Reader
    BY <1>5 DEF Reader, ReaderLoop, Recv, ReaderCheck, ReaderPut, outVars,
                stopVars
  <1>6. CASE MainLoop \/ MainServe \/ MainError
    BY <1>6 DEF MainLoop, MainServe, MainError, outVars, stopVars
  <1>7. CASE MainStop
    BY <1>7 DEF MainStop, outVars
  <1>8. CASE MainPutBack
    BY <1>8 DEF MainPutBack, StopSize, outVars
  <1>9. ASSUME NEW c \in Closers, CloseCheck(c) PROVE IInv'
    BY <1>9 DEF CloseCheck, outVars, inVars
  <1>10. ASSUME NEW c \in Closers, CloseSwap(c) PROVE IInv'
    BY <1>10 DEF CloseSwap, outVars, inVars
  <1>11. ASSUME NEW c \in Closers, ClosePut(c) PROVE IInv'
    BY <1>11 DEF ClosePut, StopSize, outVars, inVars
  <1>12. ASSUME NEW c \in Closers, CloseStream(c) PROVE IInv'
    BY <1>12 DEF CloseStream, outVars, inVars
  <1>13. CASE StreamBreaks
    BY <1>13 DEF StreamBreaks, outVars, inVars
  <1>14. CASE UNCHANGED vars
    BY <1>14 DEF vars, outVars, inVars, stopVars
  <1>15. QED
    BY <1>1, <1>2, <1>3, <1>4, <1>5, <1>6, <1>7, <1>8, <1>9, <1>10, <1>11,
       <1>12, <1>13, <1>14 DEF Next, Writer, Main, Close

\* One token in one place leaves room on the channel for whoever holds it.
LEMMA IInvRoom == IInv => TokenHasRoom
  BY DEF IInv, StopTypes, OnePlace, OnChan, AtWriter, AtMain, AtCloser,
         TokenHasRoom, StopSize

\* Whoever puts the stop token on stopChan, in Close or to pass it on, finds
\* room, however many send and whatever the capacities (conn.go:97, 114, 155).
THEOREM TokenNeverBlocks == Spec => []TokenHasRoom
  <1>1. Init => IInv
    BY InitIInv
  <1>2. IInv /\ [Next]_vars => IInv'
    BY NextIInv
  <1>3. IInv => TokenHasRoom
    BY IInvRoom
  <1>4. QED
    BY <1>1, <1>2, <1>3, PTL DEF Spec

-----------------------------------------------------------------------------
(* Types and capacities.                                                   *)

\* What the reader holds has been received.
TypeInv ==
    /\ TypeOK
    /\ readerPc \in {"message", "put"} => received \in 1 .. Incoming

\* The same by what a step touches: the way out, the way in, and the stop.
OutTypes ==
    /\ sent \in [Senders -> Nat]
    /\ mutex \in Senders \cup {NoOne}
    /\ outChan \in Seq(Sent) /\ Len(outChan) <= OutSize
    /\ inHand \in Seq(Sent)
    /\ wire \in Seq(Sent)
    /\ writerPc \in {"loop", "select", "write", "putback", "ended"}

InTypes ==
    /\ received \in 0 .. Incoming
    /\ readChan \in Seq(1 .. Incoming) /\ Len(readChan) <= ReadSize
    /\ readerPc \in {"loop", "recv", "message", "error", "put", "ended"}
    /\ readerPc \in {"message", "put"} => received \in 1 .. Incoming
    /\ errChan \in 0 .. ErrSize
    /\ served \in Seq(1 .. Incoming)
    /\ mainPc \in {"loop", "select", "putback", "ended", "failed"}

CloseTypes ==
    /\ stopFlag \in {0, 1}
    /\ stopChan \in 0 .. StopSize
    /\ closerPc \in [Closers -> {"idle", "swap", "token", "lock", "done"}]
    /\ streamUp \in BOOLEAN

\* The three parts are the whole.
LEMMA TypeParts == TypeInv <=> OutTypes /\ InTypes /\ CloseTypes
  BY DEF TypeInv, TypeOK, OutTypes, InTypes, CloseTypes

\* The channels are empty and the goroutines at their loops.
LEMMA InitTypeInv == Init => TypeInv
  BY ConnectionAssumption DEF Init, TypeInv, TypeOK, Sent, Closers, StopSize,
     ErrSize

\* Every step keeps the types and the capacities.
LEMMA NextTypeInv == TypeInv /\ [Next]_vars => TypeInv'
  <1> SUFFICES ASSUME TypeInv, [Next]_vars
               PROVE  OutTypes' /\ InTypes' /\ CloseTypes'
    BY TypeParts, PTL
  <1>0. OutTypes /\ InTypes /\ CloseTypes
    BY TypeParts
  <1>a. UNCHANGED outVars => OutTypes'
    BY <1>0 DEF outVars, OutTypes
  <1>b. UNCHANGED inVars => InTypes'
    BY <1>0 DEF inVars, InTypes
  <1>c. UNCHANGED stopVars => CloseTypes'
    BY <1>0 DEF stopVars, CloseTypes
  <1> USE ConnectionAssumption
  <1>1. ASSUME NEW g \in Senders, SendLock(g)
        PROVE  OutTypes' /\ InTypes' /\ CloseTypes'
    <2>1. OutTypes'
      BY <1>0, <1>1 DEF SendLock, OutTypes
    <2>. QED
      BY <1>1, <1>b, <1>c, <2>1 DEF SendLock
  <1>2. ASSUME NEW g \in Senders, SendPut(g)
        PROVE  OutTypes' /\ InTypes' /\ CloseTypes'
    <2>1. [src |-> g, num |-> sent[g] + 1] \in Sent
      BY <1>0 DEF OutTypes, Sent
    <2>2. OutTypes'
      BY <1>0, <1>2, <2>1 DEF SendPut, OutTypes
    <2>. QED
      BY <1>2, <1>b, <1>c, <2>2 DEF SendPut
  <1>3. CASE WriterLoop
    <2>1. OutTypes'
      BY <1>0, <1>3 DEF WriterLoop, OutTypes
    <2>. QED
      BY <1>3, <1>b, <1>c, <2>1 DEF WriterLoop
  <1>4. CASE WriterTake
    <2>1. OutTypes'
      BY <1>0, <1>4 DEF WriterTake, OutTypes
    <2>. QED
      BY <1>4, <1>b, <1>c, <2>1 DEF WriterTake
  <1>5. CASE Write
    <2>1. OutTypes'
      BY <1>0, <1>5 DEF Write, OutTypes
    <2>. QED
      BY <1>5, <1>b, <1>c, <2>1 DEF Write
  <1>6. CASE WriterStop \/ WriterPutBack
    <2>1. OutTypes'
      BY <1>0, <1>6 DEF WriterStop, WriterPutBack, OutTypes
    <2>2. CloseTypes'
      BY <1>0, <1>6 DEF WriterStop, WriterPutBack, CloseTypes, StopSize
    <2>. QED
      BY <1>6, <1>b, <2>1, <2>2 DEF WriterStop, WriterPutBack
  <1>7. CASE Reader
    <2>1. InTypes'
      <3>1. CASE ReaderLoop
        BY <1>0, <3>1 DEF ReaderLoop, InTypes
      <3>2. CASE Recv
        BY <1>0, <3>2 DEF Recv, InTypes
      <3>3. CASE ReaderCheck
        BY <1>0, <3>3 DEF ReaderCheck, InTypes, ErrSize
      <3>4. CASE ReaderPut
        BY <1>0, <3>4 DEF ReaderPut, InTypes
      <3>. QED
        BY <1>7, <3>1, <3>2, <3>3, <3>4 DEF Reader
    <2>. QED
      BY <1>7, <1>a, <1>c, <2>1 DEF Reader, ReaderLoop, Recv, ReaderCheck,
         ReaderPut
  <1>8. CASE MainLoop \/ MainError
    <2>1. InTypes'
      BY <1>0, <1>8 DEF MainLoop, MainError, InTypes, ErrSize
    <2>. QED
      BY <1>8, <1>a, <1>c, <2>1 DEF MainLoop, MainError
  <1>9. CASE MainServe
    <2>1. readChan \in Seq(1 .. Incoming) /\ readChan # <<>>
      BY <1>0, <1>9 DEF MainServe, InTypes
    <2>2. /\ Head(readChan) \in 1 .. Incoming
          /\ Tail(readChan) \in Seq(1 .. Incoming)
          /\ Len(Tail(readChan)) = Len(readChan) - 1
      BY <2>1, HeadTailProperties
    <2>3. served' \in Seq(1 .. Incoming)
      BY <1>0, <1>9, <2>2 DEF MainServe, InTypes
    <2>4. InTypes'
      BY <1>0, <1>9, <2>2, <2>3 DEF MainServe, InTypes
    <2>. QED
      BY <1>9, <1>a, <1>c, <2>4 DEF MainServe
  <1>10. CASE MainStop \/ MainPutBack
    <2>1. InTypes'
      BY <1>0, <1>10 DEF MainStop, MainPutBack, InTypes
    <2>2. CloseTypes'
      BY <1>0, <1>10 DEF MainStop, MainPutBack, CloseTypes, StopSize
    <2>. QED
      BY <1>10, <1>a, <2>1, <2>2 DEF MainStop, MainPutBack
  <1>11. ASSUME NEW c \in Closers, Close(c)
         PROVE  OutTypes' /\ InTypes' /\ CloseTypes'
    <2>1. CloseTypes'
      <3>1. CASE CloseCheck(c)
        BY <1>0, <3>1 DEF CloseCheck, CloseTypes
      <3>2. CASE CloseSwap(c)
        BY <1>0, <3>2 DEF CloseSwap, CloseTypes
      <3>3. CASE ClosePut(c)
        BY <1>0, <3>3 DEF ClosePut, CloseTypes, StopSize
      <3>4. CASE CloseStream(c)
        BY <1>0, <3>4 DEF CloseStream, CloseTypes
      <3>. QED
        BY <1>11, <3>1, <3>2, <3>3, <3>4 DEF Close
    <2>. QED
      BY <1>11, <1>a, <1>b, <2>1 DEF Close, CloseCheck, CloseSwap, ClosePut,
         CloseStream
  <1>12. CASE StreamBreaks
    <2>1. CloseTypes'
      BY <1>0, <1>12 DEF StreamBreaks, CloseTypes
    <2>. QED
      BY <1>12, <1>a, <1>b, <2>1 DEF StreamBreaks
  <1>13. CASE UNCHANGED vars
    BY <1>13, <1>a, <1>b, <1>c DEF vars
  <1>14. QED
    BY <1>1, <1>2, <1>3, <1>4, <1>5, <1>6, <1>7, <1>8, <1>9, <1>10, <1>11,
       <1>12, <1>13 DEF Next, Writer, Main

\* The types hold, and no channel is ever filled beyond its capacity
\* (NewConnection, conn.go:52).
THEOREM CapacitiesKept == Spec => []TypeOK
  <1>1. Init => TypeInv
    BY InitTypeInv
  <1>2. TypeInv /\ [Next]_vars => TypeInv'
    BY NextTypeInv
  <1>3. TypeInv => TypeOK
    BY DEF TypeInv
  <1>4. QED
    BY <1>1, <1>2, <1>3, PTL DEF Spec

-----------------------------------------------------------------------------
(* Nothing is lost or overtaken.  Outwards a message moves from outChan to *)
(* the writer's hand and on to the wire, which leaves InTransit as it is,  *)
(* because the hand is empty whenever the writer takes the next one.       *)

HandInv == writerPc # "write" => inHand = <<>>

\* A sender's next message goes behind all others.
LEMMA PutInOrder ==
    ASSUME NEW num \in [Senders -> Nat], NEW q \in Seq(Sent),
           AllInOrder(q, num), NEW g \in Senders
    PROVE  AllInOrder(Append(q, [src |-> g, num |-> num[g] + 1]),
                      [num EXCEPT ![g] = @ + 1])
  <1> DEFINE e == [src |-> g, num |-> num[g] + 1]
             r == Append(q, e)
             after == [num EXCEPT ![g] = @ + 1]
  <1>1. /\ Len(q) \in Nat
        /\ DOMAIN q = 1 .. Len(q)
        /\ DOMAIN r = 1 .. Len(q) + 1
        /\ \A p \in 1 .. Len(q) : r[p] = q[p] /\ q[p] \in Sent
        /\ r[Len(q) + 1] = e
    <2>1. num[g] + 1 \in Nat
      OBVIOUS
    <2>2. e \in Sent
      BY <2>1 DEF Sent
    <2>3. /\ Len(q) \in Nat
          /\ DOMAIN q = 1 .. Len(q)
          /\ \A p \in 1 .. Len(q) : q[p] \in Sent
      BY LenProperties, ElementOfSeq
    <2>4. /\ r \in Seq(Sent)
          /\ Len(r) = Len(q) + 1
          /\ \A p \in 1 .. Len(q) : r[p] = q[p]
          /\ r[Len(q) + 1] = e
      BY <2>2, AppendProperties
    <2>5. DOMAIN r = 1 .. Len(q) + 1
      BY <2>4, LenProperties
    <2>6. QED
      BY <2>3, <2>4, <2>5
  <1>2. /\ after[g] = num[g] + 1
        /\ \A h \in Senders : h # g => after[h] = num[h]
        /\ \A h \in Senders :
              num[h] \in Nat /\ after[h] \in Nat /\ after[h] >= num[h]
    OBVIOUS
  <1> HIDE DEF r, after
  <1>3. ASSUME NEW h \in Senders, NEW k \in 1 .. after[h]
        PROVE  \E p \in DOMAIN r : r[p] = [src |-> h, num |-> k]
    <2>1. CASE k \in 1 .. num[h]
      <3>1. PICK p \in DOMAIN q : q[p] = [src |-> h, num |-> k]
        BY <2>1 DEF AllInOrder
      <3>2. p \in DOMAIN r /\ r[p] = q[p]
        BY <1>1, <3>1
      <3>3. QED
        BY <3>1, <3>2
    <2>2. CASE k \notin 1 .. num[h]
      <3>1. h = g /\ k = num[g] + 1
        BY <1>2, <1>3, <2>2
      <3>2. QED
        BY <1>1, <3>1
    <2>3. QED
      BY <2>1, <2>2
  <1>4. ASSUME NEW p \in DOMAIN r
        PROVE  r[p].num \in 1 .. after[r[p].src]
    <2>1. CASE p \in 1 .. Len(q)
      <3>1. q[p].num \in 1 .. num[q[p].src] /\ q[p].src \in Senders
        BY <1>1, <2>1 DEF AllInOrder, Sent
      <3>2. QED
        BY <1>1, <1>2, <2>1, <3>1
    <2>2. CASE p = Len(q) + 1
      BY <1>1, <1>2, <2>2
    <2>3. QED
      BY <1>1, <2>1, <2>2
  <1>5. ASSUME NEW p \in DOMAIN r, NEW s \in DOMAIN r, p < s,
               r[p].src = r[s].src
        PROVE  r[p].num < r[s].num
    <2>1. p \in 1 .. Len(q)
      BY <1>1, <1>5
    <2>2. q[p].num \in 1 .. num[q[p].src] /\ q[p].src \in Senders
      BY <1>1, <2>1 DEF AllInOrder, Sent
    <2>3. CASE s \in 1 .. Len(q)
      BY <1>1, <1>5, <2>1, <2>3 DEF AllInOrder
    <2>4. CASE s = Len(q) + 1
      BY <1>1, <1>2, <1>5, <2>1, <2>2, <2>4
    <2>5. QED
      BY <1>1, <2>3, <2>4
  <1>6. AllInOrder(r, after)
    BY <1>3, <1>4, <1>5 DEF AllInOrder
  <1>7. QED
    BY <1>6 DEF r, after

\* The front of one queue goes to the end of the one before it.
LEMMA HandOver ==
    ASSUME NEW S, NEW a \in Seq(S), NEW b \in Seq(S), b # <<>>
    PROVE  /\ Append(a, Head(b)) \o Tail(b) = a \o b
           /\ a \o <<Head(b)>> \o Tail(b) = a \o b
  <1>1. /\ Head(b) \in S /\ Tail(b) \in Seq(S)
        /\ Len(Tail(b)) = Len(b) - 1
        /\ \A i \in 1 .. Len(Tail(b)) : Tail(b)[i] = b[i + 1]
        /\ Len(b) \in Nat \ {0} /\ Len(a) \in Nat /\ Head(b) = b[1]
    BY HeadTailProperties, EmptySeq, LenProperties
  <1>2. /\ a \o <<Head(b)>> = Append(a, Head(b))
        /\ Append(a, Head(b)) \in Seq(S)
        /\ Len(Append(a, Head(b))) = Len(a) + 1
        /\ \A i \in 1 .. Len(a) : Append(a, Head(b))[i] = a[i]
        /\ Append(a, Head(b))[Len(a) + 1] = Head(b)
    BY <1>1
  <1> DEFINE c == Append(a, Head(b)) t == Tail(b)
  <1> HIDE DEF c, t
  <1>3. /\ c \o t \in Seq(S) /\ a \o b \in Seq(S)
        /\ Len(c \o t) = Len(c) + Len(t) /\ Len(a \o b) = Len(a) + Len(b)
        /\ \A i \in 1 .. Len(c) + Len(t) :
              (c \o t)[i] = IF i <= Len(c) THEN c[i] ELSE t[i - Len(c)]
        /\ \A i \in 1 .. Len(a) + Len(b) :
              (a \o b)[i] = IF i <= Len(a) THEN a[i] ELSE b[i - Len(a)]
    BY <1>1, <1>2, ConcatProperties DEF c, t
  <1>4. Len(c \o t) = Len(a \o b) /\ Len(c \o t) \in Nat
    BY <1>1, <1>2, <1>3 DEF c, t
  <1>5. ASSUME NEW i \in 1 .. Len(c \o t)
        PROVE  (c \o t)[i] = (a \o b)[i]
    <2>1. i <= Len(a) \/ i = Len(a) + 1 \/ i > Len(a) + 1
      <3>1. i \in Nat /\ Len(a) \in Nat
        BY <1>1, <1>4
      <3>2. QED
        BY <3>1
    <2>2. CASE i <= Len(a)
      BY <1>1, <1>2, <1>3, <2>2 DEF c, t
    <2>3. CASE i = Len(a) + 1
      BY <1>1, <1>2, <1>3, <2>3 DEF c, t
    <2>4. CASE i > Len(a) + 1
      BY <1>1, <1>2, <1>3, <2>4 DEF c, t
    <2>5. QED
      BY <2>1, <2>2, <2>3, <2>4
  <1>6. c \o t = a \o b
    BY <1>3, <1>5, <1>4, SeqEqual
  <1>7. QED
    BY <1>2, <1>6 DEF c, t

\* Putting something at the end of the last part puts it at the end of all.
LEMMA AppendLast ==
    ASSUME NEW S, NEW a \in Seq(S), NEW b \in Seq(S), NEW e \in S
    PROVE  a \o Append(b, e) = Append(a \o b, e)
  <1>1. <<e>> \in Seq(S)
    OBVIOUS
  <1>2. Append(b, e) = b \o <<e>>
    BY AppendIsConcat
  <1>3. Append(a \o b, e) = (a \o b) \o <<e>>
    <2>1. a \o b \in Seq(S)
      BY ConcatProperties
    <2>2. QED
      BY <2>1, AppendIsConcat
  <1>4. QED
    BY <1>1, <1>2, <1>3, ConcatAssociative

OutInv ==
    /\ HandInv
    /\ streamUp => AllInOrder(InTransit, sent)

\* Send, the writer and whatever breaks the stream keep the order outwards.
LEMMA NextOutInv == TypeInv /\ OutInv /\ [Next]_vars => OutInv'
  <1> SUFFICES ASSUME TypeInv, OutInv, [Next]_vars PROVE OutInv'
    OBVIOUS
  <1>1. /\ wire \in Seq(Sent) /\ inHand \in Seq(Sent) /\ outChan \in Seq(Sent)
        /\ wire \o inHand \in Seq(Sent)
        /\ InTransit \in Seq(Sent)
        /\ sent \in [Senders -> Nat]
    BY ConcatProperties DEF TypeInv, TypeOK, InTransit
  <1>2. ASSUME UNCHANGED <<wire, inHand, outChan, sent, streamUp>>,
               writerPc' # "write" => writerPc # "write"
        PROVE  OutInv'
    BY <1>2 DEF OutInv, HandInv, InTransit
  <1>3. ASSUME NEW g \in Senders, SendLock(g) PROVE OutInv'
    BY <1>2, <1>3 DEF SendLock, stopVars
  <1>4. ASSUME NEW g \in Senders, SendPut(g) PROVE OutInv'
    <2> DEFINE e == [src |-> g, num |-> sent[g] + 1]
    <2>1. e \in Sent
      BY <1>1 DEF Sent
    <2>2. InTransit' = Append(InTransit, e)
      <3> DEFINE w == wire \o inHand
      <3>1. w \in Seq(Sent) /\ outChan \in Seq(Sent)
        BY <1>1
      <3>2. /\ outChan' = Append(outChan, e)
            /\ w' = w
        BY <1>4 DEF SendPut
      <3> HIDE DEF e, w
      <3>3. w \o Append(outChan, e) = Append(w \o outChan, e)
        BY <2>1, <3>1, AppendLast
      <3>. QED
        BY <3>2, <3>3 DEF InTransit, w
    <2>3. /\ sent' = [sent EXCEPT ![g] = @ + 1]
          /\ UNCHANGED <<streamUp, writerPc, inHand>>
      BY <1>4 DEF SendPut, stopVars
    <2>4. streamUp => AllInOrder(InTransit', sent')
      BY <1>1, <2>2, <2>3, PutInOrder DEF OutInv
    <2>5. QED
      BY <2>3, <2>4 DEF OutInv, HandInv
  <1>5. CASE WriterLoop
    BY <1>2, <1>5 DEF WriterLoop, stopVars
  <1>6. CASE WriterTake
    <2>1. inHand = <<>>
      BY <1>6 DEF WriterTake, OutInv, HandInv
    <2>2. wire \o inHand = wire
      BY <1>1, <2>1, ConcatEmptySeq
    <2>3. wire \o <<Head(outChan)>> \o Tail(outChan) = wire \o outChan
      BY <1>1, <1>6, HandOver DEF WriterTake
    <2>4. InTransit' = InTransit
      BY <1>6, <2>2, <2>3 DEF WriterTake, InTransit
    <2>5. QED
      BY <1>6, <2>4 DEF WriterTake, OutInv, HandInv, stopVars
  <1>7. CASE Write
    <2>1. streamUp => InTransit' = InTransit
      BY <1>1, <1>7, ConcatEmptySeq DEF Write, InTransit
    <2>2. QED
      BY <1>7, <2>1 DEF Write, OutInv, HandInv, stopVars
  <1>8. CASE WriterStop \/ WriterPutBack
    BY <1>2, <1>8 DEF WriterStop, WriterPutBack
  <1>9. CASE Reader
    BY <1>2, <1>9 DEF Reader, ReaderLoop, Recv, ReaderCheck, ReaderPut, outVars,
                      stopVars
  <1>10. CASE Main
    BY <1>2, <1>10 DEF Main, MainLoop, MainServe, MainError, MainStop,
                       MainPutBack, outVars, stopVars
  <1>11. ASSUME NEW c \in Closers, Close(c) PROVE OutInv'
    <2>1. CASE CloseCheck(c) \/ CloseSwap(c) \/ ClosePut(c)
      BY <1>2, <2>1 DEF CloseCheck, CloseSwap, ClosePut, outVars
    <2>2. CASE CloseStream(c)
      BY <2>2 DEF CloseStream, outVars, OutInv, HandInv
    <2>3. QED
      BY <1>11, <2>1, <2>2 DEF Close
  <1>12. CASE StreamBreaks
    BY <1>12 DEF StreamBreaks, outVars, OutInv, HandInv
  <1>13. CASE UNCHANGED vars
    BY <1>2, <1>13 DEF vars, outVars, stopVars
  <1>14. QED
    BY <1>3, <1>4, <1>5, <1>6, <1>7, <1>8, <1>9, <1>10, <1>11, <1>12, <1>13
       DEF Next, Writer

-----------------------------------------------------------------------------
(* Inwards a message moves from the reader's hand to readChan and on to    *)
(* the handler.                                                            *)

Numbers(n) == [k \in 1 .. n |-> k]

InInv == stopFlag = 0 => served \o readChan \o InReader = Numbers(received)

\* One more is received.
LEMMA NumbersGrow ==
    ASSUME NEW n \in Nat
    PROVE  Numbers(n) \o <<n + 1>> = Numbers(n + 1)
  <1>1. /\ Numbers(n) \in Seq(Nat) /\ Len(Numbers(n)) = n
        /\ Numbers(n + 1) \in Seq(Nat) /\ Len(Numbers(n + 1)) = n + 1
        /\ <<n + 1>> \in Seq(Nat) /\ Len(<<n + 1>>) = 1
        /\ <<n + 1>>[1] = n + 1
    BY DEF Numbers
  <1>2. /\ Numbers(n) \o <<n + 1>> \in Seq(Nat)
        /\ Len(Numbers(n) \o <<n + 1>>) = n + 1
        /\ \A i \in 1 .. n + 1 :
              (Numbers(n) \o <<n + 1>>)[i] =
                  IF i <= n THEN Numbers(n)[i] ELSE <<n + 1>>[i - n]
    BY <1>1, ConcatProperties
  <1>3. \A i \in 1 .. n + 1 : (Numbers(n) \o <<n + 1>>)[i] = Numbers(n + 1)[i]
    BY <1>1, <1>2 DEF Numbers
  <1>4. QED
    BY <1>1, <1>2, <1>3, SeqEqual

\* The reader and the loop keep the order inwards, until Close.
LEMMA NextInInv == TypeInv /\ InInv /\ [Next]_vars => InInv'
  <1> SUFFICES ASSUME TypeInv, InInv, [Next]_vars, stopFlag' = 0
               PROVE  (served \o readChan \o InReader)' = Numbers(received')
    BY DEF InInv
  <1>1. /\ served \in Seq(1 .. Incoming) /\ readChan \in Seq(1 .. Incoming)
        /\ served \o readChan \in Seq(1 .. Incoming)
        /\ received \in Nat
    BY ConcatProperties, ConnectionAssumption DEF TypeInv, TypeOK
  <1>2. ASSUME UNCHANGED <<served, readChan, InReader, received, stopFlag>>
        PROVE  (served \o readChan \o InReader)' = Numbers(received')
    BY <1>2 DEF InInv
  <1>3. ASSUME \/ \E g \in Senders : SendLock(g) \/ SendPut(g)
               \/ Writer
        PROVE  (served \o readChan \o InReader)' = Numbers(received')
    BY <1>2, <1>3 DEF SendLock, SendPut, Writer, WriterLoop, WriterTake, Write,
                      WriterStop, WriterPutBack, inVars, stopVars, InReader
  <1>4. CASE ReaderLoop
    BY <1>2, <1>4 DEF ReaderLoop, InReader, stopVars
  <1>5. CASE Recv
    <2>1. /\ stopFlag = 0 /\ readerPc = "recv"
          /\ UNCHANGED <<served, readChan>>
      BY <1>5 DEF Recv, stopVars
    <2>2. served \o readChan = Numbers(received)
      BY <1>1, <2>1, ConcatEmptySeq DEF InInv, InReader
    <2>3. CASE received' = received + 1 /\ readerPc' = "message"
      BY <1>1, <2>1, <2>2, <2>3, NumbersGrow DEF InReader
    <2>4. CASE readerPc' = "error" /\ UNCHANGED received
      BY <1>1, <2>1, <2>2, <2>4, ConcatEmptySeq DEF InReader
    <2>5. QED
      BY <1>5, <2>3, <2>4 DEF Recv
  <1>6. CASE ReaderCheck
    BY <1>2, <1>6 DEF ReaderCheck, InReader, stopVars
  <1>7. CASE ReaderPut
    <2>1. /\ stopFlag = 0 /\ readerPc = "put" /\ readerPc' = "loop"
          /\ readChan' = Append(readChan, received)
          /\ UNCHANGED <<served, received>>
          /\ received \in 1 .. Incoming
      BY <1>7 DEF ReaderPut, stopVars, TypeInv
    <2>2. /\ readChan' \in Seq(1 .. Incoming)
          /\ served \o readChan' \in Seq(1 .. Incoming)
      BY <1>1, <2>1, AppendProperties, ConcatProperties
    <2>3. served \o readChan' = (served \o readChan) \o <<received>>
      BY <1>1, <2>1, AppendLast, AppendIsConcat
    <2>4. QED
      BY <2>1, <2>2, <2>3, ConcatEmptySeq DEF InInv, InReader
  <1>8. CASE MainServe
    <2>1. served' \o readChan' = served \o readChan
      BY <1>1, <1>8, HandOver DEF MainServe
    <2>2. UNCHANGED <<received, readerPc, stopFlag>>
      BY <1>8 DEF MainServe, stopVars
    <2>3. QED
      BY <2>1, <2>2 DEF InInv, InReader
  <1>9. CASE MainLoop \/ MainError \/ MainStop \/ MainPutBack
    BY <1>2, <1>9 DEF MainLoop, MainError, MainStop, MainPutBack, InReader,
                      stopVars
  <1>10. ASSUME NEW c \in Closers, Close(c)
         PROVE  (served \o readChan \o InReader)' = Numbers(received')
    BY <1>2, <1>10 DEF Close, CloseCheck, CloseSwap, ClosePut, CloseStream,
                       inVars, InReader
  <1>11. CASE StreamBreaks \/ UNCHANGED vars
    BY <1>2, <1>11 DEF StreamBreaks, vars, inVars, stopVars, InReader
  <1>12. QED
    BY <1>3, <1>4, <1>5, <1>6, <1>7, <1>8, <1>9, <1>10, <1>11
       DEF Next, Reader, Main

\* While the stream is up nothing that was sent is lost or overtaken, and until
\* Close nothing that was received, for any number of senders and messages and
\* any capacities (writeStream, readStream, Start).
THEOREM OrderKept == Spec => []NoGap
  <1> DEFINE Inv == TypeInv /\ OutInv /\ InInv
  <1>1. Init => Inv
    <2> SUFFICES ASSUME Init PROVE Inv
      OBVIOUS
    <2>1. InTransit = <<>> /\ \A g \in Senders : sent[g] = 0
      BY DEF Init, InTransit
    <2>2. AllInOrder(InTransit, sent)
      BY <2>1 DEF AllInOrder
    <2>3. Numbers(0) = <<>>
      BY DEF Numbers
    <2>4. InInv
      BY <2>3 DEF Init, InInv, InReader
    <2>5. QED
      BY <2>2, <2>4, InitTypeInv DEF Init, OutInv, HandInv
  <1>2. Inv /\ [Next]_vars => Inv'
    BY NextTypeInv, NextOutInv, NextInInv
  <1>3. Inv => NoGap
    BY DEF OutInv, InInv, NoGap, Numbers
  <1>4. QED
    BY <1>1, <1>2, <1>3, PTL DEF Spec
=============================================================================
