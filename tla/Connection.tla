----------------------------- MODULE Connection -----------------------------
(***************************************************************************)
(* One end of a connection that the node has dialled (conn.go): callers of *)
(* Send, the goroutines writeStream and readStream, the loop of Start, and *)
(* the two who may call Close: Owner, when the node closes, and Starter,   *)
(* the goroutine of core.go that runs Start and closes after an error.     *)
(* Callbacks are nil and every message is verified, as in the code.        *)
(*                                                                         *)
(* The stream under the connection may break at any time, and then stays   *)
(* broken.  While it is up, a write may take for ever: the peer may not    *)
(* be reading.                                                             *)
(***************************************************************************)
EXTENDS Integers, Sequences, SequencesExt

CONSTANTS
    Senders,           \* goroutines that call Send
    Owner, Starter,    \* goroutines that call Close
    NoOne,
    OutSize, ReadSize, \* capacities of outChan and readChan
    SendLimit,         \* bound: messages of each sender
    Incoming           \* messages the peer writes, numbered from 1

VARIABLES
    sent,              \* Send calls of each sender that have returned
    mutex,             \* the sender inside Send, which waits at outChan
    outChan, writerPc,
    inHand,            \* the message writeStream passes to the stream
    wire,              \* messages the stream has taken
    received,          \* messages the stream has handed over
    readerPc, readChan, errChan,
    mainPc,
    served,            \* messages given to the handler
    stopFlag, stopChan, closerPc, streamUp

outVars == <<sent, mutex, outChan, writerPc, inHand, wire>>
inVars == <<received, readerPc, readChan, errChan, mainPc, served>>
stopVars == <<stopFlag, stopChan, closerPc, streamUp>>
vars == <<outVars, inVars, stopVars>>

Closers == {Owner, Starter}
StopSize == 1
ErrSize == 1

ASSUME ConnectionAssumption ==
    /\ OutSize \in Nat \ {0}
    /\ ReadSize \in Nat \ {0}
    /\ SendLimit \in [Senders -> Nat]
    /\ Incoming \in Nat
    /\ Owner # Starter
    /\ NoOne \notin Senders

Init ==
    /\ sent = [g \in Senders |-> 0]
    /\ mutex = NoOne
    /\ outChan = <<>>
    /\ writerPc = "loop"
    /\ inHand = <<>>
    /\ wire = <<>>
    /\ received = 0
    /\ readerPc = "loop"
    /\ readChan = <<>>
    /\ errChan = 0
    /\ mainPc = "loop"
    /\ served = <<>>
    /\ stopFlag = 0
    /\ stopChan = 0
    /\ closerPc = [c \in Closers |-> "idle"]
    /\ streamUp = TRUE

-----------------------------------------------------------------------------
(* Send: the lock is held while the caller waits for room in outChan.      *)

SendLock(g) ==
    /\ mutex = NoOne
    /\ sent[g] < SendLimit[g]
    /\ mutex' = g
    /\ UNCHANGED <<sent, outChan, writerPc, inHand, wire, inVars, stopVars>>

\* Slip: the lock is not given back (calls still bounded).
SendPutKeepsLock(g) ==
    /\ mutex = g
    /\ sent[g] < SendLimit[g]
    /\ Len(outChan) < OutSize
    /\ outChan' = Append(outChan, [src |-> g, num |-> sent[g] + 1])
    /\ sent' = [sent EXCEPT ![g] = @ + 1]
    /\ UNCHANGED <<mutex, writerPc, inHand, wire, inVars, stopVars>>

\* Slip: the caller does not wait for room.
SendPutAtOnce(g) ==
    /\ mutex = g
    /\ outChan' = Append(outChan, [src |-> g, num |-> sent[g] + 1])
    /\ sent' = [sent EXCEPT ![g] = @ + 1]
    /\ mutex' = NoOne
    /\ UNCHANGED <<writerPc, inHand, wire, inVars, stopVars>>

\* Slip: a message that finds outChan full is dropped.
SendPutOrDrop(g) ==
    /\ mutex = g
    /\ outChan' = IF Len(outChan) < OutSize
                      THEN Append(outChan, [src |-> g, num |-> sent[g] + 1])
                      ELSE outChan
    /\ sent' = [sent EXCEPT ![g] = @ + 1]
    /\ mutex' = NoOne
    /\ UNCHANGED <<writerPc, inHand, wire, inVars, stopVars>>

SendPut(g) ==
    /\ mutex = g
    /\ Len(outChan) < OutSize
    /\ outChan' = Append(outChan, [src |-> g, num |-> sent[g] + 1])
    /\ sent' = [sent EXCEPT ![g] = @ + 1]
    /\ mutex' = NoOne
    /\ UNCHANGED <<writerPc, inHand, wire, inVars, stopVars>>

-----------------------------------------------------------------------------
(* writeStream.                                                            *)

WriterLoop ==
    /\ writerPc = "loop"
    /\ writerPc' = IF stopFlag = 1 THEN "ended" ELSE "select"
    /\ UNCHANGED <<sent, mutex, outChan, inHand, wire, inVars, stopVars>>

WriterTake ==
    /\ writerPc = "select"
    /\ outChan # <<>>
    /\ inHand' = <<Head(outChan)>>
    /\ outChan' = Tail(outChan)
    /\ writerPc' = "write"
    /\ UNCHANGED <<sent, mutex, wire, inVars, stopVars>>

\* A write to a broken stream returns an error, which nobody is told.
Write ==
    /\ writerPc = "write"
    /\ wire' = IF streamUp THEN wire \o inHand ELSE wire
    /\ inHand' = <<>>
    /\ writerPc' = "loop"
    /\ UNCHANGED <<sent, mutex, outChan, inVars, stopVars>>

WriterStop ==
    /\ writerPc = "select"
    /\ stopChan = 1
    /\ stopChan' = 0
    /\ writerPc' = "putback"
    /\ UNCHANGED <<sent, mutex, outChan, inHand, wire, inVars, stopFlag,
                   closerPc, streamUp>>

\* Slip: the token is not put back for the others.
WriterKeepsToken ==
    /\ writerPc = "putback"
    /\ writerPc' = "ended"
    /\ UNCHANGED <<sent, mutex, outChan, inHand, wire, inVars, stopVars>>

WriterPutBack ==
    /\ writerPc = "putback"
    /\ stopChan < StopSize
    /\ stopChan' = stopChan + 1
    /\ writerPc' = "ended"
    /\ UNCHANGED <<sent, mutex, outChan, inHand, wire, inVars, stopFlag,
                   closerPc, streamUp>>

-----------------------------------------------------------------------------
(* readStream.                                                             *)

ReaderLoop ==
    /\ readerPc = "loop"
    /\ readerPc' = IF stopFlag = 1 THEN "ended" ELSE "recv"
    /\ UNCHANGED <<outVars, received, readChan, errChan, mainPc, served,
                   stopVars>>

Recv ==
    /\ readerPc = "recv"
    /\ \/ /\ received < Incoming
          /\ received' = received + 1
          /\ readerPc' = "message"
       \/ /\ ~streamUp
          /\ readerPc' = "error"
          /\ UNCHANGED received
    /\ UNCHANGED <<outVars, readChan, errChan, mainPc, served, stopVars>>

\* After Recv: nothing is reported once the connection is closed.
ReaderCheck ==
    /\ readerPc \in {"message", "error"}
    /\ IF stopFlag = 1
           THEN readerPc' = "ended" /\ UNCHANGED errChan
           ELSE IF readerPc = "error"
               THEN /\ errChan < ErrSize
                    /\ errChan' = errChan + 1
                    /\ readerPc' = "ended"
               ELSE readerPc' = "put" /\ UNCHANGED errChan
    /\ UNCHANGED <<outVars, received, readChan, mainPc, served, stopVars>>

ReaderPut ==
    /\ readerPc = "put"
    /\ Len(readChan) < ReadSize
    /\ readChan' = Append(readChan, received)
    /\ readerPc' = "loop"
    /\ UNCHANGED <<outVars, received, errChan, mainPc, served, stopVars>>

-----------------------------------------------------------------------------
(* The loop of Start; "failed" is its return of an error.                  *)

MainLoop ==
    /\ mainPc = "loop"
    /\ mainPc' = IF stopFlag = 1 THEN "ended" ELSE "select"
    /\ UNCHANGED <<outVars, received, readerPc, readChan, errChan, served,
                   stopVars>>

MainServe ==
    /\ mainPc = "select"
    /\ readChan # <<>>
    /\ served' = Append(served, Head(readChan))
    /\ readChan' = Tail(readChan)
    /\ mainPc' = "loop"
    /\ UNCHANGED <<outVars, received, readerPc, errChan, stopVars>>

MainError ==
    /\ mainPc = "select"
    /\ errChan > 0
    /\ errChan' = errChan - 1
    /\ mainPc' = "failed"
    /\ UNCHANGED <<outVars, received, readerPc, readChan, served, stopVars>>

MainStop ==
    /\ mainPc = "select"
    /\ stopChan = 1
    /\ stopChan' = 0
    /\ mainPc' = "putback"
    /\ UNCHANGED <<outVars, received, readerPc, readChan, errChan, served,
                   stopFlag, closerPc, streamUp>>

MainPutBack ==
    /\ mainPc = "putback"
    /\ stopChan < StopSize
    /\ stopChan' = stopChan + 1
    /\ mainPc' = "ended"
    /\ UNCHANGED <<outVars, received, readerPc, readChan, errChan, served,
                   stopFlag, closerPc, streamUp>>

-----------------------------------------------------------------------------
(* Close.                                                                  *)

CloseCheck(c) ==
    /\ closerPc[c] = "idle"
    /\ c = Starter => mainPc = "failed"
    /\ closerPc' = [closerPc EXCEPT ![c] =
                       IF stopFlag = 1 THEN "done" ELSE "swap"]
    /\ UNCHANGED <<outVars, inVars, stopFlag, stopChan, streamUp>>

\* Slip: the flag is stored, not compared and swapped.
CloseStore(c) ==
    /\ closerPc[c] = "swap"
    /\ stopFlag' = 1
    /\ closerPc' = [closerPc EXCEPT ![c] = "token"]
    /\ UNCHANGED <<outVars, inVars, stopChan, streamUp>>

CloseSwap(c) ==
    /\ closerPc[c] = "swap"
    /\ stopFlag' = 1
    /\ closerPc' = [closerPc EXCEPT ![c] =
                       IF stopFlag = 0 THEN "token" ELSE "done"]
    /\ UNCHANGED <<outVars, inVars, stopChan, streamUp>>

ClosePut(c) ==
    /\ closerPc[c] = "token"
    /\ stopChan < StopSize
    /\ stopChan' = stopChan + 1
    /\ closerPc' = [closerPc EXCEPT ![c] = "lock"]
    /\ UNCHANGED <<outVars, inVars, stopFlag, streamUp>>

\* The stream is closed under the lock that Send takes.
CloseStream(c) ==
    /\ closerPc[c] = "lock"
    /\ mutex = NoOne
    /\ streamUp' = FALSE
    /\ closerPc' = [closerPc EXCEPT ![c] = "done"]
    /\ UNCHANGED <<outVars, inVars, stopFlag, stopChan>>

StreamBreaks ==
    /\ streamUp
    /\ streamUp' = FALSE
    /\ UNCHANGED <<outVars, inVars, stopFlag, stopChan, closerPc>>

-----------------------------------------------------------------------------
Writer == WriterLoop \/ WriterTake \/ Write \/ WriterStop \/ WriterPutBack
Reader == ReaderLoop \/ Recv \/ ReaderCheck \/ ReaderPut
Main == MainLoop \/ MainServe \/ MainError \/ MainStop \/ MainPutBack
Close(c) == CloseCheck(c) \/ CloseSwap(c) \/ ClosePut(c) \/ CloseStream(c)

Next ==
    \/ \E g \in Senders : SendLock(g) \/ SendPut(g)
    \/ Writer \/ Reader \/ Main
    \/ \E c \in Closers : Close(c)
    \/ StreamBreaks

Spec == Init /\ [][Next]_vars

\* Goroutines run, and the mutex goes in the end to whoever waits for it (Go's
\* RWMutex).  Nothing is owed by the peer, nor by a write while the stream
\* is up.
Fairness ==
    /\ WF_vars(Writer /\ (writerPc = "write" => ~streamUp))
    /\ WF_vars(Reader)
    /\ WF_vars(Main)
    /\ WF_vars(\E g \in Senders : SendPut(g))
    /\ \A c \in Closers : /\ WF_vars(CloseSwap(c) \/ ClosePut(c))
                          /\ SF_vars(CloseStream(c))

FairSpec == Spec /\ Fairness

-----------------------------------------------------------------------------
(* Properties.                                                             *)

Sent == [src : Senders, num : Nat]

\* Every variable has its type and no channel holds more than its capacity
\* (NewConnection, conn.go:52).
TypeOK ==
    /\ sent \in [Senders -> Nat]
    /\ mutex \in Senders \cup {NoOne}
    /\ outChan \in Seq(Sent)
    /\ Len(outChan) <= OutSize
    /\ inHand \in Seq(Sent)
    /\ wire \in Seq(Sent)
    /\ writerPc \in {"loop", "select", "write", "putback", "ended"}
    /\ received \in 0 .. Incoming
    /\ readChan \in Seq(1 .. Incoming) /\ Len(readChan) <= ReadSize
    /\ readerPc \in {"loop", "recv", "message", "error", "put", "ended"}
    /\ errChan \in 0 .. ErrSize
    /\ served \in Seq(1 .. Incoming)
    /\ mainPc \in {"loop", "select", "putback", "ended", "failed"}
    /\ stopFlag \in {0, 1}
    /\ stopChan \in 0 .. StopSize
    /\ closerPc \in [Closers -> {"idle", "swap", "token", "lock", "done"}]
    /\ streamUp \in BOOLEAN

InTransit == wire \o inHand \o outChan
InReader == IF readerPc \in {"message", "put"} THEN <<received>> ELSE <<>>

\* Of each goroutine g, q holds the first num[g] messages, in order, and no other.
AllInOrder(q, num) ==
    /\ \A g \in Senders : \A k \in 1 .. num[g] :
          \E p \in DOMAIN q : q[p] = [src |-> g, num |-> k]
    /\ \A p \in DOMAIN q : q[p].num \in 1 .. num[q[p].src]
    /\ \A p, r \in DOMAIN q :
          p < r /\ q[p].src = q[r].src => q[p].num < q[r].num

\* While the stream is up, what a goroutine has sent is on the wire, in the
\* writer's hand or in outChan, in the order sent; and while the connection
\* is not closed, what was received is served, waits or is in the reader's hand,
\* in the order of the peer (writeStream, readStream, Start).
NoGap ==
    /\ streamUp => AllInOrder(InTransit, sent)
    /\ stopFlag = 0 =>
          served \o readChan \o InReader = [k \in 1 .. received |-> k]

\* There is one stop token: whoever puts it on stopChan, in Close or to pass
\* it on, finds room and does not block (conn.go:97, 114, 155).
TokenHasRoom ==
    (\/ writerPc = "putback"
     \/ mainPc = "putback"
     \/ \E c \in Closers : closerPc[c] = "token") => stopChan < StopSize

Stuck == mutex # NoOne /\ Len(outChan) = OutSize

\* Close returns, unless a Send holds the lock and waits for room in outChan
\* for ever (conn.go:76 and 98).
CloseReturns ==
    \A c \in Closers : closerPc[c] = "swap" ~> (closerPc[c] = "done" \/ []Stuck)

\* After Close the loop of Start ends; writeStream ends unless a write
\* takes for ever; and readStream ends once the stream is down, unless it is
\* left with a message for a full readChan (conn.go:109, 141, 162).
LoopsEnd ==
    /\ stopFlag = 1 ~> mainPc \in {"ended", "failed"}
    /\ stopFlag = 1 ~> (writerPc = "ended" \/ [](writerPc = "write" /\ streamUp))
    /\ (stopFlag = 1 /\ ~streamUp) ~>
          (readerPc = "ended" \/ [](readerPc = "put" /\ Len(readChan) = ReadSize))
=============================================================================
