---------------------------- MODULE HoneyBadger ----------------------------
(***************************************************************************)
(* The way of a transaction through one node: the queue and its propose    *)
(* routine (queue.go), the HoneyBadger goroutine and the repository of ACS *)
(* instances (honeybadger/honeybadger.go, honeybadger/acs.go), which the   *)
(* goroutines that serve the node's connections use as well.               *)
(*                                                                         *)
(* An ACS instance is named by the goroutine that creates it.  The ones in *)
(* the repository or left out of it share the data, binary and batch       *)
(* channels (core.go), so together they put at most one batch on the       *)
(* channel (module ACS).  Of a batch only the node's own part is kept.     *)
(***************************************************************************)
EXTENDS Integers, FiniteSets, Sequences, SequencesExt

CONSTANTS
    Txs,               \* transactions that pass the validator
    Conns,             \* goroutines that call HandleMessage
    Run,               \* the goroutine of HoneyBadger.run
    ContributionSize,
    BatchSize,
    NoACS

VARIABLES
    txQueue,
    routinePc, candidate,      \* propose routine; its polled transactions
    contribution,              \* what it hands over
    queueStop,                 \* stopFlag of the queue manager
    runPc, job,                \* HoneyBadger.run; the contribution it proposes
    onConsensus,
    hbStop,                    \* stopFlag of HoneyBadger
    acsRepository,             \* the instance saved for the epoch
    fatal,                     \* the runtime ended the process
    held,                      \* what getACS returned to each goroutine
    getPc,                     \* where each goroutine is in getACS
    acsInput,                  \* contribution the saved instance accepted
    lost,                      \* transactions of contributions it refused
    acsDone, batchChan,        \* the batch is out; it waits for run
    results                    \* own parts handed to the application

queueVars == <<txQueue, routinePc, candidate, contribution, queueStop>>
runVars == <<runPc, job, onConsensus, hbStop>>
acsVars == <<acsRepository, held, getPc, fatal>>
outVars == <<acsInput, lost, acsDone, batchChan, results>>
vars == <<queueVars, runVars, acsVars, outVars>>

Callers == Conns \cup {Run}

ASSUME SizeAssumption ==
    /\ IsFiniteSet(Txs)
    /\ ContributionSize \in Nat \ {0}
    /\ BatchSize \in Nat
    /\ BatchSize >= ContributionSize
    /\ Run \notin Conns
    /\ NoACS \notin Callers

Init ==
    /\ txQueue = <<>>
    /\ routinePc = "check"
    /\ candidate = <<>>
    /\ contribution = {}
    /\ queueStop = FALSE
    /\ runPc = "test"
    /\ job = {}
    /\ onConsensus = FALSE
    /\ hbStop = FALSE
    /\ acsRepository = NoACS
    /\ fatal = FALSE
    /\ held = [g \in Callers |-> NoACS]
    /\ getPc = [g \in Callers |-> "out"]
    /\ acsInput = {}
    /\ lost = {}
    /\ acsDone = FALSE
    /\ batchChan = <<>>
    /\ results = <<>>

-----------------------------------------------------------------------------
(* The queue and its propose routine.                                      *)

Submitted == ToSet(txQueue) \cup ToSet(candidate) \cup contribution \cup job
                 \cup acsInput \cup lost

AddTransaction(tx) ==
    /\ tx \notin Submitted
    /\ txQueue' = Append(txQueue, tx)
    /\ UNCHANGED <<routinePc, candidate, contribution, queueStop, runVars,
                   acsVars, outVars>>

CandidateSize == IF BatchSize < Len(txQueue) THEN BatchSize ELSE Len(txQueue)

\* Slip: a queue of just the right length is left alone.
EnoughTxsLater == Len(txQueue) > ContributionSize
EnoughTxs == Len(txQueue) >= ContributionSize

\* The flag is down and the queue long enough: loadCandidateTx.  The routine is
\* the only one that polls, and AddTransaction appends at the other end.
LoadCandidateTx ==
    /\ routinePc = "check"
    /\ ~ queueStop
    /\ ~ onConsensus
    /\ EnoughTxs
    /\ routinePc' = "select"
    /\ candidate' = SubSeq(txQueue, 1, CandidateSize)
    /\ txQueue' = SubSeq(txQueue, CandidateSize + 1, Len(txQueue))
    /\ UNCHANGED <<contribution, queueStop, runVars, acsVars, outVars>>

\* What is left of the candidate, in its order, when the places in D are drawn.
Leftovers(D) ==
    {[k \in DOMAIN at |-> candidate[at[k]]] :
        at \in {f \in SetToSeqs(DOMAIN candidate \ D) :
                  \A k, l \in DOMAIN f : k < l => f[k] < f[l]}}

\* Slip: the whole candidate goes back to the queue.
SelectRandomTxAll ==
    /\ routinePc = "select"
    /\ routinePc' = "hand"
    /\ candidate' = <<>>
    /\ \E D \in kSubset(ContributionSize, DOMAIN candidate) :
          /\ contribution' = {candidate[k] : k \in D}
          /\ txQueue' = txQueue \o candidate
    /\ UNCHANGED <<queueStop, runVars, acsVars, outVars>>

\* The transactions that are not drawn go to the end of the queue.
SelectRandomTx ==
    /\ routinePc = "select"
    /\ routinePc' = "hand"
    /\ candidate' = <<>>
    /\ \E D \in kSubset(ContributionSize, DOMAIN candidate) :
          /\ contribution' = {candidate[k] : k \in D}
          /\ \E rest \in Leftovers(D) : txQueue' = txQueue \o rest
    /\ UNCHANGED <<queueStop, runVars, acsVars, outVars>>

\* HandleContribution meets run's select: contributionChan is unbuffered.
HandleContribution ==
    /\ routinePc = "hand"
    /\ runPc = "select"
    /\ routinePc' = "check"
    /\ contribution' = {}
    /\ runPc' = "start"
    /\ job' = contribution
    /\ UNCHANGED <<txQueue, candidate, queueStop, onConsensus, hbStop, acsVars,
                   outVars>>

\* The loop test of runContributionProposeRoutine.
RoutineEnds ==
    /\ routinePc = "check"
    /\ queueStop
    /\ routinePc' = "ended"
    /\ UNCHANGED <<txQueue, candidate, contribution, queueStop, runVars,
                   acsVars, outVars>>

\* Nobody reads the unbuffered closeChan: the first caller never returns, and
\* every other one returns at once.
CloseQueue ==
    /\ ~ queueStop
    /\ queueStop' = TRUE
    /\ UNCHANGED <<txQueue, routinePc, candidate, contribution, runVars,
                   acsVars, outVars>>

-----------------------------------------------------------------------------
(* getACS: find reads the repository without its lock, save takes it.      *)

Locked == \E h \in Callers : getPc[h] = "write"

\* The map is read while it is written: the runtime may end the process.
ReadRace(g) ==
    /\ getPc[g] = "find"
    /\ Locked
    /\ fatal' = TRUE
    /\ UNCHANGED <<queueVars, runVars, acsRepository, held, getPc, outVars>>

FindOrCreate(g) ==
    /\ getPc[g] = "find"
    /\ IF acsRepository # NoACS
       THEN /\ held' = [held EXCEPT ![g] = acsRepository]
            /\ getPc' = [getPc EXCEPT ![g] = "got"]
       ELSE /\ getPc' = [getPc EXCEPT ![g] = "save"]
            /\ UNCHANGED held
    /\ UNCHANGED <<queueVars, runVars, acsRepository, fatal, outVars>>

\* Slip: the instance that is there already is replaced.
SaveTestNothing(g) ==
    /\ getPc[g] = "save"
    /\ ~ Locked
    /\ getPc' = [getPc EXCEPT ![g] = "write"]
    /\ UNCHANGED <<queueVars, runVars, acsRepository, held, fatal, outVars>>

\* The instance that comes second is refused, but goes on running.
SaveTest(g) ==
    /\ getPc[g] = "save"
    /\ ~ Locked
    /\ getPc' = [getPc EXCEPT ![g] =
                    IF acsRepository = NoACS THEN "write" ELSE "error"]
    /\ UNCHANGED <<queueVars, runVars, acsRepository, held, fatal, outVars>>

SaveWrite(g) ==
    /\ getPc[g] = "write"
    /\ acsRepository' = g
    /\ held' = [held EXCEPT ![g] = g]
    /\ getPc' = [getPc EXCEPT ![g] = "got"]
    /\ UNCHANGED <<queueVars, runVars, fatal, outVars>>

GetACS(g) ==
    \/ ReadRace(g)
    \/ FindOrCreate(g)
    \/ SaveTest(g)
    \/ SaveWrite(g)

Return(g) ==
    /\ getPc' = [getPc EXCEPT ![g] = "out"]
    /\ held' = [held EXCEPT ![g] = NoACS]

-----------------------------------------------------------------------------
(* HoneyBadger.                                                            *)

\* A message from a connection: every epoch leads to the same entry.
HandleMessage(c) ==
    /\ getPc[c] = "out"
    /\ getPc' = [getPc EXCEPT ![c] = "find"]
    /\ UNCHANGED <<queueVars, runVars, acsRepository, held, fatal, outVars>>

\* The instance gets the message, or the connection's handler an error.
MessageHandled(c) ==
    /\ getPc[c] \in {"got", "error"}
    /\ Return(c)
    /\ UNCHANGED <<queueVars, runVars, acsRepository, fatal, outVars>>

\* Slip: the flag goes up after the proposal.
StartConsensusLate ==
    /\ runPc = "start"
    /\ runPc' = "propose"
    /\ getPc' = [getPc EXCEPT ![Run] = "find"]
    /\ UNCHANGED <<queueVars, job, onConsensus, hbStop, acsRepository, held,
                   fatal, outVars>>

StartConsensus ==
    /\ runPc = "start"
    /\ runPc' = "propose"
    /\ onConsensus' = TRUE
    /\ getPc' = [getPc EXCEPT ![Run] = "find"]
    /\ UNCHANGED <<queueVars, job, hbStop, acsRepository, held, fatal, outVars>>

\* ACS takes one input; run ignores the error of a second one, and of getACS.
Propose ==
    /\ runPc = "propose"
    /\ getPc[Run] \in {"got", "error"}
    /\ IF getPc[Run] = "got" /\ acsInput = {}
       THEN acsInput' = job /\ UNCHANGED lost
       ELSE lost' = lost \cup job /\ UNCHANGED acsInput
    /\ Return(Run)
    /\ runPc' = "test"
    /\ job' = {}
    /\ UNCHANGED <<queueVars, onConsensus, hbStop, acsRepository, fatal,
                   acsDone, batchChan, results>>

\* The contributions of N-F members are enough for a batch, whether the own one
\* is among them or not.
CompleteACS ==
    /\ acsRepository # NoACS
    /\ ~ acsDone
    /\ acsDone' = TRUE
    /\ \E own \in {{}, acsInput} : batchChan' = Append(batchChan, own)
    /\ UNCHANGED <<queueVars, runVars, acsVars, acsInput, lost, results>>

HandleBatchMessage ==
    /\ runPc = "select"
    /\ batchChan # <<>>
    /\ results' = Append(results, Head(batchChan))
    /\ batchChan' = Tail(batchChan)
    /\ runPc' = "fin"
    /\ UNCHANGED <<queueVars, job, onConsensus, hbStop, acsVars, acsInput, lost,
                   acsDone>>

\* The epoch stays what it was.
FinConsensus ==
    /\ runPc = "fin"
    /\ runPc' = "test"
    /\ onConsensus' = FALSE
    /\ UNCHANGED <<queueVars, job, hbStop, acsVars, outVars>>

\* Slip: the loop goes on after Close.
RunTestNothing ==
    /\ runPc = "test"
    /\ runPc' = "select"
    /\ UNCHANGED <<queueVars, job, onConsensus, hbStop, acsVars, outVars>>

\* The loop test of run; in the select it does not notice a Close.
RunTest ==
    /\ runPc = "test"
    /\ runPc' = IF hbStop THEN "ended" ELSE "select"
    /\ UNCHANGED <<queueVars, job, onConsensus, hbStop, acsVars, outVars>>

\* As with CloseQueue the first caller never returns.
CloseHoneyBadger ==
    /\ ~ hbStop
    /\ hbStop' = TRUE
    /\ UNCHANGED <<queueVars, runPc, job, onConsensus, acsVars, outVars>>

RunStep ==
    \/ RunTest
    \/ StartConsensus
    \/ GetACS(Run)
    \/ Propose
    \/ HandleBatchMessage
    \/ FinConsensus

RoutineStep == LoadCandidateTx \/ SelectRandomTx \/ RoutineEnds

ConnStep(c) ==
    \/ HandleMessage(c)
    \/ GetACS(c)
    \/ MessageHandled(c)

Next ==
    /\ ~ fatal
    /\ \/ \E tx \in Txs : AddTransaction(tx)
       \/ RoutineStep
       \/ HandleContribution
       \/ RunStep
       \/ \E c \in Conns : ConnStep(c)
       \/ CompleteACS
       \/ CloseQueue
       \/ CloseHoneyBadger

Spec == Init /\ [][Next]_vars

\* The goroutines of the node keep running; run's select picks either channel,
\* and the batch channel holds a single batch.
Fairness ==
    /\ WF_vars(~ fatal /\ RoutineStep)
    /\ WF_vars(~ fatal /\ HandleContribution)
    /\ WF_vars(~ fatal /\ RunStep)
    /\ \A c \in Conns : WF_vars(~ fatal /\ SaveWrite(c))

FairSpec == Spec /\ Fairness

-----------------------------------------------------------------------------
(* Properties.                                                             *)

Places == <<ToSet(txQueue), ToSet(candidate), contribution, job, acsInput,
            lost>>

\* The shape of the variables, and every submitted transaction is in one place:
\* the interleaving of AddTransaction with polling, drawing and pushing back
\* neither duplicates nor mixes up transactions (queue.go: createContribution).
TypeOK ==
    /\ txQueue \in Seq(Txs)
    /\ candidate \in Seq(Txs)
    /\ routinePc \in {"check", "select", "hand", "ended"}
    /\ runPc \in {"test", "select", "start", "propose", "fin", "ended"}
    /\ {queueStop, onConsensus, hbStop, fatal} \subseteq BOOLEAN
    /\ acsDone \in BOOLEAN
    /\ acsRepository \in Callers \cup {NoACS}
    /\ held \in [Callers -> Callers \cup {NoACS}]
    /\ getPc \in [Callers -> {"out", "find", "save", "write", "got",
                              "error"}]
    /\ batchChan \in Seq(SUBSET Txs)
    /\ results \in Seq(SUBSET Txs)
    /\ IsInjective(txQueue \o candidate)
    /\ \A x, y \in DOMAIN Places : x # y => Places[x] \cap Places[y] = {}
    /\ \A x \in DOMAIN Places : Places[x] \subseteq Txs

\* All goroutines that get an instance get the one in the repository, although
\* several may find none and create one, and the map is written once: only while
\* the first instance is being saved may an unlocked find end the process
\* (honeybadger.go: getACS; acs.go: find, save).
OneInstance ==
    /\ \A g \in Callers : held[g] # NoACS => held[g] = acsRepository
    /\ fatal => acsRepository = NoACS

\* Between a contribution's way into ACS, accepted or refused with an error that
\* run drops, and the batch the flag is up, whichever of contribution and batch
\* run takes first (honeybadger.go: run).
FlagUp == (acsInput \cup lost # {} /\ results = <<>>) => onConsensus

\* A queue that is long enough is followed by a consensus: a contribution in the
\* routine's hand is never left there (queue.go: tryPropose).
Proposes ==
    (Len(txQueue) >= ContributionSize)
        ~> (onConsensus \/ queueStop \/ hbStop \/ fatal)

\* Close ends the goroutines although it does not return itself: run when it has
\* been offered something more, the routine in any case, unless it hands its
\* contribution to a run that has ended (honeybadger.go, queue.go: Close).
EndsAfterClose ==
    /\ (hbStop /\ (routinePc = "hand" \/ batchChan # <<>>))
           ~> (runPc = "ended" \/ fatal)
    /\ queueStop
           ~> \/ routinePc = "ended"
              \/ routinePc = "hand" /\ runPc = "ended"
              \/ fatal

-----------------------------------------------------------------------------
(* What the documents and comments say and some instance refutes.          *)

\* After a batch a new epoch begins, in which ACS takes the node's next
\* contribution (README.md:25).
NewEpoch == (runPc = "propose" /\ results # <<>>) => acsInput = {}
=============================================================================
