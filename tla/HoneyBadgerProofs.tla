------------------------- MODULE HoneyBadgerProofs -------------------------
(***************************************************************************)
(* Proofs about HoneyBadger, for any number of connections, any            *)
(* transactions and any sizes: the goroutines that race in getACS end up   *)
(* with one ACS instance, a contribution on its way keeps the flag up, and *)
(* no transaction is lost track of or used twice.                          *)
(***************************************************************************)
EXTENDS HoneyBadger, SequenceTheorems, FiniteSetTheorems, TLAPS

GetPcs == {"out", "find", "save", "write", "got", "error"}

\* Between the test and the write of save nobody else can be there, and the
\* repository is empty all that time.
WriteAlone ==
    /\ \A g \in Callers : getPc[g] = "write" => acsRepository = NoACS
    /\ \A g, h \in Callers : getPc[g] = "write" /\ getPc[h] = "write" => g = h

InstanceInv ==
    /\ fatal \in BOOLEAN
    /\ acsRepository \in Callers \cup {NoACS}
    /\ held \in [Callers -> Callers \cup {NoACS}]
    /\ getPc \in [Callers -> GetPcs]
    /\ WriteAlone
    /\ OneInstance

\* run raises the flag before it proposes and lowers it after a batch only.
FlagInv ==
    /\ \E S : results \in Seq(S)
    /\ runPc = "propose" => onConsensus
    /\ runPc = "fin" => results # <<>>
    /\ FlagUp

-----------------------------------------------------------------------------
(* The instance.                                                           *)

\* A goroutine that leaves the places of getACS as they are, or returns.
LEMMA ElsewhereKeepsInstance ==
    ASSUME InstanceInv,
           UNCHANGED <<acsRepository, fatal>>,
           \/ UNCHANGED <<held, getPc>>
           \/ \E g \in Callers :
                 /\ held' = [held EXCEPT ![g] = NoACS]
                 /\ getPc' = [getPc EXCEPT ![g] = "out"]
           \/ \E g \in Callers :
                 /\ UNCHANGED held
                 /\ getPc' = [getPc EXCEPT ![g] = "find"]
    PROVE  InstanceInv'
<1>1. CASE UNCHANGED <<held, getPc>>
  BY <1>1 DEF InstanceInv, WriteAlone, OneInstance, GetPcs
<1>2. ASSUME NEW g \in Callers,
             held' = [held EXCEPT ![g] = NoACS],
             getPc' = [getPc EXCEPT ![g] = "out"]
      PROVE  InstanceInv'
  BY <1>2 DEF InstanceInv, WriteAlone, OneInstance, GetPcs
<1>3. ASSUME NEW g \in Callers,
             UNCHANGED held,
             getPc' = [getPc EXCEPT ![g] = "find"]
      PROVE  InstanceInv'
  BY <1>3 DEF InstanceInv, WriteAlone, OneInstance, GetPcs
<1>. QED
  BY <1>1, <1>2, <1>3

\* The unlocked find may race with a write: then nothing is saved yet.
LEMMA GetACSKeepsInstance ==
    ASSUME InstanceInv, ~ fatal, NEW g \in Callers, GetACS(g)
    PROVE  InstanceInv'
<1>1. CASE ReadRace(g)
  <2>1. acsRepository = NoACS
    BY <1>1 DEF ReadRace, Locked, InstanceInv, WriteAlone
  <2>. QED
    BY <1>1, <2>1 DEF ReadRace, InstanceInv, WriteAlone, OneInstance
<1>2. CASE FindOrCreate(g)
  BY <1>2 DEF FindOrCreate, InstanceInv, WriteAlone, OneInstance, GetPcs
<1>3. CASE SaveTest(g)
  <2>1. /\ UNCHANGED <<acsRepository, fatal, held>>
        /\ \A h \in Callers : getPc[h] # "write"
        /\ \/ acsRepository = NoACS /\ getPc' = [getPc EXCEPT ![g] = "write"]
           \/ getPc' = [getPc EXCEPT ![g] = "error"]
    BY <1>3 DEF SaveTest, Locked
  <2>. QED
    BY <2>1 DEF InstanceInv, WriteAlone, OneInstance, GetPcs
<1>4. CASE SaveWrite(g)
  <2>1. \A h \in Callers : held[h] = NoACS
    BY <1>4 DEF SaveWrite, InstanceInv, WriteAlone, OneInstance
  <2>2. \A h \in Callers : getPc'[h] # "write"
    BY <1>4 DEF SaveWrite, InstanceInv, WriteAlone, GetPcs
  <2>3. held' \in [Callers -> Callers \cup {NoACS}] /\ OneInstance'
    BY <1>4, <2>1 DEF SaveWrite, InstanceInv, OneInstance
  <2>. QED
    BY <1>4, <2>2, <2>3 DEF SaveWrite, InstanceInv, WriteAlone, GetPcs
<1>. QED
  BY <1>1, <1>2, <1>3, <1>4 DEF GetACS

LEMMA StepKeepsInstance == InstanceInv /\ [Next]_vars => InstanceInv'
<1>. SUFFICES ASSUME InstanceInv, [Next]_vars
              PROVE  InstanceInv'
  OBVIOUS
<1>. USE DEF acsVars
<1>1. CASE UNCHANGED vars
  BY <1>1, ElsewhereKeepsInstance DEF vars
<1>2. ASSUME NEW tx \in Txs, AddTransaction(tx)
      PROVE  InstanceInv'
  BY <1>2, ElsewhereKeepsInstance DEF AddTransaction
<1>3. CASE RoutineStep
  BY <1>3, ElsewhereKeepsInstance
  DEF RoutineStep, LoadCandidateTx, SelectRandomTx, RoutineEnds
<1>4. CASE HandleContribution
  BY <1>4, ElsewhereKeepsInstance DEF HandleContribution
<1>5. ASSUME ~ fatal, RunStep
      PROVE  InstanceInv'
  <2>1. Run \in Callers
    BY DEF Callers
  <2>2. CASE RunTest \/ HandleBatchMessage \/ FinConsensus
    BY <2>2, ElsewhereKeepsInstance
    DEF RunTest, HandleBatchMessage, FinConsensus
  <2>3. CASE StartConsensus
    BY <2>1, <2>3, ElsewhereKeepsInstance DEF StartConsensus
  <2>4. CASE GetACS(Run)
    BY <1>5, <2>1, <2>4, GetACSKeepsInstance
  <2>5. CASE Propose
    BY <2>1, <2>5, ElsewhereKeepsInstance DEF Propose, Return
  <2>. QED
    BY <1>5, <2>2, <2>3, <2>4, <2>5 DEF RunStep
<1>6. ASSUME ~ fatal, NEW c \in Conns, ConnStep(c)
      PROVE  InstanceInv'
  <2>1. c \in Callers
    BY DEF Callers
  <2>2. CASE HandleMessage(c)
    BY <2>1, <2>2, ElsewhereKeepsInstance DEF HandleMessage
  <2>3. CASE GetACS(c)
    BY <1>6, <2>1, <2>3, GetACSKeepsInstance
  <2>4. CASE MessageHandled(c)
    BY <2>1, <2>4, ElsewhereKeepsInstance DEF MessageHandled, Return
  <2>. QED
    BY <1>6, <2>2, <2>3, <2>4 DEF ConnStep
<1>7. CASE CompleteACS \/ CloseQueue \/ CloseHoneyBadger
  BY <1>7, ElsewhereKeepsInstance DEF CompleteACS, CloseQueue, CloseHoneyBadger
<1>. QED
  BY <1>1, <1>2, <1>3, <1>4, <1>5, <1>6, <1>7 DEF Next

\* However many goroutines find no instance and create one of their own, all get
\* the one in the repository, and the process can only end while the first one
\* is being saved (honeybadger.go: getACS; acs.go: find, save).
THEOREM InstanceIsOne == Spec => []OneInstance
<1>1. Init => InstanceInv
  BY DEF Init, InstanceInv, WriteAlone, OneInstance, GetPcs
<1>2. InstanceInv => OneInstance
  BY DEF InstanceInv
<1>. QED
  BY <1>1, <1>2, StepKeepsInstance, PTL DEF Spec

-----------------------------------------------------------------------------
(* The flag.                                                               *)

\* The application is handed one result more, and none is taken back.
LEMMA OneMore ==
    ASSUME NEW s, \E S : s \in Seq(S), NEW x
    PROVE  /\ \E S : Append(s, x) \in Seq(S)
           /\ Append(s, x) # <<>>
<1>1. PICK S : s \in Seq(S)
  OBVIOUS
<1>2. s \in Seq(S \cup {x})
  BY <1>1
<1>3. Append(s, x) \in Seq(S \cup {x}) /\ Append(s, x) # <<>>
  BY <1>2
<1>. QED
  BY <1>3

LEMMA StepKeepsFlag == FlagInv /\ [Next]_vars => FlagInv'
<1>. SUFFICES ASSUME FlagInv, [Next]_vars
              PROVE  FlagInv'
  OBVIOUS
<1>. USE DEF FlagInv, FlagUp, runVars, outVars, queueVars, acsVars
<1>1. CASE UNCHANGED vars
  BY <1>1 DEF vars
<1>2. ASSUME NEW tx \in Txs, AddTransaction(tx)
      PROVE  FlagInv'
  BY <1>2 DEF AddTransaction
<1>3. CASE RoutineStep
  BY <1>3 DEF RoutineStep, LoadCandidateTx, SelectRandomTx, RoutineEnds
<1>4. CASE HandleContribution
  BY <1>4 DEF HandleContribution
<1>5. ASSUME NEW g \in Callers, GetACS(g)
      PROVE  FlagInv'
  BY <1>5 DEF GetACS, ReadRace, FindOrCreate, SaveTest, SaveWrite
<1>6. CASE RunStep
  <2>1. CASE RunTest
    BY <2>1 DEF RunTest
  <2>2. CASE StartConsensus
    BY <2>2 DEF StartConsensus
  <2>3. CASE GetACS(Run)
    BY <1>5, <2>3 DEF Callers
  <2>4. CASE Propose
    BY <2>4 DEF Propose
  <2>5. CASE HandleBatchMessage
    <3>1. (\E S : results' \in Seq(S)) /\ results' # <<>>
      BY <2>5, OneMore DEF HandleBatchMessage
    <3>. QED
      BY <2>5, <3>1 DEF HandleBatchMessage
  <2>6. CASE FinConsensus
    BY <2>6 DEF FinConsensus
  <2>. QED
    BY <1>6, <2>1, <2>2, <2>3, <2>4, <2>5, <2>6 DEF RunStep
<1>7. ASSUME NEW c \in Conns, ConnStep(c)
      PROVE  FlagInv'
  BY <1>5, <1>7 DEF ConnStep, HandleMessage, MessageHandled, Callers
<1>8. CASE CompleteACS
  BY <1>8 DEF CompleteACS
<1>9. CASE CloseQueue \/ CloseHoneyBadger
  BY <1>9 DEF CloseQueue, CloseHoneyBadger
<1>. QED
  BY <1>1, <1>2, <1>3, <1>4, <1>6, <1>7, <1>8, <1>9 DEF Next

\* Between a contribution's way into ACS, accepted or refused, and the batch the
\* flag is up (honeybadger.go: run, startConsensus, finConsensus).
THEOREM FlagStaysUp == Spec => []FlagUp
<1>1. Init => FlagInv
  <2>. SUFFICES ASSUME Init
                PROVE  FlagInv
    OBVIOUS
  <2>1. results \in Seq({})
    BY DEF Init
  <2>. QED
    BY <2>1 DEF Init, FlagInv, FlagUp
<1>2. FlagInv => FlagUp
  BY DEF FlagInv
<1>. QED
  BY <1>1, <1>2, StepKeepsFlag, PTL DEF Spec

-----------------------------------------------------------------------------
(* The transactions.                                                       *)

OnlyOnce(q) == \A k, l \in DOMAIN q : q[k] = q[l] => k = l

\* The places a transaction can be at have none in common.
PlacesApart ==
    /\ ToSet(txQueue) \cap ToSet(candidate) = {}
    /\ ToSet(txQueue) \cap (contribution \cup job \cup acsInput \cup lost) = {}
    /\ ToSet(candidate) \cap (contribution \cup job \cup acsInput \cup lost) = {}
    /\ contribution \cap (job \cup acsInput \cup lost) = {}
    /\ job \cap (acsInput \cup lost) = {}
    /\ acsInput \cap lost = {}

ControlShapes ==
    /\ routinePc \in {"check", "select", "hand", "ended"}
    /\ runPc \in {"test", "select", "start", "propose", "fin", "ended"}
    /\ queueStop \in BOOLEAN
    /\ onConsensus \in BOOLEAN
    /\ hbStop \in BOOLEAN
    /\ acsDone \in BOOLEAN
    /\ batchChan \in Seq(SUBSET Txs)
    /\ results \in Seq(SUBSET Txs)

TxInv ==
    /\ ControlShapes
    /\ txQueue \in Seq(Txs) /\ candidate \in Seq(Txs)
    /\ contribution \cup job \cup acsInput \cup lost \subseteq Txs
    /\ OnlyOnce(txQueue) /\ OnlyOnce(candidate)
    /\ PlacesApart

LEMMA SeqFacts ==
    ASSUME NEW S, NEW q \in Seq(S)
    PROVE  /\ Len(q) \in Nat
           /\ DOMAIN q = 1 .. Len(q)
           /\ \A k \in DOMAIN q : q[k] \in S
           /\ ToSet(q) \subseteq S
BY ElementOfSeq, LenProperties DEF ToSet

\* Two sequences one after the other.
LEMMA ConcatFacts ==
    ASSUME NEW S, NEW p \in Seq(S), NEW q \in Seq(S)
    PROVE  /\ p \o q \in Seq(S)
           /\ ToSet(p \o q) = ToSet(p) \cup ToSet(q)
           /\ OnlyOnce(p) /\ OnlyOnce(q) /\ ToSet(p) \cap ToSet(q) = {}
                 => OnlyOnce(p \o q)
<1> DEFINE r == p \o q
           m == Len(p)
           n == Len(q)
<1>1. /\ r \in Seq(S) /\ Len(r) = m + n
      /\ m \in Nat /\ n \in Nat
      /\ DOMAIN p = 1 .. m /\ DOMAIN q = 1 .. n /\ DOMAIN r = 1 .. m + n
      /\ \A k \in 1 .. m + n : r[k] = IF k <= m THEN p[k] ELSE q[k - m]
  BY ConcatProperties, LenProperties
<1> HIDE DEF r, m, n
<1>2. \A k \in DOMAIN p : k \in DOMAIN r /\ r[k] = p[k]
  BY <1>1
<1>3. \A k \in DOMAIN q : k + m \in DOMAIN r /\ r[k + m] = q[k]
  <2> TAKE k \in DOMAIN q
  <2>1. k + m \in 1 .. m + n /\ ~ (k + m <= m) /\ (k + m) - m = k
    BY <1>1
  <2>2. r[k + m] = q[(k + m) - m]
    BY <1>1, <2>1
  <2>. QED
    BY <1>1, <2>1, <2>2
<1>4. \A k \in DOMAIN r :
         \/ k \in DOMAIN p /\ r[k] = p[k]
         \/ k - m \in DOMAIN q /\ r[k] = q[k - m] /\ k \notin DOMAIN p
  BY <1>1
<1>5. ToSet(r) = ToSet(p) \cup ToSet(q)
  <2>1. \A x \in ToSet(r) : x \in ToSet(p) \cup ToSet(q)
    BY <1>4 DEF ToSet
  <2>2. \A x \in ToSet(p) : x \in ToSet(r)
    BY <1>2 DEF ToSet
  <2>3. \A x \in ToSet(q) : x \in ToSet(r)
    BY <1>3 DEF ToSet
  <2>. QED
    BY <2>1, <2>2, <2>3
<1>6. ASSUME OnlyOnce(p), OnlyOnce(q), ToSet(p) \cap ToSet(q) = {} PROVE OnlyOnce(r)
  <2> SUFFICES ASSUME NEW k \in DOMAIN r, NEW l \in DOMAIN r, r[k] = r[l]
               PROVE  k = l
    BY DEF OnlyOnce
  <2>1. k \in Int /\ l \in Int /\ m \in Int
    BY <1>1
  <2>2. \A i \in DOMAIN p, j \in DOMAIN q : p[i] # q[j]
    BY <1>6 DEF ToSet
  <2>3. CASE k \in DOMAIN p /\ l \in DOMAIN p
    BY <1>2, <1>6, <2>3 DEF OnlyOnce
  <2>4. CASE k \notin DOMAIN p /\ l \notin DOMAIN p
    <3>1. k - m = l - m
      BY <1>4, <1>6, <2>4 DEF OnlyOnce
    <3>. QED
      BY <2>1, <3>1
  <2>5. CASE (k \in DOMAIN p) # (l \in DOMAIN p)
    BY <1>4, <2>2, <2>5
  <2>. QED
    BY <2>3, <2>4, <2>5
<1>. QED
  BY <1>1, <1>5, <1>6 DEF r

\* A sequence cut in two.
LEMMA CutFacts ==
    ASSUME NEW S, NEW q \in Seq(S), NEW k \in Nat, k <= Len(q)
    PROVE  LET p == SubSeq(q, 1, k)
               r == SubSeq(q, k + 1, Len(q))
           IN  /\ p \in Seq(S) /\ r \in Seq(S)
               /\ ToSet(p) \cup ToSet(r) \subseteq ToSet(q)
               /\ OnlyOnce(q) => /\ OnlyOnce(p) /\ OnlyOnce(r)
                                 /\ ToSet(p) \cap ToSet(r) = {}
<1> DEFINE p == SubSeq(q, 1, k)
           r == SubSeq(q, k + 1, Len(q))
           n == Len(q)
<1>1. n \in Nat /\ DOMAIN q = 1 .. n /\ \A i \in 1 .. n : q[i] \in S
  BY SeqFacts
<1>2. /\ p \in Seq(S)
      /\ Len(p) = IF 1 <= k THEN k - 1 + 1 ELSE 0
      /\ \A i \in 1 .. k - 1 + 1 : p[i] = q[1 + i - 1]
  <2>1. 1 \in Int /\ k \in Int /\ \A i \in 1 .. k : q[i] \in S
    BY <1>1
  <2>. QED
    BY <2>1, SubSeqProperties
<1>3. /\ r \in Seq(S)
      /\ Len(r) = IF k + 1 <= n THEN n - (k + 1) + 1 ELSE 0
      /\ \A i \in 1 .. n - (k + 1) + 1 : r[i] = q[(k + 1) + i - 1]
  <2>1. k + 1 \in Int /\ n \in Int /\ \A i \in k + 1 .. n : q[i] \in S
    BY <1>1
  <2>. QED
    BY <2>1, SubSeqProperties
<1>4. DOMAIN p = 1 .. Len(p) /\ DOMAIN r = 1 .. Len(r)
  BY <1>2, <1>3, LenProperties
<1> HIDE DEF p, r, n
<1>5. \A i \in DOMAIN p : i \in DOMAIN q /\ p[i] = q[i] /\ i \in Int /\ i <= k
  <2> TAKE i \in DOMAIN p
  <2>1. i \in 1 .. k - 1 + 1 /\ 1 + i - 1 = i /\ i \in 1 .. n
    BY <1>1, <1>2, <1>4 DEF n
  <2>. QED
    BY <1>1, <1>2, <2>1
<1>6. \A i \in DOMAIN r : i + k \in DOMAIN q /\ r[i] = q[i + k] /\ i \in Int /\ i + k > k
  <2> TAKE i \in DOMAIN r
  <2>1. i \in 1 .. n - (k + 1) + 1 /\ (k + 1) + i - 1 = i + k /\ i + k \in 1 .. n
    BY <1>1, <1>3, <1>4
  <2>. QED
    BY <1>1, <1>3, <2>1
<1>7. ToSet(p) \cup ToSet(r) \subseteq ToSet(q)
  BY <1>5, <1>6 DEF ToSet
<1>8. ASSUME OnlyOnce(q) PROVE OnlyOnce(p) /\ OnlyOnce(r) /\ ToSet(p) \cap ToSet(r) = {}
  <2>1. OnlyOnce(p)
    BY <1>5, <1>8 DEF OnlyOnce
  <2>2. OnlyOnce(r)
    <3> SUFFICES ASSUME NEW i \in DOMAIN r, NEW j \in DOMAIN r, r[i] = r[j] PROVE i = j
      BY DEF OnlyOnce
    <3>1. i + k = j + k
      BY <1>6, <1>8 DEF OnlyOnce
    <3>. QED
      BY <1>6, <3>1
  <2>3. \A i \in DOMAIN p, j \in DOMAIN r : p[i] # r[j]
    <3> TAKE i \in DOMAIN p, j \in DOMAIN r
    <3>1. i # j + k
      BY <1>5, <1>6
    <3>. QED
      BY <1>5, <1>6, <1>8, <3>1 DEF OnlyOnce
  <2>4. ToSet(p) \cap ToSet(r) = {}
    BY <2>3 DEF ToSet
  <2>. QED
    BY <2>1, <2>2, <2>4
<1>. QED
  BY <1>2, <1>3, <1>7, <1>8 DEF p, r, n

\* What is left of the candidate is in it, and not among what is drawn.
LEMMA LeftoverFacts ==
    ASSUME TxInv, NEW D \in SUBSET DOMAIN candidate, NEW rest \in Leftovers(D)
    PROVE  /\ rest \in Seq(Txs)
           /\ ToSet(rest) \subseteq ToSet(candidate)
           /\ ToSet(rest) \cap {candidate[k] : k \in D} = {}
           /\ OnlyOnce(rest)
<1> DEFINE R == DOMAIN candidate \ D
           n == Cardinality(R)
<1>1. candidate \in Seq(Txs) /\ OnlyOnce(candidate)
  BY DEF TxInv
<1>2. /\ DOMAIN candidate = 1 .. Len(candidate) /\ Len(candidate) \in Nat
      /\ \A k \in DOMAIN candidate : candidate[k] \in Txs
  BY <1>1, SeqFacts
<1>3. IsFiniteSet(R)
  <2>1. \A m \in Nat : IsFiniteSet(1 .. m)
    BY FS_Interval
  <2>. QED
    BY <1>2, <2>1, FS_Subset
<1>4. n \in Nat
  BY <1>3, FS_CardinalityType
<1>5. PICK at \in SetToSeqs(R) : rest = [k \in DOMAIN at |-> candidate[at[k]]]
  BY DEF Leftovers
<1> HIDE DEF R
<1>6. at \in [1 .. n -> R] /\ \A k, l \in 1 .. n : k # l => at[k] # at[l]
  BY <1>5 DEF SetToSeqs
<1> HIDE DEF n
<1>7. /\ DOMAIN rest = 1 .. n
      /\ \A k \in 1 .. n : rest[k] = candidate[at[k]] /\ at[k] \in DOMAIN candidate \ D
  BY <1>5, <1>6 DEF R
<1>8. rest \in Seq(Txs)
  <2>1. rest \in [1 .. n -> Txs]
    BY <1>2, <1>5, <1>6, <1>7
  <2>. QED
    BY <1>4, <2>1, SeqDef
<1>9. ToSet(rest) \subseteq ToSet(candidate)
  BY <1>7 DEF ToSet
<1>10. ToSet(rest) \cap {candidate[k] : k \in D} = {}
  <2>1. \A k \in 1 .. n, d \in D : rest[k] # candidate[d]
    BY <1>1, <1>7 DEF OnlyOnce
  <2>. QED
    BY <1>7, <2>1 DEF ToSet
<1>11. OnlyOnce(rest)
  BY <1>1, <1>6, <1>7 DEF OnlyOnce
<1>. QED
  BY <1>8, <1>9, <1>10, <1>11

LEMMA SelectKeepsTx ==
    ASSUME TxInv, SelectRandomTx
    PROVE  TxInv'
<1> USE DEF runVars, acsVars, outVars
<1>1. PICK D \in SUBSET DOMAIN candidate :
         /\ contribution' = {candidate[k] : k \in D}
         /\ \E rest \in Leftovers(D) : txQueue' = txQueue \o rest
  BY DEF SelectRandomTx, kSubset
<1>2. PICK rest \in Leftovers(D) : txQueue' = txQueue \o rest
  BY <1>1
<1>3. /\ rest \in Seq(Txs)
      /\ ToSet(rest) \subseteq ToSet(candidate)
      /\ ToSet(rest) \cap contribution' = {}
      /\ OnlyOnce(rest)
  BY <1>1, LeftoverFacts
<1>4. contribution' \subseteq ToSet(candidate)
  BY <1>1 DEF ToSet
<1>5. /\ txQueue \in Seq(Txs) /\ ToSet(candidate) \subseteq Txs
      /\ OnlyOnce(txQueue) /\ PlacesApart
  BY SeqFacts DEF TxInv
<1>6. /\ txQueue' \in Seq(Txs)
      /\ ToSet(txQueue') = ToSet(txQueue) \cup ToSet(rest)
      /\ OnlyOnce(txQueue')
  <2>1. ToSet(txQueue) \cap ToSet(rest) = {}
    BY <1>3, <1>5 DEF PlacesApart
  <2>. QED
    BY <1>2, <1>3, <1>5, <2>1, ConcatFacts
<1>7. /\ candidate' = <<>> /\ routinePc' = "hand"
      /\ UNCHANGED <<queueStop, runPc, job, onConsensus, hbStop, acsInput, lost, acsDone,
                     batchChan, results>>
  BY DEF SelectRandomTx
<1>8. candidate' \in Seq(Txs) /\ ToSet(candidate') = {} /\ OnlyOnce(candidate')
  BY <1>7 DEF ToSet, OnlyOnce
<1>9. PlacesApart'
  BY <1>3, <1>4, <1>5, <1>6, <1>7, <1>8 DEF PlacesApart
<1>10. (contribution \cup job \cup acsInput \cup lost)' \subseteq Txs
  BY <1>4, <1>5, <1>7 DEF TxInv
<1>11. ControlShapes'
  BY <1>7 DEF TxInv, ControlShapes
<1>. QED
  BY <1>6, <1>8, <1>9, <1>10, <1>11 DEF TxInv

LEMMA LoadKeepsTx ==
    ASSUME TxInv, LoadCandidateTx
    PROVE  TxInv'
<1> USE DEF runVars, acsVars, outVars
<1>1. /\ txQueue \in Seq(Txs) /\ OnlyOnce(txQueue) /\ PlacesApart
      /\ Len(txQueue) \in Nat
  BY SeqFacts DEF TxInv
<1>2. CandidateSize \in Nat /\ CandidateSize <= Len(txQueue)
  BY <1>1, SizeAssumption DEF CandidateSize
<1>3. /\ candidate' = SubSeq(txQueue, 1, CandidateSize)
      /\ txQueue' = SubSeq(txQueue, CandidateSize + 1, Len(txQueue))
      /\ routinePc' = "select"
      /\ UNCHANGED <<contribution, queueStop, runPc, job, onConsensus, hbStop, acsInput,
                     lost, acsDone, batchChan, results>>
  BY DEF LoadCandidateTx
<1> HIDE DEF CandidateSize
<1>4. /\ candidate' \in Seq(Txs) /\ txQueue' \in Seq(Txs)
      /\ ToSet(candidate') \cup ToSet(txQueue') \subseteq ToSet(txQueue)
      /\ OnlyOnce(candidate') /\ OnlyOnce(txQueue')
      /\ ToSet(candidate') \cap ToSet(txQueue') = {}
  BY <1>1, <1>2, <1>3, CutFacts
<1>5. PlacesApart'
  BY <1>1, <1>3, <1>4 DEF PlacesApart
<1>6. ControlShapes'
  BY <1>3 DEF TxInv, ControlShapes
<1>. QED
  BY <1>3, <1>4, <1>5, <1>6 DEF TxInv

LEMMA AddKeepsTx ==
    ASSUME TxInv, NEW tx \in Txs, AddTransaction(tx)
    PROVE  TxInv'
<1> USE DEF runVars, acsVars, outVars
<1> DEFINE e == <<tx>>
<1>1. /\ txQueue \in Seq(Txs) /\ OnlyOnce(txQueue) /\ PlacesApart
      /\ tx \notin Submitted /\ txQueue' = txQueue \o e
  BY AppendIsConcat DEF TxInv, AddTransaction
<1>2. e \in Seq(Txs) /\ ToSet(e) = {tx} /\ OnlyOnce(e)
  BY DEF ToSet, OnlyOnce
<1> HIDE DEF e
<1>3. UNCHANGED <<candidate, routinePc, contribution, queueStop, runPc, job, onConsensus,
                  hbStop, acsInput, lost, acsDone, batchChan, results>>
  BY DEF AddTransaction
<1>4. /\ txQueue' \in Seq(Txs)
      /\ ToSet(txQueue') = ToSet(txQueue) \cup {tx}
      /\ OnlyOnce(txQueue')
  <2>1. ToSet(txQueue) \cap ToSet(e) = {}
    BY <1>1, <1>2 DEF Submitted
  <2>. QED
    BY <1>1, <1>2, <2>1, ConcatFacts
<1>5. PlacesApart'
  BY <1>1, <1>3, <1>4 DEF PlacesApart, Submitted
<1>6. ControlShapes'
  BY <1>3 DEF TxInv, ControlShapes
<1>7. OnlyOnce(candidate)' /\ candidate' \in Seq(Txs)
  BY <1>3 DEF TxInv, OnlyOnce
<1>. QED
  BY <1>3, <1>4, <1>5, <1>6, <1>7 DEF TxInv

\* Where neither the queue nor the candidate changes, sets move as a whole.
LEMMA MoveKeepsTx ==
    ASSUME TxInv, ControlShapes', UNCHANGED <<txQueue, candidate>>,
           \/ UNCHANGED <<contribution, job, acsInput, lost>>
           \/ /\ contribution' = {} /\ job' = contribution
              /\ UNCHANGED <<acsInput, lost>>
           \/ /\ job' = {} /\ UNCHANGED contribution
              /\ \/ acsInput = {} /\ acsInput' = job /\ UNCHANGED lost
                 \/ lost' = lost \cup job /\ UNCHANGED acsInput
    PROVE  TxInv'
<1>1. PlacesApart'
  BY DEF TxInv, PlacesApart
<1>2. (contribution \cup job \cup acsInput \cup lost)' \subseteq Txs
  BY DEF TxInv
<1>3. OnlyOnce(txQueue)' /\ OnlyOnce(candidate)'
  BY DEF TxInv, OnlyOnce
<1>. QED
  BY <1>1, <1>2, <1>3 DEF TxInv

LEMMA RunKeepsTx ==
    ASSUME TxInv, RunTest \/ StartConsensus \/ Propose \/ HandleBatchMessage \/ FinConsensus
    PROVE  TxInv'
<1> USE DEF queueVars, runVars, acsVars, outVars
<1>1. ControlShapes
  BY DEF TxInv
<1>2. CASE RunTest \/ StartConsensus \/ FinConsensus
  <2>1. UNCHANGED <<txQueue, candidate, contribution, job, acsInput, lost>>
    BY <1>2 DEF RunTest, StartConsensus, FinConsensus
  <2>2. ControlShapes'
    BY <1>1, <1>2 DEF RunTest, StartConsensus, FinConsensus, ControlShapes
  <2>. QED
    BY <2>1, <2>2, MoveKeepsTx
<1>3. CASE Propose
  <2>1. ControlShapes'
    BY <1>1, <1>3 DEF Propose, ControlShapes
  <2>. QED
    BY <1>3, <2>1, MoveKeepsTx DEF Propose
<1>4. CASE HandleBatchMessage
  <2>1. /\ batchChan \in Seq(SUBSET Txs) /\ batchChan # <<>>
        /\ results \in Seq(SUBSET Txs)
        /\ results' = Append(results, Head(batchChan))
        /\ batchChan' = Tail(batchChan)
        /\ runPc' = "fin"
        /\ UNCHANGED <<routinePc, queueStop, onConsensus, hbStop, acsDone>>
    BY <1>1, <1>4 DEF HandleBatchMessage, ControlShapes
  <2>2. Head(batchChan) \in SUBSET Txs /\ batchChan' \in Seq(SUBSET Txs)
    BY <2>1, HeadTailProperties
  <2>3. results' \in Seq(SUBSET Txs)
    BY <2>1, <2>2, AppendProperties
  <2>4. ControlShapes'
    BY <1>1, <2>1, <2>2, <2>3 DEF ControlShapes
  <2>5. UNCHANGED <<txQueue, candidate, contribution, job, acsInput, lost>>
    BY <1>4 DEF HandleBatchMessage
  <2>. QED
    BY <2>4, <2>5, MoveKeepsTx
<1>. QED
  BY <1>2, <1>3, <1>4

LEMMA StepKeepsTx == TxInv /\ [Next]_vars => TxInv'
<1> SUFFICES ASSUME TxInv, [Next]_vars PROVE TxInv'
  OBVIOUS
<1> USE DEF queueVars, runVars, acsVars, outVars
<1>1. ControlShapes
  BY DEF TxInv
<1>2. ASSUME UNCHANGED <<queueVars, runVars, outVars>> PROVE TxInv'
  BY <1>1, <1>2, MoveKeepsTx DEF ControlShapes
<1>3. CASE UNCHANGED vars
  BY <1>2, <1>3 DEF vars
<1>4. ASSUME NEW g \in Callers, GetACS(g) PROVE TxInv'
  BY <1>2, <1>4 DEF GetACS, ReadRace, FindOrCreate, SaveTest, SaveWrite
<1>5. ASSUME NEW c \in Conns, ConnStep(c) PROVE TxInv'
  BY <1>2, <1>4, <1>5 DEF ConnStep, HandleMessage, MessageHandled, Callers
<1>6. CASE RunStep
  BY <1>4, <1>6, RunKeepsTx DEF RunStep, Callers
<1>7. CASE RoutineEnds \/ CloseQueue \/ CloseHoneyBadger
  <2>1. UNCHANGED <<txQueue, candidate, contribution, job, acsInput, lost>>
    BY <1>7 DEF RoutineEnds, CloseQueue, CloseHoneyBadger
  <2>2. ControlShapes'
    BY <1>1, <1>7 DEF RoutineEnds, CloseQueue, CloseHoneyBadger, ControlShapes
  <2>. QED
    BY <2>1, <2>2, MoveKeepsTx
<1>8. CASE HandleContribution
  <2>1. ControlShapes'
    BY <1>1, <1>8 DEF HandleContribution, ControlShapes
  <2>. QED
    BY <1>8, <2>1, MoveKeepsTx DEF HandleContribution
<1>9. CASE CompleteACS
  <2>1. PICK own \in {{}, acsInput} : batchChan' = Append(batchChan, own)
    BY <1>9 DEF CompleteACS
  <2>2. batchChan' \in Seq(SUBSET Txs)
    <3>1. own \in SUBSET Txs /\ batchChan \in Seq(SUBSET Txs)
      BY DEF TxInv, ControlShapes
    <3>. QED
      BY <2>1, <3>1, AppendProperties
  <2>3. ControlShapes'
    BY <1>1, <1>9, <2>2 DEF CompleteACS, ControlShapes
  <2>4. UNCHANGED <<txQueue, candidate, contribution, job, acsInput, lost>>
    BY <1>9 DEF CompleteACS
  <2>. QED
    BY <2>3, <2>4, MoveKeepsTx
<1>. QED
  BY <1>3, <1>5, <1>6, <1>7, <1>8, <1>9, AddKeepsTx, LoadKeepsTx, SelectKeepsTx
     DEF Next, RoutineStep

\* Every submitted transaction is in one place, whatever is added while others are
\* polled, drawn and pushed back (queue.go: createContribution, selectRandomTx).
THEOREM TypeCorrect == Spec => []TypeOK
<1>1. Init => TxInv /\ InstanceInv
  <2> SUFFICES ASSUME Init PROVE TxInv /\ InstanceInv
    OBVIOUS
  <2>1. /\ \A S : <<>> \in Seq(S)
        /\ ToSet(<<>>) = {} /\ OnlyOnce(<<>>)
    BY DEF ToSet, OnlyOnce
  <2>2. TxInv
    BY <2>1 DEF Init, TxInv, ControlShapes, PlacesApart
  <2>. QED
    BY <2>2 DEF Init, InstanceInv, WriteAlone, OneInstance, GetPcs
<1>2. TxInv /\ InstanceInv => TypeOK
  <2> SUFFICES ASSUME TxInv, InstanceInv PROVE TypeOK
    OBVIOUS
  <2>1. IsInjective(txQueue \o candidate)
    <3>1. OnlyOnce(txQueue \o candidate)
      BY ConcatFacts DEF TxInv, PlacesApart
    <3>. QED
      BY <3>1 DEF OnlyOnce, IsInjective
  <2>2. DOMAIN Places = 1 .. 6
    BY DEF Places
  <2>3. /\ Places[1] = ToSet(txQueue) /\ Places[2] = ToSet(candidate)
        /\ Places[3] = contribution /\ Places[4] = job
        /\ Places[5] = acsInput /\ Places[6] = lost
    BY DEF Places
  <2>4. ToSet(txQueue) \subseteq Txs /\ ToSet(candidate) \subseteq Txs
    BY SeqFacts DEF TxInv
  <2>5. \A x \in 1 .. 6 : Places[x] \subseteq Txs
    <3>1. \A x \in 1 .. 6 : x \in {1, 2, 3, 4, 5, 6}
      OBVIOUS
    <3>. QED
      BY <2>3, <2>4, <3>1 DEF TxInv
  <2>6. \A x, y \in 1 .. 6 : x < y => Places[x] \cap Places[y] = {}
    <3>1. \A x, y \in 1 .. 6 : x < y =>
             <<x, y>> \in {<<1, 2>>, <<1, 3>>, <<1, 4>>, <<1, 5>>, <<1, 6>>,
                           <<2, 3>>, <<2, 4>>, <<2, 5>>, <<2, 6>>,
                           <<3, 4>>, <<3, 5>>, <<3, 6>>,
                           <<4, 5>>, <<4, 6>>, <<5, 6>>}
      OBVIOUS
    <3>2. PlacesApart
      BY DEF TxInv
    <3>. QED
      BY <2>3, <3>1, <3>2 DEF PlacesApart
  <2>7. \A x, y \in 1 .. 6 : x # y => Places[x] \cap Places[y] = {}
    <3> SUFFICES ASSUME NEW x \in 1 .. 6, NEW y \in 1 .. 6, x # y
                 PROVE  Places[x] \cap Places[y] = {}
      OBVIOUS
    <3>1. x < y \/ y < x
      OBVIOUS
    <3>. QED
      BY <2>6, <3>1
  <2>. QED
    BY <2>1, <2>2, <2>5, <2>7
       DEF TypeOK, TxInv, ControlShapes, InstanceInv, GetPcs
<1>3. (TxInv /\ InstanceInv) /\ [Next]_vars => (TxInv /\ InstanceInv)'
  BY StepKeepsTx, StepKeepsInstance
<1>. QED
  BY <1>1, <1>2, <1>3, PTL DEF Spec
=============================================================================
