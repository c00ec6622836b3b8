-------------------------- MODULE ReplayJobsProofs --------------------------
(***************************************************************************)
(* TLAPS proofs about ReplayJobs, for any number of jobs, workers, rows,   *)
(* faults, and any batch size, record cap and attempt limit.               *)
(***************************************************************************)
EXTENDS ReplayJobs, FiniteSetTheorems, TLAPS

(* A set of stored rows that no other stored row precedes.                 *)
Prefix(rows) == rows \in SUBSET ledger /\ \A r \in rows, x \in ledger : x < r => x \in rows

(* Where a worker is in its loop.                                          *)
LoopShape(w) ==
  /\ wpc[w] \in {"check", "load"} => batch[w] = {} /\ try[w] = 1 /\ offset[w] < MaxRecords
  /\ wpc[w] = "publish" => batch[w] # {}
  /\ wpc[w] = "publish" /\ more[w] => offset[w] < MaxRecords
  /\ wpc[w] = "complete" => batch[w] = {} /\ ~more[w]

(* The records a job may still append are paid for by the rows of the      *)
(* current batch and the attempts of the current row.                      *)
AppendBudget(w) ==
  LET j == wjob[w] IN
  /\ wpc[w] \in {"check", "load"} => appended[j] <= PublishMaxAttempts * offset[w]
  /\ wpc[w] = "publish" =>
       appended[j] + PublishMaxAttempts * Cardinality(batch[w])
         <= PublishMaxAttempts * offset[w] + (try[w] - 1)

(* The same for the records appended after the job was canceled: only the  *)
(* batch that was read before the cancellation was seen counts.            *)
LateBudget(w) ==
  LET j == wjob[w] IN
  /\ wpc[w] = "load" => late[j] = 0
  /\ wpc[w] = "publish" =>
       late[j] + PublishMaxAttempts * Cardinality(batch[w])
         <= PublishMaxAttempts * EffectiveBatchSize + (try[w] - 1)

Unpublished ==
  \A j \in Jobs :
    /\ status[j] \in {"absent", "queued"} => appended[j] = 0
    /\ status[j] \in {"absent", "queued", "running"} => late[j] = 0

(* What has been scanned has been sent or waits in the batch, for every    *)
(* set of rows that can now be the first offset rows of the window.        *)
ScanCovers(w) ==
  LET j == wjob[w] IN
  /\ before[j] \subseteq ledger
  /\ wpc[w] \in {"check", "load", "publish"} =>
       \A rows \in SUBSET ledger :
         Prefix(rows) /\ Cardinality(rows) <= offset[w] =>
           rows \cap before[j] \subseteq sent[j] \cup batch[w]
  /\ wpc[w] \in {"publish", "complete"} /\ ~more[w] =>
       offset[w] = MaxRecords \/ before[j] \subseteq sent[j] \cup batch[w]

WorkerInv(w) == LoopShape(w) /\ AppendBudget(w) /\ LateBudget(w) /\ ScanCovers(w)

JobInv == Unpublished /\ BoundedAmplification /\ CancelStopsPublishing /\ SucceededIsComplete

Inv ==
  /\ TypeOK
  /\ OneExecutor
  /\ JobInv
  /\ \A w \in Workers : Working(w) => WorkerInv(w)

-----------------------------------------------------------------------------
(* Arithmetic of the budgets.                                              *)
LEMMA Product ==
  ASSUME NEW a \in Nat, NEW b \in Nat, NEW c \in Nat
  PROVE  /\ a * b \in Nat
         /\ b <= c => a * b <= a * c
         /\ a * (b + 1) = a * b + a
         /\ a * (b + c) = a * b + a * c
         /\ a * b = b * a
         /\ a * 0 = 0
BY SMT

LEMMA FiniteRows ==
  ASSUME NEW S \in SUBSET Rows
  PROVE  IsFiniteSet(S) /\ Cardinality(S) \in Nat
<1>1. IsFiniteSet(Rows)
  BY FS_Interval, ConstantsAssumption DEF Rows
<1>2. IsFiniteSet(S)
  BY <1>1, FS_Subset
<1> QED BY <1>2, FS_CardinalityType

LEMMA BatchFacts ==
  /\ EffectiveBatchSize \in Nat \ {0}
  /\ EffectiveBatchSize <= MaxRecords
BY ConstantsAssumption DEF EffectiveBatchSize

LEMMA LimitFacts ==
  ASSUME NEW w \in Workers, offset[w] \in 0..MaxRecords, offset[w] < MaxRecords
  PROVE  /\ Limit(w) \in Nat \ {0}
         /\ Limit(w) <= EffectiveBatchSize
         /\ offset[w] + Limit(w) <= MaxRecords
BY BatchFacts, ConstantsAssumption DEF Limit

(* Of two prefixes one contains the other.                                 *)
LEMMA PrefixesAreOrdered ==
  ASSUME ledger \in SUBSET Rows, NEW S, NEW T, Prefix(S), Prefix(T), ~(S \subseteq T)
  PROVE  T \subseteq S
<1>1. PICK s \in S : s \notin T
  OBVIOUS
<1>2. ASSUME NEW t \in T PROVE t \in S
  <2>1. s \in Nat /\ t \in Nat /\ s \in ledger /\ t \in ledger
    BY <1>1, <1>2 DEF Prefix, Rows
  <2>2. ~(s < t) /\ s # t
    BY <1>1, <1>2, <2>1 DEF Prefix
  <2>3. t < s
    BY <2>1, <2>2
  <2> QED BY <1>1, <2>1, <2>3 DEF Prefix
<1> QED BY <1>2

(* A page, with the rows its OFFSET skips, covers every prefix that is not *)
(* longer than the two together; a short page reaches the end.             *)
LEMMA PageFacts ==
  ASSUME ledger \in SUBSET Rows, NEW o \in Nat, NEW n \in Nat, NEW rows \in Pages(o, n)
  PROVE  /\ rows \in SUBSET ledger
         /\ Cardinality(rows) \in 0..n
         /\ \E skipped \in SUBSET ledger :
              /\ Prefix(skipped)
              /\ Cardinality(skipped) <= o
              /\ Cardinality(rows) < n => ledger \subseteq skipped \cup rows
              /\ \A S \in SUBSET ledger :
                   Prefix(S) /\ Cardinality(S) <= o + Cardinality(rows) => S \subseteq skipped \cup rows
<1>1. PICK skipped \in SUBSET ledger, read \in SUBSET ledger :
        IsFirst(skipped, o) /\ IsFirst(read, o + n) /\ rows = read \ skipped
  BY DEF Pages
<1>2. Prefix(skipped) /\ Prefix(read)
  BY <1>1 DEF Prefix, IsFirst
<1>3. /\ IsFiniteSet(ledger) /\ IsFiniteSet(skipped) /\ IsFiniteSet(read) /\ IsFiniteSet(rows)
      /\ Cardinality(ledger) \in Nat /\ Cardinality(skipped) \in Nat
      /\ Cardinality(read) \in Nat /\ Cardinality(rows) \in Nat
  BY <1>1, FiniteRows
<1>4. /\ Cardinality(skipped) = IF o < Cardinality(ledger) THEN o ELSE Cardinality(ledger)
      /\ Cardinality(read) = IF o + n < Cardinality(ledger) THEN o + n ELSE Cardinality(ledger)
  BY <1>1 DEF IsFirst
<1>5. Cardinality(skipped) <= Cardinality(read)
  BY <1>3, <1>4
<1>6. skipped \subseteq read
  <2>1. CASE read \subseteq skipped
    <3>1. Cardinality(read) <= Cardinality(skipped)
      BY <2>1, <1>3, FS_Subset
    <3>2. Cardinality(skipped) = Cardinality(read)
      BY <3>1, <1>3, <1>5
    <3>3. skipped = read
      BY <2>1, <3>2, <1>3, FS_Subset
    <3> QED BY <3>3
  <2> QED BY <2>1, <1>2, PrefixesAreOrdered
<1>7. Cardinality(read) = Cardinality(skipped) + Cardinality(rows)
  <2>1. Cardinality(skipped \cup rows) = Cardinality(skipped) + Cardinality(rows) - Cardinality(skipped \cap rows)
    BY <1>3, FS_Union
  <2>2. skipped \cup rows = read
    BY <1>1, <1>6
  <2>3. skipped \cap rows = {}
    BY <1>1
  <2>4. Cardinality(read) = Cardinality(skipped) + Cardinality(rows) - 0
    BY <2>1, <2>2, <2>3, FS_EmptySet, Zenon
  <2> QED BY <2>4, <1>3
<1>8. Cardinality(rows) \in 0..n
  BY <1>3, <1>4, <1>7
<1>9. ASSUME Cardinality(rows) < n PROVE ledger \subseteq skipped \cup rows
  <2>1. Cardinality(read) = Cardinality(ledger)
    BY <1>3, <1>4, <1>7, <1>9
  <2>2. read = ledger
    BY <2>1, <1>3, FS_Subset
  <2> QED BY <2>2, <1>1
<1>10. ASSUME NEW S \in SUBSET ledger, Prefix(S), Cardinality(S) <= o + Cardinality(rows)
       PROVE  S \subseteq skipped \cup rows
  <2>1. IsFiniteSet(S) /\ Cardinality(S) \in Nat
    BY FiniteRows
  <2>2. CASE S \subseteq read
    BY <2>2, <1>1
  <2>3. CASE ~(S \subseteq read)
    <3>1. read \subseteq S
      BY <2>3, <1>2, <1>10, PrefixesAreOrdered
    <3>2. Cardinality(read) <= Cardinality(S) /\ Cardinality(read) # Cardinality(S)
      BY <3>1, <2>1, <2>3, FS_Subset
    <3>3. Cardinality(S) <= Cardinality(ledger)
      BY <1>3, FS_Subset
    <3>4. Cardinality(skipped) = o
      BY <3>2, <3>3, <2>1, <1>3, <1>4
    <3> QED BY <3>2, <3>4, <2>1, <1>3, <1>7, <1>10
  <2> QED BY <2>2, <2>3
<1>11. Cardinality(skipped) <= o
  BY <1>3, <1>4
<1> QED BY <1>1, <1>2, <1>8, <1>9, <1>10, <1>11

-----------------------------------------------------------------------------
LEMMA InitInv == Init => Inv
<1> SUFFICES ASSUME Init PROVE Inv
  OBVIOUS
<1>1. TypeOK
  BY ConstantsAssumption DEF Init, TypeOK, JobsOK, WorkersOK, Statuses, WorkerSteps
<1>2. OneExecutor
  BY DEF Init, OneExecutor, Working
<1>3. Unpublished /\ SucceededIsComplete
  BY DEF Init, Unpublished, SucceededIsComplete
<1>4. BoundedAmplification /\ CancelStopsPublishing
  <2>1. 0 <= MaxRecords * PublishMaxAttempts /\ 0 <= EffectiveBatchSize * PublishMaxAttempts
    BY Product, BatchFacts, ConstantsAssumption
  <2> QED BY <2>1 DEF Init, BoundedAmplification, CancelStopsPublishing
<1>5. \A w \in Workers : ~Working(w)
  BY DEF Init, Working
<1> QED BY <1>1, <1>2, <1>3, <1>4, <1>5 DEF Inv, JobInv

(* A step of somebody else: the worker's own state and the counters of its *)
(* job are as before, rows may have arrived.                               *)
LEMMA Frame ==
  ASSUME TypeOK, ledger' \in SUBSET Rows, ledger \subseteq ledger',
         NEW v \in Workers, WorkerInv(v),
         wpc'[v] = wpc[v], wjob'[v] = wjob[v], batch'[v] = batch[v],
         offset'[v] = offset[v], more'[v] = more[v], try'[v] = try[v],
         appended'[wjob[v]] = appended[wjob[v]], late'[wjob[v]] = late[wjob[v]],
         before'[wjob[v]] = before[wjob[v]], sent[wjob[v]] \subseteq sent'[wjob[v]]
  PROVE  WorkerInv(v)'
<1>1. LoopShape(v)' /\ AppendBudget(v)' /\ LateBudget(v)'
  BY DEF WorkerInv, LoopShape, AppendBudget, LateBudget, EffectiveBatchSize
<1>2. ScanCovers(v)'
  <2> DEFINE j == wjob[v]
  <2>1. before[j] \subseteq ledger
    BY DEF WorkerInv, ScanCovers
  <2>2. offset[v] \in Nat
    BY DEF TypeOK, WorkersOK
  <2>3. ASSUME wpc[v] \in {"check", "load", "publish"},
               NEW rows \in SUBSET ledger', Prefix(rows)', Cardinality(rows) <= offset[v]
        PROVE  rows \cap before[j] \subseteq sent'[j] \cup batch[v]
    <3> DEFINE S == rows \cap ledger
    <3>1. Prefix(S)
      BY <2>3 DEF Prefix
    <3>2. Cardinality(S) \in Nat /\ Cardinality(rows) \in Nat /\ Cardinality(S) <= Cardinality(rows)
      BY FiniteRows, FS_Subset
    <3>3. Cardinality(S) <= offset[v]
      BY <2>2, <2>3, <3>2
    <3>4. S \cap before[j] \subseteq sent[j] \cup batch[v]
      BY <2>3, <3>1, <3>3 DEF WorkerInv, ScanCovers
    <3> QED BY <2>1, <3>4
  <2>4. wpc[v] \in {"publish", "complete"} /\ ~more[v] =>
          offset[v] = MaxRecords \/ before[j] \subseteq sent'[j] \cup batch[v]
    BY DEF WorkerInv, ScanCovers
  <2> QED BY <2>1, <2>3, <2>4 DEF ScanCovers
<1> QED BY <1>1, <1>2 DEF WorkerInv

(* The same for every worker but w, in a step of w on the job it holds.    *)
LEMMA OthersKeep ==
  ASSUME Inv, NEW w \in Workers, Working(w), UNCHANGED <<ledger, wjob, before>>,
         \A v \in Workers \ {w} :
           /\ wpc'[v] = wpc[v] /\ batch'[v] = batch[v] /\ offset'[v] = offset[v]
           /\ more'[v] = more[v] /\ try'[v] = try[v],
         \A j \in Jobs \ {wjob[w]} :
           appended'[j] = appended[j] /\ late'[j] = late[j] /\ sent'[j] = sent[j]
  PROVE  \A v \in Workers \ {w} : Working(v)' => WorkerInv(v)'
<1> SUFFICES ASSUME NEW v \in Workers \ {w}, Working(v)' PROVE WorkerInv(v)'
  OBVIOUS
<1>1. Working(v)
  BY DEF Working
<1>2. wjob[v] \in Jobs \ {wjob[w]}
  BY <1>1 DEF Inv, OneExecutor, TypeOK, WorkersOK
<1>3. TypeOK /\ WorkerInv(v) /\ ledger' \in SUBSET Rows
  BY <1>1 DEF Inv, TypeOK, JobsOK
<1> QED BY <1>2, <1>3, Frame

(* A step that keeps the executors and the status of every job executed.   *)
LEMMA ExecutorsKeep ==
  ASSUME OneExecutor, UNCHANGED wjob,
         \A v \in Workers : Working(v)' => Working(v) /\ status'[wjob[v]] \in {"running", "canceled"}
  PROVE  OneExecutor'
BY DEF OneExecutor

(* A step of w that appends nothing and touches no job row.                *)
LEMMA QuietStep ==
  ASSUME Inv, NEW w \in Workers, Working(w),
         UNCHANGED <<ledger, jobVars, wjob, topicVars, before>>, TypeOK',
         \A v \in Workers \ {w} :
           /\ wpc'[v] = wpc[v] /\ batch'[v] = batch[v] /\ offset'[v] = offset[v]
           /\ more'[v] = more[v] /\ try'[v] = try[v],
         Working(w)' => WorkerInv(w)'
  PROVE  Inv'
<1>1. OneExecutor'
  <2>1. ASSUME NEW v \in Workers, Working(v)' PROVE Working(v) /\ status'[wjob[v]] \in {"running", "canceled"}
    <3>1. Working(v)
      BY <2>1 DEF Working
    <3> QED BY <3>1 DEF Inv, OneExecutor, jobVars
  <2> QED BY <2>1, ExecutorsKeep DEF Inv
<1>2. JobInv'
  BY DEF Inv, JobInv, Unpublished, BoundedAmplification, CancelStopsPublishing, SucceededIsComplete,
     jobVars, topicVars, EffectiveBatchSize
<1>3. \A v \in Workers \ {w} : Working(v)' => WorkerInv(v)'
  BY OthersKeep DEF topicVars
<1> QED BY <1>1, <1>2, <1>3 DEF Inv

-----------------------------------------------------------------------------
LEMMA LedgerGainsInv ==
  ASSUME Inv, NEW r \in Rows, LedgerGains(r)
  PROVE  Inv'
<1> USE DEF LedgerGains, jobVars, runVars, topicVars
<1>1. TypeOK'
  BY DEF Inv, TypeOK, JobsOK, WorkersOK
<1>2. OneExecutor' /\ JobInv'
  BY DEF Inv, OneExecutor, Working, JobInv, Unpublished, BoundedAmplification, CancelStopsPublishing,
     SucceededIsComplete, EffectiveBatchSize
<1>3. ASSUME NEW v \in Workers, Working(v)' PROVE WorkerInv(v)'
  <2>1. WorkerInv(v)
    BY <1>3 DEF Inv, Working
  <2>2. TypeOK /\ ledger' \in SUBSET Rows
    BY <1>1 DEF Inv, TypeOK, JobsOK
  <2> QED BY <2>1, <2>2, Frame
<1> QED BY <1>1, <1>2, <1>3 DEF Inv

(* The gateway changes the status of a job and nothing a worker holds.     *)
LEMMA GatewayInv ==
  ASSUME Inv, NEW j \in Jobs, CreateReplayJob(j) \/ OperatorCancels(j)
  PROVE  Inv'
<1> USE DEF CreateReplayJob, OperatorCancels, Cancelable, jobVars, runVars, topicVars
<1>1. TypeOK'
  BY DEF Inv, TypeOK, JobsOK, WorkersOK, Statuses
<1>2. OneExecutor'
  BY DEF Inv, TypeOK, JobsOK, WorkersOK, OneExecutor, Working
<1>3. JobInv'
  BY DEF Inv, TypeOK, JobsOK, JobInv, Unpublished, BoundedAmplification, CancelStopsPublishing,
     SucceededIsComplete, EffectiveBatchSize
<1>4. ASSUME NEW v \in Workers, Working(v)' PROVE WorkerInv(v)'
  <2>1. WorkerInv(v)
    BY <1>4 DEF Inv, Working
  <2>2. TypeOK /\ ledger' \in SUBSET Rows
    BY <1>1 DEF Inv, TypeOK, JobsOK
  <2> QED BY <2>1, <2>2, Frame
<1> QED BY <1>1, <1>2, <1>3, <1>4 DEF Inv

LEMMA ClaimInv ==
  ASSUME Inv, NEW w \in Workers, ClaimNextReplayJob(w)
  PROVE  Inv'
<1> USE DEF ClaimNextReplayJob, Claimable, topicVars
<1>1. PICK j \in Jobs :
        /\ status[j] = "queued"
        /\ status' = [status EXCEPT ![j] = "running"]
        /\ wjob' = [wjob EXCEPT ![w] = j]
        /\ before' = [before EXCEPT ![j] = ledger]
  OBVIOUS
<1>2. TypeOK'
  BY <1>1, ConstantsAssumption DEF Inv, TypeOK, JobsOK, WorkersOK, Statuses, WorkerSteps
<1>3. ~Working(w) /\ \A v \in Workers : Working(v) => wjob[v] # j
  BY <1>1 DEF Inv, OneExecutor, Working
<1>4. \A v \in Workers \ {w} : wpc'[v] = wpc[v] /\ wjob'[v] = wjob[v]
  BY <1>1 DEF Inv, TypeOK, WorkersOK
<1>5. wpc'[w] = "check" /\ wjob'[w] = j
  BY <1>1 DEF Inv, TypeOK, WorkersOK
<1>6. OneExecutor'
  BY <1>1, <1>3, <1>4, <1>5 DEF Inv, TypeOK, JobsOK, WorkersOK, OneExecutor, Working
<1>7. JobInv'
  BY <1>1 DEF Inv, TypeOK, JobsOK, JobInv, Unpublished, BoundedAmplification, CancelStopsPublishing,
     SucceededIsComplete, EffectiveBatchSize
<1>8. WorkerInv(w)'
  <2>1. batch'[w] = {} /\ offset'[w] = 0 /\ more'[w] = FALSE /\ try'[w] = 1 /\ before'[j] = ledger
    BY <1>1 DEF Inv, TypeOK, JobsOK, WorkersOK
  <2>2. appended'[j] = 0 /\ ledger' = ledger /\ sent' = sent
    BY <1>1 DEF Inv, JobInv, Unpublished
  <2>3. LoopShape(w)'
    BY <1>5, <2>1, ConstantsAssumption DEF LoopShape
  <2>4. AppendBudget(w)'
    <3>1. 0 <= PublishMaxAttempts * 0
      BY Product, ConstantsAssumption
    <3> QED BY <1>5, <2>1, <2>2, <3>1 DEF AppendBudget
  <2>5. LateBudget(w)'
    BY <1>5 DEF LateBudget
  <2>6. ASSUME NEW rows \in SUBSET ledger, Cardinality(rows) <= 0 PROVE rows = {}
    BY <2>6, FiniteRows, FS_EmptySet DEF Inv, TypeOK, JobsOK
  <2>7. ScanCovers(w)'
    BY <1>5, <2>1, <2>2, <2>6 DEF ScanCovers
  <2> QED BY <2>3, <2>4, <2>5, <2>7 DEF WorkerInv
<1>9. ASSUME NEW v \in Workers \ {w}, Working(v)' PROVE WorkerInv(v)'
  <2>1. Working(v) /\ WorkerInv(v) /\ wjob[v] # j /\ wjob[v] \in Jobs
    BY <1>3, <1>4, <1>9 DEF Inv, Working, TypeOK, WorkersOK
  <2>2. before'[wjob[v]] = before[wjob[v]]
    BY <1>1, <2>1 DEF Inv, TypeOK, JobsOK
  <2>3. batch'[v] = batch[v] /\ offset'[v] = offset[v] /\ more'[v] = more[v] /\ try'[v] = try[v]
    BY DEF Inv, TypeOK, WorkersOK
  <2>4. TypeOK /\ ledger' \in SUBSET Rows
    BY DEF Inv, TypeOK, JobsOK
  <2> QED BY <1>4, <2>1, <2>2, <2>3, <2>4, Frame
<1> QED BY <1>2, <1>6, <1>7, <1>8, <1>9 DEF Inv

LEMMA CheckInv ==
  ASSUME Inv, NEW w \in Workers, CheckCanceled(w)
  PROVE  Inv'
<1> USE DEF CheckCanceled, Goto, runVars
<1>1. wpc[w] = "check" /\ Working(w) /\ WorkerInv(w)
  BY DEF Inv, Working
<1>2. TypeOK'
  BY DEF Inv, TypeOK, JobsOK, WorkersOK, WorkerSteps, jobVars, topicVars
<1>3. wpc'[w] = IF status[wjob[w]] = "canceled" THEN "cancel" ELSE "load"
  BY DEF Inv, TypeOK, WorkersOK
<1>4. WorkerInv(w)'
  <2>1. status[wjob[w]] # "canceled" => late[wjob[w]] = 0
    BY <1>1 DEF Inv, OneExecutor, JobInv, Unpublished, TypeOK, WorkersOK
  <2>2. LoopShape(w)' /\ AppendBudget(w)' /\ LateBudget(w)'
    BY <1>1, <1>3, <2>1 DEF WorkerInv, LoopShape, AppendBudget, LateBudget, topicVars
  <2>3. ScanCovers(w)'
    BY <1>1, <1>3 DEF WorkerInv, ScanCovers, Prefix, topicVars
  <2> QED BY <2>2, <2>3 DEF WorkerInv
<1>5. \A v \in Workers \ {w} : wpc'[v] = wpc[v]
  BY DEF Inv, TypeOK, WorkersOK
<1> QED BY <1>1, <1>2, <1>4, <1>5, QuietStep

LEMMA LoadInv ==
  ASSUME Inv, NEW w \in Workers, LoadReplayBatch(w)
  PROVE  Inv'
<1> USE DEF LoadReplayBatch, TakeBatch, Goto
<1> DEFINE j == wjob[w]
           o == offset[w]
           n == Limit(w)
<1>1. PICK rows \in Pages(o, n) :
        /\ wpc[w] = "load"
        /\ wpc' = [wpc EXCEPT ![w] = IF rows = {} THEN "complete" ELSE "publish"]
        /\ TakeBatch(w, rows)
  OBVIOUS
<1>2. Working(w) /\ WorkerInv(w)
  BY <1>1 DEF Inv, Working
<1>3. o \in 0..MaxRecords /\ o < MaxRecords /\ batch[w] = {} /\ try[w] = 1
  BY <1>1, <1>2 DEF WorkerInv, LoopShape, Inv, TypeOK, WorkersOK
<1>4. n \in Nat \ {0} /\ n <= EffectiveBatchSize /\ o + n <= MaxRecords
  BY <1>3, LimitFacts
<1>5. ledger \in SUBSET Rows
  BY DEF Inv, TypeOK, JobsOK
<1>6. rows \in SUBSET ledger /\ Cardinality(rows) \in 0..n
  BY <1>3, <1>4, <1>5, PageFacts
<1>7. TypeOK'
  <2>1. o + Cardinality(rows) \in 0..MaxRecords
    BY <1>3, <1>4, <1>6, ConstantsAssumption
  <2> QED BY <1>1, <1>5, <1>6, <2>1 DEF Inv, TypeOK, JobsOK, WorkersOK, WorkerSteps, jobVars, topicVars
<1>8. /\ wpc'[w] = IF rows = {} THEN "complete" ELSE "publish"
      /\ batch'[w] = rows /\ offset'[w] = o + Cardinality(rows) /\ try'[w] = 1 /\ wjob' = wjob
      /\ more'[w] = (Cardinality(rows) = n /\ o + Cardinality(rows) < MaxRecords)
      /\ appended' = appended /\ late' = late /\ sent' = sent /\ before' = before /\ ledger' = ledger
  BY <1>1, <1>3 DEF Inv, TypeOK, WorkersOK, topicVars
<1>9. LoopShape(w)'
  <2>1. rows = {} => Cardinality(rows) = 0
    BY FS_EmptySet
  <2> QED BY <1>3, <1>4, <1>6, <1>8, <2>1 DEF LoopShape
<1>10. AppendBudget(w)'
  <2>1. appended[j] <= PublishMaxAttempts * o /\ appended[j] \in Nat
    BY <1>1, <1>2 DEF WorkerInv, AppendBudget, Inv, TypeOK, JobsOK, WorkersOK
  <2>2. /\ PublishMaxAttempts * (o + Cardinality(rows)) = PublishMaxAttempts * o + PublishMaxAttempts * Cardinality(rows)
        /\ PublishMaxAttempts * o \in Nat /\ PublishMaxAttempts * Cardinality(rows) \in Nat
    BY <1>3, <1>6, Product, ConstantsAssumption
  <2>3. appended[j] + PublishMaxAttempts * Cardinality(rows) <= PublishMaxAttempts * (o + Cardinality(rows)) + (1 - 1)
    BY <2>1, <2>2
  <2> QED BY <1>8, <2>3 DEF AppendBudget
<1>11. LateBudget(w)'
  <2>1. late[j] = 0
    BY <1>1, <1>2 DEF WorkerInv, LateBudget
  <2>2. /\ PublishMaxAttempts * Cardinality(rows) <= PublishMaxAttempts * EffectiveBatchSize
        /\ PublishMaxAttempts * Cardinality(rows) \in Nat /\ PublishMaxAttempts * EffectiveBatchSize \in Nat
    <3>1. Cardinality(rows) \in Nat /\ Cardinality(rows) <= EffectiveBatchSize /\ EffectiveBatchSize \in Nat
      BY <1>4, <1>6, BatchFacts
    <3> QED BY <3>1, Product, ConstantsAssumption
  <2>3. late[j] + PublishMaxAttempts * Cardinality(rows) <= PublishMaxAttempts * EffectiveBatchSize + (1 - 1)
    BY <2>1, <2>2
  <2> QED BY <1>8, <2>3 DEF LateBudget, EffectiveBatchSize
<1>12. ScanCovers(w)'
  <2>1. PICK skipped \in SUBSET ledger :
          /\ Prefix(skipped)
          /\ Cardinality(skipped) <= o
          /\ Cardinality(rows) < n => ledger \subseteq skipped \cup rows
          /\ \A S \in SUBSET ledger :
               Prefix(S) /\ Cardinality(S) <= o + Cardinality(rows) => S \subseteq skipped \cup rows
    BY <1>3, <1>4, <1>5, PageFacts
  <2>2. before[j] \subseteq ledger /\ skipped \cap before[j] \subseteq sent[j]
    BY <1>1, <1>2, <1>3, <2>1 DEF WorkerInv, ScanCovers
  <2>3. ASSUME NEW S \in SUBSET ledger, Prefix(S), Cardinality(S) <= o + Cardinality(rows)
        PROVE  S \cap before[j] \subseteq sent[j] \cup rows
    BY <2>1, <2>2, <2>3
  <2>4. ASSUME ~more'[w], o + Cardinality(rows) # MaxRecords
        PROVE  before[j] \subseteq sent[j] \cup rows
    <3>1. ~(Cardinality(rows) = n /\ o + Cardinality(rows) < MaxRecords)
      BY <1>8, <2>4, Zenon
    <3>2. Cardinality(rows) < n
      BY <1>3, <1>4, <1>6, <2>4, <3>1, ConstantsAssumption
    <3> QED BY <2>1, <2>2, <3>2
  <2>5. ASSUME NEW S, Prefix(S)' PROVE Prefix(S)
    BY <1>8, <2>5 DEF Prefix
  <2> QED BY <1>8, <2>2, <2>3, <2>4, <2>5 DEF ScanCovers
<1>13. \A v \in Workers \ {w} :
          /\ wpc'[v] = wpc[v] /\ batch'[v] = batch[v] /\ offset'[v] = offset[v]
          /\ more'[v] = more[v] /\ try'[v] = try[v]
  BY <1>1 DEF Inv, TypeOK, WorkersOK
<1>14. WorkerInv(w)'
  BY <1>9, <1>10, <1>11, <1>12 DEF WorkerInv
<1> QED BY <1>1, <1>2, <1>7, <1>13, <1>14, QuietStep

(* The worker stops working on its job without appending anything.         *)
LEMMA RejectInv ==
  ASSUME Inv, NEW w \in Workers, RejectPayload(w)
  PROVE  Inv'
<1> USE DEF RejectPayload, Goto, runVars
<1>1. Working(w) /\ wpc'[w] = "fail" /\ ScanCovers(w)
  BY DEF Inv, Working, TypeOK, WorkersOK, WorkerInv
<1>2. TypeOK'
  BY DEF Inv, TypeOK, JobsOK, WorkersOK, WorkerSteps, jobVars, topicVars
<1>3. WorkerInv(w)'
  BY <1>1 DEF WorkerInv, LoopShape, AppendBudget, LateBudget, ScanCovers, topicVars
<1>4. \A v \in Workers \ {w} : wpc'[v] = wpc[v]
  BY DEF Inv, TypeOK, WorkersOK
<1> QED BY <1>1, <1>2, <1>3, <1>4, QuietStep

LEMMA ReadFailsInv ==
  ASSUME Inv, NEW w \in Workers, ReadFails(w)
  PROVE  Inv'
<1> USE DEF ReadFails, Goto, Fault, runVars
<1>1. Working(w) /\ wpc'[w] = "fail" /\ ScanCovers(w)
  BY DEF Inv, Working, TypeOK, WorkersOK, WorkerInv
<1>2. TypeOK'
  BY ConstantsAssumption DEF Inv, TypeOK, JobsOK, WorkersOK, WorkerSteps, jobVars, topicVars
<1>3. WorkerInv(w)'
  BY <1>1 DEF WorkerInv, LoopShape, AppendBudget, LateBudget, ScanCovers, topicVars
<1>4. \A v \in Workers \ {w} : wpc'[v] = wpc[v]
  BY DEF Inv, TypeOK, WorkersOK
<1> QED BY <1>1, <1>2, <1>3, <1>4, QuietStep

(* A failed or acknowledged publish appends one record, or none.           *)
LEMMA AppendTypes ==
  ASSUME TypeOK, NEW j \in Jobs, Appends(j) \/ UNCHANGED <<appended, late>>
  PROVE  /\ appended' \in [Jobs -> Nat] /\ late' \in [Jobs -> Nat]
         /\ appended'[j] \in {appended[j], appended[j] + 1}
         /\ late'[j] \in {late[j], late[j] + 1}
         /\ status[j] # "canceled" => late'[j] = late[j]
         /\ \A i \in Jobs \ {j} : appended'[i] = appended[i] /\ late'[i] = late[i]
BY DEF TypeOK, JobsOK, Appends

(* What one more record costs while the worker is publishing a batch.      *)
LEMMA AppendCosts ==
  ASSUME Inv, NEW w \in Workers, wpc[w] = "publish", UNCHANGED status,
         Appends(wjob[w]) \/ UNCHANGED <<appended, late>>
  PROVE  LET j == wjob[w] IN
         /\ Working(w) /\ WorkerInv(w) /\ j \in Jobs
         /\ status[j] \in {"running", "canceled"}
         /\ Cardinality(batch[w]) \in Nat \ {0}
         /\ appended'[j] + PublishMaxAttempts * Cardinality(batch[w])
              <= PublishMaxAttempts * offset[w] + try[w]
         /\ late'[j] + PublishMaxAttempts * Cardinality(batch[w])
              <= PublishMaxAttempts * EffectiveBatchSize + try[w]
         /\ appended'[j] <= PublishMaxAttempts * offset[w]
         /\ late'[j] <= PublishMaxAttempts * EffectiveBatchSize
         /\ Unpublished'
<1> DEFINE j == wjob[w]
           k == Cardinality(batch[w])
<1>1. Working(w) /\ WorkerInv(w) /\ j \in Jobs /\ TypeOK
  BY DEF Inv, Working, TypeOK, WorkersOK
<1>2. status[j] \in {"running", "canceled"}
  BY <1>1 DEF Inv, OneExecutor
<1>3. /\ batch[w] \in SUBSET Rows /\ batch[w] # {} /\ offset[w] \in Nat
      /\ try[w] \in 1..PublishMaxAttempts /\ appended[j] \in Nat /\ late[j] \in Nat
  BY <1>1, ConstantsAssumption DEF TypeOK, JobsOK, WorkersOK, WorkerInv, LoopShape
<1>4. k \in Nat \ {0}
  BY <1>3, FiniteRows, FS_EmptySet
<1>5. /\ appended'[j] \in {appended[j], appended[j] + 1} /\ late'[j] \in {late[j], late[j] + 1}
      /\ \A i \in Jobs \ {j} : appended'[i] = appended[i] /\ late'[i] = late[i]
      /\ status[j] # "canceled" => late'[j] = late[j]
  BY <1>1, AppendTypes
<1>6. /\ appended[j] + PublishMaxAttempts * k <= PublishMaxAttempts * offset[w] + (try[w] - 1)
      /\ late[j] + PublishMaxAttempts * k <= PublishMaxAttempts * EffectiveBatchSize + (try[w] - 1)
  BY <1>1 DEF WorkerInv, AppendBudget, LateBudget
<1>7. /\ PublishMaxAttempts * k \in Nat /\ PublishMaxAttempts * offset[w] \in Nat
      /\ PublishMaxAttempts * EffectiveBatchSize \in Nat
      /\ PublishMaxAttempts * 1 <= PublishMaxAttempts * k
      /\ PublishMaxAttempts * 1 = PublishMaxAttempts
  <2>1. PublishMaxAttempts \in Nat /\ EffectiveBatchSize \in Nat
    BY ConstantsAssumption, BatchFacts
  <2>2. PublishMaxAttempts * k \in Nat /\ PublishMaxAttempts * offset[w] \in Nat
        /\ PublishMaxAttempts * EffectiveBatchSize \in Nat
    BY <1>3, <1>4, <2>1, Product
  <2>3. PublishMaxAttempts * 1 <= PublishMaxAttempts * k
    <3>1. k \in Nat /\ 1 \in Nat /\ 1 <= k
      BY <1>4
    <3> QED BY <3>1, <2>1, Product
  <2> QED BY <2>1, <2>2, <2>3
<1>8. /\ appended'[j] + PublishMaxAttempts * k <= PublishMaxAttempts * offset[w] + try[w]
      /\ late'[j] + PublishMaxAttempts * k <= PublishMaxAttempts * EffectiveBatchSize + try[w]
      /\ appended'[j] <= PublishMaxAttempts * offset[w]
      /\ late'[j] <= PublishMaxAttempts * EffectiveBatchSize
  BY <1>3, <1>5, <1>6, <1>7, ConstantsAssumption
<1>9. Unpublished'
  BY <1>1, <1>2, <1>5 DEF Inv, JobInv, Unpublished
<1> QED BY <1>1, <1>2, <1>4, <1>8, <1>9

(* The bounds on a job's records follow from the budget of its worker.     *)
LEMMA BoundsKeep ==
  ASSUME Inv, NEW w \in Workers, wpc[w] = "publish", UNCHANGED <<status, scanned, before>>,
         \A j \in Jobs : sent[j] \subseteq sent'[j],
         Appends(wjob[w]) \/ UNCHANGED <<appended, late>>
  PROVE  JobInv'
<1> DEFINE j == wjob[w]
<1>1. /\ j \in Jobs /\ Unpublished'
      /\ appended'[j] <= PublishMaxAttempts * offset[w]
      /\ late'[j] <= PublishMaxAttempts * EffectiveBatchSize
  BY AppendCosts
<1>2. \A i \in Jobs \ {j} : appended'[i] = appended[i] /\ late'[i] = late[i]
  BY <1>1, AppendTypes DEF Inv
<1>3. appended'[j] \in Nat /\ late'[j] \in Nat /\ offset[w] \in 0..MaxRecords
  BY <1>1, AppendTypes DEF Inv, TypeOK, WorkersOK
<1>4. /\ PublishMaxAttempts * offset[w] <= PublishMaxAttempts * MaxRecords
      /\ PublishMaxAttempts * MaxRecords = MaxRecords * PublishMaxAttempts
      /\ PublishMaxAttempts * EffectiveBatchSize = EffectiveBatchSize * PublishMaxAttempts
      /\ PublishMaxAttempts * offset[w] \in Nat /\ PublishMaxAttempts * MaxRecords \in Nat
  <2>1. PublishMaxAttempts \in Nat /\ EffectiveBatchSize \in Nat /\ MaxRecords \in Nat
        /\ offset[w] \in Nat /\ offset[w] <= MaxRecords
    BY <1>3, ConstantsAssumption, BatchFacts
  <2> QED BY <2>1, Product
<1>5. BoundedAmplification'
  <2>1. appended'[j] <= MaxRecords * PublishMaxAttempts
    BY <1>1, <1>3, <1>4
  <2> QED BY <1>2, <2>1 DEF Inv, JobInv, BoundedAmplification
<1>6. CancelStopsPublishing'
  BY <1>1, <1>2, <1>4 DEF Inv, JobInv, CancelStopsPublishing, EffectiveBatchSize
<1>7. SucceededIsComplete'
  BY DEF Inv, JobInv, SucceededIsComplete
<1> QED BY <1>1, <1>5, <1>6, <1>7 DEF JobInv

LEMMA PublishInv ==
  ASSUME Inv, NEW w \in Workers, PublishReplay(w)
  PROVE  Inv'
<1> USE DEF PublishReplay, Goto
<1> DEFINE j == wjob[w]
<1>1. PICK r \in batch[w] \ Undecodable :
        /\ batch' = [batch EXCEPT ![w] = @ \ {r}]
        /\ wpc[w] = "publish"
        /\ wpc' = [wpc EXCEPT ![w] =
             IF batch[w] # {r} THEN "publish" ELSE IF more[w] THEN "check" ELSE "complete"]
        /\ sent' = [sent EXCEPT ![j] = @ \cup {r}]
        /\ Appends(j)
        /\ try' = [try EXCEPT ![w] = 1]
        /\ UNCHANGED <<ledger, jobVars, wjob, offset, more, before, faults>>
  OBVIOUS
<1>2. /\ Working(w) /\ WorkerInv(w) /\ j \in Jobs /\ status[j] \in {"running", "canceled"}
      /\ Cardinality(batch[w]) \in Nat \ {0}
      /\ appended'[j] + PublishMaxAttempts * Cardinality(batch[w]) <= PublishMaxAttempts * offset[w] + try[w]
      /\ late'[j] + PublishMaxAttempts * Cardinality(batch[w]) <= PublishMaxAttempts * EffectiveBatchSize + try[w]
      /\ appended'[j] <= PublishMaxAttempts * offset[w]
  BY <1>1, AppendCosts DEF jobVars
<1>3. /\ batch[w] \in SUBSET Rows /\ r \in Rows /\ try[w] \in 1..PublishMaxAttempts
      /\ offset[w] \in Nat
  BY <1>1, ConstantsAssumption DEF Inv, TypeOK, WorkersOK
<1>4. /\ appended' \in [Jobs -> Nat] /\ late' \in [Jobs -> Nat]
      /\ \A i \in Jobs \ {j} : appended'[i] = appended[i] /\ late'[i] = late[i]
  BY <1>1, <1>2, AppendTypes DEF Inv
<1>5. TypeOK'
  <2>1. sent' \in [Jobs -> SUBSET Rows]
    BY <1>1, <1>3 DEF Inv, TypeOK, JobsOK
  <2>2. batch' \in [Workers -> SUBSET Rows] /\ try' \in [Workers -> 1..PublishMaxAttempts]
    BY <1>1, ConstantsAssumption DEF Inv, TypeOK, WorkersOK
  <2>3. wpc' \in [Workers -> WorkerSteps]
    BY <1>1 DEF Inv, TypeOK, WorkersOK, WorkerSteps
  <2>4. JobsOK'
    BY <1>1, <1>4, <2>1 DEF Inv, TypeOK, JobsOK, jobVars
  <2>5. WorkersOK'
    BY <1>1, <2>2, <2>3 DEF Inv, TypeOK, WorkersOK
  <2> QED BY <2>4, <2>5 DEF TypeOK
<1>6. /\ batch'[w] = batch[w] \ {r} /\ try'[w] = 1 /\ sent'[j] = sent[j] \cup {r}
      /\ wpc'[w] = IF batch[w] # {r} THEN "publish" ELSE IF more[w] THEN "check" ELSE "complete"
      /\ wjob'[w] = j /\ offset' = offset /\ more' = more /\ ledger' = ledger /\ before' = before
  BY <1>1, <1>2 DEF Inv, TypeOK, JobsOK, WorkersOK
<1>7. Cardinality(batch[w] \ {r}) \in Nat /\ Cardinality(batch[w]) = Cardinality(batch[w] \ {r}) + 1
  <2>1. IsFiniteSet(batch[w]) /\ r \in batch[w]
    BY <1>1, <1>3, FiniteRows
  <2>2. Cardinality(batch[w] \ {r}) = Cardinality(batch[w]) - 1
    BY <2>1, FS_RemoveElement
  <2> QED BY <1>2, <2>2
<1>8. LoopShape(w)'
  BY <1>1, <1>2, <1>6 DEF WorkerInv, LoopShape
<1>9. AppendBudget(w)' /\ LateBudget(w)'
  <2> DEFINE k == Cardinality(batch[w] \ {r})
  <2>1. /\ PublishMaxAttempts * Cardinality(batch[w]) = PublishMaxAttempts * k + PublishMaxAttempts
        /\ PublishMaxAttempts * k \in Nat /\ PublishMaxAttempts * offset[w] \in Nat
        /\ PublishMaxAttempts * EffectiveBatchSize \in Nat
    BY <1>3, <1>7, Product, ConstantsAssumption, BatchFacts
  <2>2. appended'[j] \in Nat /\ late'[j] \in Nat
    BY <1>2, <1>4
  <2>3. /\ appended'[j] + PublishMaxAttempts * k <= PublishMaxAttempts * offset[w] + (1 - 1)
        /\ late'[j] + PublishMaxAttempts * k <= PublishMaxAttempts * EffectiveBatchSize + (1 - 1)
    BY <1>2, <1>3, <2>1, <2>2, ConstantsAssumption
  <2>4. AppendBudget(w)'
    BY <1>2, <1>6, <2>3 DEF AppendBudget
  <2>5. LateBudget(w)'
    BY <1>6, <2>3 DEF LateBudget, EffectiveBatchSize
  <2> QED BY <2>4, <2>5
<1>10. ScanCovers(w)'
  <2>1. sent[j] \cup batch[w] = sent'[j] \cup batch'[w]
    BY <1>1, <1>6
  <2>2. before[j] \subseteq ledger
    BY <1>2 DEF WorkerInv, ScanCovers
  <2>3. ASSUME NEW S \in SUBSET ledger, Prefix(S)', Cardinality(S) <= offset[w]
        PROVE  S \cap before[j] \subseteq sent'[j] \cup batch'[w]
    <3>1. Prefix(S)
      BY <1>6, <2>3 DEF Prefix
    <3> QED BY <1>1, <1>2, <2>1, <2>3, <3>1 DEF WorkerInv, ScanCovers
  <2>4. ~more[w] => offset[w] = MaxRecords \/ before[j] \subseteq sent'[j] \cup batch'[w]
    BY <1>1, <1>2, <2>1 DEF WorkerInv, ScanCovers
  <2> QED BY <1>6, <2>2, <2>3, <2>4 DEF ScanCovers
<1>11. JobInv'
  <2>1. \A i \in Jobs : sent[i] \subseteq sent'[i]
    BY <1>1 DEF Inv, TypeOK, JobsOK
  <2> QED BY <1>1, <2>1, BoundsKeep DEF jobVars
<1>12. OneExecutor'
  <2>1. ASSUME NEW v \in Workers, Working(v)'
        PROVE  Working(v) /\ status'[wjob[v]] \in {"running", "canceled"}
    <3>1. Working(v)
      BY <1>1, <1>2, <2>1 DEF Working, Inv, TypeOK, WorkersOK
    <3> QED BY <1>1, <3>1 DEF Inv, OneExecutor, jobVars
  <2> QED BY <1>1, <2>1, ExecutorsKeep DEF Inv
<1>13. \A v \in Workers \ {w} : Working(v)' => WorkerInv(v)'
  <2>1. /\ \A v \in Workers \ {w} :
             /\ wpc'[v] = wpc[v] /\ batch'[v] = batch[v] /\ offset'[v] = offset[v]
             /\ more'[v] = more[v] /\ try'[v] = try[v]
        /\ \A i \in Jobs \ {j} : sent'[i] = sent[i]
    BY <1>1 DEF Inv, TypeOK, JobsOK, WorkersOK
  <2> QED BY <1>1, <1>2, <1>4, <2>1, OthersKeep
<1>14. WorkerInv(w)'
  BY <1>8, <1>9, <1>10 DEF WorkerInv
<1> QED BY <1>5, <1>11, <1>12, <1>13, <1>14 DEF Inv

LEMMA PublishFailsInv ==
  ASSUME Inv, NEW w \in Workers, PublishFails(w)
  PROVE  Inv'
<1> USE DEF PublishFails, RetryOrFail, Goto, Fault
<1> DEFINE j == wjob[w]
<1>1. wpc[w] = "publish" /\ UNCHANGED status /\ (Appends(j) \/ UNCHANGED <<appended, late>>)
  BY DEF jobVars
<1>2. /\ Working(w) /\ WorkerInv(w) /\ j \in Jobs /\ status[j] \in {"running", "canceled"}
      /\ appended'[j] + PublishMaxAttempts * Cardinality(batch[w]) <= PublishMaxAttempts * offset[w] + try[w]
      /\ late'[j] + PublishMaxAttempts * Cardinality(batch[w]) <= PublishMaxAttempts * EffectiveBatchSize + try[w]
  BY <1>1, AppendCosts
<1>3. /\ appended' \in [Jobs -> Nat] /\ late' \in [Jobs -> Nat]
      /\ \A i \in Jobs \ {j} : appended'[i] = appended[i] /\ late'[i] = late[i]
  BY <1>1, <1>2, AppendTypes DEF Inv
<1>4. TypeOK'
  <2>1. try' \in [Workers -> 1..PublishMaxAttempts] /\ wpc' \in [Workers -> WorkerSteps]
    BY ConstantsAssumption DEF Inv, TypeOK, WorkersOK, WorkerSteps
  <2>2. faults' \in 0..MaxFaults
    BY ConstantsAssumption DEF Inv, TypeOK, JobsOK
  <2> QED BY <1>3, <2>1, <2>2 DEF Inv, TypeOK, JobsOK, WorkersOK, jobVars
<1>5. \/ wpc'[w] = "publish" /\ try'[w] = try[w] + 1
      \/ wpc'[w] = "fail"
  BY DEF Inv, TypeOK, WorkersOK
<1>6. WorkerInv(w)'
  <2>1. try[w] \in Nat /\ (try[w] + 1) - 1 = try[w]
    BY ConstantsAssumption DEF Inv, TypeOK, WorkersOK
  <2>2. LoopShape(w)'
    BY <1>1, <1>2, <1>5 DEF WorkerInv, LoopShape
  <2>3. AppendBudget(w)' /\ LateBudget(w)'
    BY <1>2, <1>5, <2>1 DEF AppendBudget, LateBudget, EffectiveBatchSize
  <2>4. ScanCovers(w)'
    BY <1>1, <1>2, <1>5 DEF WorkerInv, ScanCovers, Prefix
  <2> QED BY <2>2, <2>3, <2>4 DEF WorkerInv
<1>7. JobInv'
  BY <1>1, BoundsKeep DEF jobVars
<1>8. OneExecutor'
  <2>1. ASSUME NEW v \in Workers, Working(v)'
        PROVE  Working(v) /\ status'[wjob[v]] \in {"running", "canceled"}
    <3>1. Working(v)
      BY <1>2, <2>1 DEF Working, Inv, TypeOK, WorkersOK
    <3> QED BY <1>1, <3>1 DEF Inv, OneExecutor
  <2> QED BY <2>1, ExecutorsKeep DEF Inv
<1>9. \A v \in Workers \ {w} : Working(v)' => WorkerInv(v)'
  <2>1. \A v \in Workers \ {w} : wpc'[v] = wpc[v] /\ try'[v] = try[v]
    BY DEF Inv, TypeOK, WorkersOK
  <2> QED BY <1>2, <1>3, <2>1, OthersKeep
<1> QED BY <1>4, <1>6, <1>7, <1>8, <1>9 DEF Inv

(* The three reports of a worker: the job's row, and then the next job.    *)
LEMMA ReportInv ==
  ASSUME Inv, NEW w \in Workers, CompleteReplayJob(w) \/ FailReplayJob(w) \/ WorkerCancels(w)
  PROVE  Inv'
<1> USE DEF CompleteReplayJob, FailReplayJob, WorkerCancels, UpdateReplayJobTerminal, Cancelable, Goto
<1> DEFINE j == wjob[w]
<1>1. /\ Working(w) /\ WorkerInv(w) /\ j \in Jobs /\ status[j] \in {"running", "canceled"}
      /\ offset[w] \in Nat /\ ~Working(w)'
  BY ConstantsAssumption DEF Inv, OneExecutor, Working, TypeOK, WorkersOK
<1>2. /\ \A i \in Jobs \ {j} : status'[i] = status[i] /\ scanned'[i] = scanned[i]
      /\ status'[j] \in {"succeeded", "failed", "canceled"}
      /\ status'[j] = "succeeded" => wpc[w] = "complete" /\ scanned'[j] = offset[w]
  BY <1>1 DEF Inv, TypeOK, JobsOK, jobVars
<1>3. TypeOK'
  BY <1>1 DEF Inv, TypeOK, JobsOK, WorkersOK, Statuses, WorkerSteps, jobVars, runVars, topicVars
<1>4. JobInv'
  <2>1. SucceededIsComplete'
    <3>1. status'[j] = "succeeded" /\ scanned'[j] < MaxRecords => before[j] \subseteq sent[j]
      BY <1>1, <1>2, ConstantsAssumption DEF WorkerInv, LoopShape, ScanCovers
    <3> QED BY <1>2, <3>1 DEF Inv, JobInv, SucceededIsComplete, topicVars
  <2>2. Unpublished'
    BY <1>1, <1>2 DEF Inv, JobInv, Unpublished, topicVars
  <2>3. BoundedAmplification' /\ CancelStopsPublishing'
    BY DEF Inv, JobInv, BoundedAmplification, CancelStopsPublishing, EffectiveBatchSize, topicVars
  <2> QED BY <2>1, <2>2, <2>3 DEF JobInv
<1>5. \A v \in Workers : Working(v)' => v # w /\ Working(v)
  BY <1>1 DEF Inv, TypeOK, WorkersOK, Working
<1>6. OneExecutor'
  <2>1. ASSUME NEW v \in Workers, Working(v)'
        PROVE  Working(v) /\ status'[wjob[v]] \in {"running", "canceled"}
    <3>1. Working(v) /\ wjob[v] \in Jobs \ {j}
      BY <1>1, <1>5, <2>1 DEF Inv, OneExecutor, TypeOK, WorkersOK
    <3> QED BY <1>2, <3>1 DEF Inv, OneExecutor
  <2> QED BY <2>1, ExecutorsKeep DEF Inv
<1>7. \A v \in Workers \ {w} : Working(v)' => WorkerInv(v)'
  <2>1. \A v \in Workers \ {w} : wpc'[v] = wpc[v]
    BY DEF Inv, TypeOK, WorkersOK
  <2> QED BY <1>1, <2>1, OthersKeep DEF runVars, topicVars
<1> QED BY <1>1, <1>3, <1>4, <1>6, <1>7 DEF Inv

(* A process ends or comes back: its job keeps its row.                    *)
LEMMA ProcessInv ==
  ASSUME Inv, NEW w \in Workers, Exit(w) \/ Restart(w)
  PROVE  Inv'
<1> USE DEF Exit, Restart, Goto, Fault
<1>1. TypeOK'
  BY ConstantsAssumption DEF Inv, TypeOK, JobsOK, WorkersOK, WorkerSteps, jobVars, runVars, topicVars
<1>2. \A v \in Workers : Working(v)' => v # w /\ Working(v) /\ wpc'[v] = wpc[v]
  BY DEF Inv, TypeOK, WorkersOK, Working
<1>3. OneExecutor'
  BY <1>2, ExecutorsKeep DEF Inv, OneExecutor, jobVars
<1>4. JobInv'
  BY DEF Inv, JobInv, Unpublished, BoundedAmplification, CancelStopsPublishing, SucceededIsComplete,
     EffectiveBatchSize, jobVars, topicVars
<1>5. ASSUME NEW v \in Workers, Working(v)' PROVE WorkerInv(v)'
  <2>1. TypeOK /\ WorkerInv(v) /\ ledger' \in SUBSET Rows /\ wpc'[v] = wpc[v]
    BY <1>1, <1>2, <1>5 DEF Inv, TypeOK, JobsOK
  <2> QED BY <2>1, Frame DEF runVars, topicVars
<1> QED BY <1>1, <1>3, <1>4, <1>5 DEF Inv

LEMMA NextInv == Inv /\ [Next]_vars => Inv'
<1> SUFFICES ASSUME Inv, [Next]_vars PROVE Inv'
  OBVIOUS
<1>1. ASSUME NEW r \in Rows, LedgerGains(r) PROVE Inv'
  BY <1>1, LedgerGainsInv
<1>2. ASSUME NEW j \in Jobs, CreateReplayJob(j) \/ OperatorCancels(j) PROVE Inv'
  BY <1>2, GatewayInv
<1>3. ASSUME NEW w \in Workers, Worker(w) PROVE Inv'
  BY <1>3, ClaimInv, CheckInv, LoadInv, PublishInv, RejectInv, ReportInv, PublishFailsInv, ReadFailsInv,
     ProcessInv DEF Worker, Work
<1>4. CASE UNCHANGED vars
  <2> USE DEF vars, jobVars, runVars, topicVars
  <2>1. TypeOK' /\ OneExecutor' /\ JobInv'
    BY <1>4 DEF Inv, TypeOK, JobsOK, WorkersOK, OneExecutor, Working, JobInv, Unpublished,
       BoundedAmplification, CancelStopsPublishing, SucceededIsComplete, EffectiveBatchSize
  <2>2. ASSUME NEW v \in Workers, Working(v)' PROVE WorkerInv(v)'
    <3>1. TypeOK /\ WorkerInv(v) /\ ledger' \in SUBSET Rows
      BY <1>4, <2>1, <2>2 DEF Inv, Working, TypeOK, JobsOK
    <3> QED BY <1>4, <3>1, Frame
  <2> QED BY <2>1, <2>2 DEF Inv
<1> QED BY <1>1, <1>2, <1>3, <1>4 DEF Next

LEMMA Invariance == Spec => []Inv
BY InitInv, NextInv, PTL DEF Spec

-----------------------------------------------------------------------------
(* Every variable keeps its type.                                          *)
THEOREM TypeCorrect == Spec => []TypeOK
<1>1. Inv => TypeOK
  BY DEF Inv
<1> QED BY <1>1, Invariance, PTL

(* No job is executed by two workers, and none after it has an outcome,    *)
(* whatever processes end and restart (ClaimNextReplayJob).                *)
THEOREM ExclusiveExecution == Spec => []OneExecutor
<1>1. Inv => OneExecutor
  BY DEF Inv
<1> QED BY <1>1, Invariance, PTL

(* A job appends at most MaxRecords * PublishMaxAttempts records           *)
(* (executeReplayJob, publishReplayWithRetry).                             *)
THEOREM Amplification == Spec => []BoundedAmplification
<1>1. Inv => BoundedAmplification
  BY DEF Inv, JobInv
<1> QED BY <1>1, Invariance, PTL

(* After a cancellation at most one batch is still published (the status   *)
(* read before each batch in executeReplayJob).                            *)
THEOREM CancelTakesEffect == Spec => []CancelStopsPublishing
<1>1. Inv => CancelStopsPublishing
  BY DEF Inv, JobInv
<1> QED BY <1>1, Invariance, PTL

(* Paging by OFFSET misses no row that the window held when the job was    *)
(* claimed, though rows keep arriving (executeReplayJob).                  *)
THEOREM Completeness == Spec => []SucceededIsComplete
<1>1. Inv => SucceededIsComplete
  BY DEF Inv, JobInv
<1> QED BY <1>1, Invariance, PTL

(* A job that succeeded or failed never changes its status again           *)
(* (CancelReplayJob's guard, and the claim that only takes queued jobs).   *)
THEOREM OutcomeFinality == Spec => OutcomeIsFinal
<1> DEFINE Keeps == \A j \in Jobs : status[j] \in {"succeeded", "failed"} => status'[j] = status[j]
<1>1. Inv /\ [Next]_vars => [Keeps]_vars
  <2> SUFFICES ASSUME Inv, Next, NEW j \in Jobs, status[j] \in {"succeeded", "failed"}
               PROVE  status'[j] = status[j]
    OBVIOUS
  <2>1. ASSUME NEW w \in Workers, Work(w) PROVE status'[j] = status[j]
    <3>1. Working(w) => wjob[w] # j
      BY DEF Inv, OneExecutor
    <3> QED BY <2>1, <3>1 DEF Work, ClaimNextReplayJob, Claimable, CheckCanceled, LoadReplayBatch, TakeBatch,
            PublishReplay, RejectPayload, CompleteReplayJob, FailReplayJob, WorkerCancels,
            UpdateReplayJobTerminal, Goto, Working, jobVars, Inv, TypeOK, JobsOK
  <2>2. ASSUME NEW w \in Workers, PublishFails(w) \/ ReadFails(w) \/ Exit(w) \/ Restart(w)
        PROVE  status'[j] = status[j]
    BY <2>2 DEF PublishFails, ReadFails, Exit, Restart, jobVars
  <2>3. ASSUME NEW i \in Jobs, CreateReplayJob(i) \/ OperatorCancels(i) PROVE status'[j] = status[j]
    BY <2>3 DEF CreateReplayJob, OperatorCancels, Cancelable, Inv, TypeOK, JobsOK
  <2>4. ASSUME NEW r \in Rows, LedgerGains(r) PROVE status'[j] = status[j]
    BY <2>4 DEF LedgerGains, jobVars
  <2> QED BY <2>1, <2>2, <2>3, <2>4 DEF Next, Worker
<1> QED BY <1>1, Invariance, PTL DEF Spec, OutcomeIsFinal
=============================================================================
