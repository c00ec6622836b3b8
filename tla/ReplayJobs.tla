----------------------------- MODULE ReplayJobs -----------------------------
(***************************************************************************)
(* Historical replay: the gateway creates and cancels replay jobs          *)
(* (internal/api/router.go), the replay_jobs table is the work queue       *)
(* (internal/storage/postgres/repository.go), and replay workers claim a   *)
(* job, page through the temporal ledger and republish its rows            *)
(* (cmd/replay-worker/main.go).                                            *)
(*                                                                         *)
(* A ledger row is the number of its place in the order (observation time, *)
(* event id).  The temporal ledgers key their rows by both, so a row never *)
(* moves; rows with an earlier observation time may arrive at any moment.  *)
(***************************************************************************)
EXTENDS Naturals, FiniteSets

CONSTANTS
  Jobs,                \* replay jobs, all over the same window of the ledger
  Workers,             \* replay worker processes
  MaxRow,              \* bound: rows of the window
  Undecodable,         \* rows whose stored payload is not a JSON object
  MaxRecords,          \* SIGNALOPS_REPLAY_MAX_RECORDS
  BatchSize,           \* SIGNALOPS_REPLAY_BATCH_SIZE
  PublishMaxAttempts,  \* SIGNALOPS_REPLAY_PUBLISH_MAX_ATTEMPTS
  MaxFaults            \* bound: process exits, failed reads and publishes

ASSUME ConstantsAssumption ==
  /\ MaxRow \in Nat
  /\ MaxRecords \in Nat \ {0}
  /\ BatchSize \in 1..200  \* loadWorkerConfig; far below the 5000 rows of clampLimit
  /\ PublishMaxAttempts \in Nat \ {0}
  /\ MaxFaults \in Nat
  /\ Undecodable \subseteq 1..MaxRow

Rows == 1..MaxRow

VARIABLES
  ledger,     \* rows of the window that are stored
  status,     \* replay_jobs.status
  scanned,    \* result.scanned
  wpc, wjob,  \* worker: next step, claimed job
  batch,      \* rows of the batch still to be published
  offset,     \* rows scanned so far
  more,       \* the batch was full and records remain
  try,        \* attempt of the current publish
  sent,       \* rows of each job the broker acknowledged
  appended,   \* records each job appended to the topic
  late,       \* of these, appended when the job was already canceled
  before,     \* rows stored when the job was claimed
  faults

jobVars == <<status, scanned>>
runVars == <<batch, offset, more, try>>
topicVars == <<sent, appended, late>>
vars == <<ledger, jobVars, wpc, wjob, runVars, topicVars, before, faults>>

Statuses == {"absent", "queued", "running", "succeeded", "failed", "canceled"}
WorkerSteps == {"down", "idle", "check", "load", "publish", "complete", "fail", "cancel"}

JobsOK ==
  /\ ledger \in SUBSET Rows
  /\ status \in [Jobs -> Statuses]
  /\ scanned \in [Jobs -> Nat]
  /\ sent \in [Jobs -> SUBSET Rows]
  /\ appended \in [Jobs -> Nat]
  /\ late \in [Jobs -> Nat]
  /\ before \in [Jobs -> SUBSET Rows]
  /\ faults \in 0..MaxFaults

WorkersOK ==
  /\ wpc \in [Workers -> WorkerSteps]
  /\ wjob \in [Workers -> Jobs]
  /\ batch \in [Workers -> SUBSET Rows]
  /\ offset \in [Workers -> 0..MaxRecords]
  /\ more \in [Workers -> BOOLEAN]
  /\ try \in [Workers -> 1..PublishMaxAttempts]

TypeOK == JobsOK /\ WorkersOK

Init ==
  /\ ledger \in SUBSET Rows
  /\ status = [j \in Jobs |-> "absent"]
  /\ scanned = [j \in Jobs |-> 0]
  /\ wpc = [w \in Workers |-> "idle"]
  /\ wjob \in [Workers -> Jobs]
  /\ batch = [w \in Workers |-> {}]
  /\ offset = [w \in Workers |-> 0]
  /\ more = [w \in Workers |-> FALSE]
  /\ try = [w \in Workers |-> 1]
  /\ sent = [j \in Jobs |-> {}]
  /\ appended = [j \in Jobs |-> 0]
  /\ late = [j \in Jobs |-> 0]
  /\ before = [j \in Jobs |-> {}]
  /\ faults = 0

Fault == faults < MaxFaults /\ faults' = faults + 1

(* Ingestion stores another row of the window.                             *)
LedgerGains(r) ==
  /\ r \notin ledger
  /\ ledger' = ledger \cup {r}
  /\ UNCHANGED <<jobVars, wpc, wjob, runVars, topicVars, before, faults>>

-----------------------------------------------------------------------------
(* The gateway.                                                            *)

(* POST /v1/replay/jobs generates the identifier, so it is a new row.      *)
CreateReplayJob(j) ==
  /\ status[j] = "absent"
  /\ status' = [status EXCEPT ![j] = "queued"]
  /\ UNCHANGED <<ledger, scanned, wpc, wjob, runVars, topicVars, before, faults>>

(* Wrong variant: every job can be canceled.                               *)
CancelableAny(j) == status[j] # "absent"

(* CancelReplayJob leaves a job that succeeded or failed as it is.         *)
Cancelable(j) == status[j] \in {"queued", "running", "canceled"}

OperatorCancels(j) ==
  /\ Cancelable(j)
  /\ status' = [status EXCEPT ![j] = "canceled"]
  /\ UNCHANGED <<ledger, scanned, wpc, wjob, runVars, topicVars, before, faults>>

-----------------------------------------------------------------------------
(* The worker.                                                             *)

(* Wrong variant: a running job is claimed too, as if its worker had died. *)
ClaimableRunning(j) == status[j] \in {"queued", "running"}

Claimable(j) == status[j] = "queued"

(* FOR UPDATE SKIP LOCKED: the oldest queued job no other transaction      *)
(* holds, which may be any of them.                                        *)
ClaimNextReplayJob(w) ==
  /\ wpc[w] = "idle"
  /\ \E j \in Jobs :
       /\ Claimable(j)
       /\ status' = [status EXCEPT ![j] = "running"]
       /\ wjob' = [wjob EXCEPT ![w] = j]
       /\ before' = [before EXCEPT ![j] = ledger]
  /\ wpc' = [wpc EXCEPT ![w] = "check"]
  /\ batch' = [batch EXCEPT ![w] = {}]
  /\ offset' = [offset EXCEPT ![w] = 0]
  /\ more' = [more EXCEPT ![w] = FALSE]
  /\ try' = [try EXCEPT ![w] = 1]
  /\ UNCHANGED <<ledger, scanned, topicVars, faults>>

Goto(w, from, to) == wpc[w] = from /\ wpc' = [wpc EXCEPT ![w] = to]

(* Wrong variant: the status is read when the job starts, not per batch.   *)
CheckFirstBatch(w) ==
  /\ Goto(w, "check", IF status[wjob[w]] = "canceled" /\ offset[w] = 0 THEN "cancel" ELSE "load")
  /\ UNCHANGED <<ledger, jobVars, wjob, runVars, topicVars, before, faults>>

(* GetReplayJob before each batch.                                         *)
CheckCanceled(w) ==
  /\ Goto(w, "check", IF status[wjob[w]] = "canceled" THEN "cancel" ELSE "load")
  /\ UNCHANGED <<ledger, jobVars, wjob, runVars, topicVars, before, faults>>

EffectiveBatchSize == IF BatchSize = 0 \/ BatchSize > MaxRecords THEN MaxRecords ELSE BatchSize

Limit(w) ==
  IF MaxRecords - offset[w] < EffectiveBatchSize THEN MaxRecords - offset[w] ELSE EffectiveBatchSize

(* The first n rows in the order of the query, or all of them.             *)
IsFirst(rows, n) ==
  /\ rows \in SUBSET ledger
  /\ \A r \in rows, x \in ledger : x < r => x \in rows
  /\ Cardinality(rows) = IF n < Cardinality(ledger) THEN n ELSE Cardinality(ledger)

(* Wrong variant: the page starts one row late.                            *)
LatePages(o, n) ==
  {read \ skipped : skipped \in {s \in SUBSET ledger : IsFirst(s, o + 1)},
                    read \in {s \in SUBSET ledger : IsFirst(s, o + 1 + n)}}

(* ORDER BY observation_time, event_id LIMIT n OFFSET o: the one page.     *)
Pages(o, n) ==
  {read \ skipped : skipped \in {s \in SUBSET ledger : IsFirst(s, o)},
                    read \in {s \in SUBSET ledger : IsFirst(s, o + n)}}

(* Wrong variant: the offset is not moved past the batch.                  *)
TakeSamePage(w, rows) ==
  /\ batch' = [batch EXCEPT ![w] = rows]
  /\ more' = [more EXCEPT ![w] =
                Cardinality(rows) = Limit(w) /\ offset[w] + Cardinality(rows) < MaxRecords]
  /\ UNCHANGED <<ledger, jobVars, wjob, offset, try, topicVars, before, faults>>

(* What the loop does with the rows of a batch; offset and more take the   *)
(* values they have after the batch.                                       *)
TakeBatch(w, rows) ==
  /\ batch' = [batch EXCEPT ![w] = rows]
  /\ offset' = [offset EXCEPT ![w] = @ + Cardinality(rows)]
  /\ more' = [more EXCEPT ![w] =
                Cardinality(rows) = Limit(w) /\ offset[w] + Cardinality(rows) < MaxRecords]
  /\ UNCHANGED <<ledger, jobVars, wjob, try, topicVars, before, faults>>

(* Wrong variant: the loop goes on after an empty batch.                   *)
LoadAgain(w) ==
  \E rows \in Pages(offset[w], Limit(w)) :
    /\ Goto(w, "load", IF rows = {} THEN "check" ELSE "publish")
    /\ TakeBatch(w, rows)

(* loadReplayBatch; an empty batch ends the job.                           *)
LoadReplayBatch(w) ==
  \E rows \in Pages(offset[w], Limit(w)) :
    /\ Goto(w, "load", IF rows = {} THEN "complete" ELSE "publish")
    /\ TakeBatch(w, rows)

(* The next row of the batch.                                              *)
IsNext(w, r) == r \in batch[w] /\ \A x \in batch[w] : r <= x

Appends(j) ==
  /\ appended' = [appended EXCEPT ![j] = @ + 1]
  /\ late' = [late EXCEPT ![j] = IF status[j] = "canceled" THEN @ + 1 ELSE @]

(* Publish is acknowledged; after the last row of the batch the loop goes  *)
(* on or ends.                                                             *)
PublishReplay(w) ==
  \E r \in batch[w] \ Undecodable :
    /\ IsNext(w, r)
    /\ batch' = [batch EXCEPT ![w] = @ \ {r}]
    /\ Goto(w, "publish",
         IF batch[w] # {r} THEN "publish" ELSE IF more[w] THEN "check" ELSE "complete")
    /\ sent' = [sent EXCEPT ![wjob[w]] = @ \cup {r}]
    /\ Appends(wjob[w])
    /\ try' = [try EXCEPT ![w] = 1]
    /\ UNCHANGED <<ledger, jobVars, wjob, offset, more, before, faults>>

(* replayPayload cannot decode the stored row: the job fails.              *)
RejectPayload(w) ==
  /\ \E r \in Undecodable : IsNext(w, r)
  /\ Goto(w, "publish", "fail")
  /\ UNCHANGED <<ledger, jobVars, wjob, runVars, topicVars, before, faults>>

(* publishReplayWithRetry: another attempt, or the last error.             *)
RetryOrFail(w) ==
  IF try[w] < PublishMaxAttempts
  THEN try' = [try EXCEPT ![w] = @ + 1] /\ Goto(w, "publish", "publish")
  ELSE UNCHANGED try /\ Goto(w, "publish", "fail")

(* A publish fails; the record may be on the topic all the same.           *)
PublishFails(w) ==
  /\ \E r \in batch[w] \ Undecodable : IsNext(w, r)
  /\ Appends(wjob[w]) \/ UNCHANGED <<appended, late>>
  /\ RetryOrFail(w)
  /\ Fault
  /\ UNCHANGED <<ledger, jobVars, wjob, batch, offset, more, sent, before>>

(* GetReplayJob or the ledger query fails.                                 *)
ReadFails(w) ==
  /\ Goto(w, "check", "fail") \/ Goto(w, "load", "fail")
  /\ Fault
  /\ UNCHANGED <<ledger, jobVars, wjob, runVars, topicVars, before>>

(* updateReplayJobTerminal: whatever the status is by now.                 *)
UpdateReplayJobTerminal(j, s, n) ==
  /\ status' = [status EXCEPT ![j] = s]
  /\ scanned' = [scanned EXCEPT ![j] = n]

CompleteReplayJob(w) ==
  /\ Goto(w, "complete", "idle")
  /\ UpdateReplayJobTerminal(wjob[w], "succeeded", offset[w])
  /\ UNCHANGED <<ledger, wjob, runVars, topicVars, before, faults>>

FailReplayJob(w) ==
  /\ Goto(w, "fail", "idle")
  /\ UpdateReplayJobTerminal(wjob[w], "failed", offset[w])
  /\ UNCHANGED <<ledger, wjob, runVars, topicVars, before, faults>>

(* CancelReplayJob called by the worker: its counters are merged into the  *)
(* result.                                                                 *)
WorkerCancels(w) ==
  /\ Goto(w, "cancel", "idle")
  /\ LET j == wjob[w] IN
     IF Cancelable(j)
     THEN /\ status' = [status EXCEPT ![j] = "canceled"]
          /\ scanned' = [scanned EXCEPT ![j] = offset[w]]
     ELSE UNCHANGED jobVars
  /\ UNCHANGED <<ledger, wjob, runVars, topicVars, before, faults>>

(* A crash, SIGTERM or a failed statement of the queue ends the process.   *)
(* SIGTERM cancels the context of every later statement, FailReplayJob's   *)
(* too, so the job keeps the status it has.                                *)
Exit(w) ==
  /\ wpc[w] # "down"
  /\ Fault
  /\ wpc' = [wpc EXCEPT ![w] = "down"]
  /\ UNCHANGED <<ledger, jobVars, wjob, runVars, topicVars, before>>

Restart(w) ==
  /\ Goto(w, "down", "idle")
  /\ UNCHANGED <<ledger, jobVars, wjob, runVars, topicVars, before, faults>>

-----------------------------------------------------------------------------
(* What a running worker does by itself.                                   *)
Work(w) ==
  \/ ClaimNextReplayJob(w)
  \/ CheckCanceled(w)
  \/ LoadReplayBatch(w)
  \/ PublishReplay(w)
  \/ RejectPayload(w)
  \/ CompleteReplayJob(w)
  \/ FailReplayJob(w)
  \/ WorkerCancels(w)

Worker(w) == Work(w) \/ PublishFails(w) \/ ReadFails(w) \/ Exit(w) \/ Restart(w)

Next ==
  \/ \E r \in Rows : LedgerGains(r)
  \/ \E j \in Jobs : CreateReplayJob(j) \/ OperatorCancels(j)
  \/ \E w \in Workers : Worker(w)

Spec == Init /\ [][Next]_vars

(* A running worker polls and goes on; nothing restarts one that ended     *)
(* (compose.yaml gives the service no restart policy).                     *)
FairSpec == Spec /\ \A w \in Workers : WF_vars(Work(w))

-----------------------------------------------------------------------------
Working(w) == wpc[w] \notin {"down", "idle"}

(* A job is executed by one worker at a time and only while it is running  *)
(* or canceled: a job that succeeded or failed is not still publishing     *)
(* (ClaimNextReplayJob, repository.go:1056-1091).                          *)
OneExecutor ==
  /\ \A v, w \in Workers : Working(v) /\ Working(w) /\ wjob[v] = wjob[w] => v = w
  /\ \A w \in Workers : Working(w) => status[wjob[w]] \in {"running", "canceled"}

(* One job appends at most MaxRecords * PublishMaxAttempts records to the  *)
(* topic in all its life, over all workers, restarts and lost              *)
(* acknowledgements (executeReplayJob, publishReplayWithRetry).            *)
BoundedAmplification == \A j \in Jobs : appended[j] <= MaxRecords * PublishMaxAttempts

(* docs/api.md: "The worker detects cancellation between replay batches,   *)
(* stops publishing new records": at most the rest of one batch is         *)
(* published after a job was canceled.                                     *)
CancelStopsPublishing == \A j \in Jobs : late[j] <= EffectiveBatchSize * PublishMaxAttempts

(* A succeeded job whose result reports fewer scanned rows than MaxRecords *)
(* has republished every row its window held when it was claimed, though   *)
(* rows arrive, and shift the pages, while it pages by OFFSET              *)
(* (executeReplayJob, ListReplayRawEvents).                                *)
SucceededIsComplete ==
  \A j \in Jobs :
    status[j] = "succeeded" /\ scanned[j] < MaxRecords => before[j] \subseteq sent[j]

(* A job that succeeded or failed keeps that status, also when an operator *)
(* cancels it while the worker is reporting (CancelReplayJob's guard).     *)
OutcomeIsFinal ==
  [][\A j \in Jobs : status[j] \in {"succeeded", "failed"} => status'[j] = status[j]]_vars

(* The worker that held the job ended: nothing will claim the job again.   *)
Orphaned(j) == status[j] = "running" /\ \A w \in Workers : Working(w) => wjob[w] # j

(* A queued job is eventually succeeded, failed or canceled, unless its    *)
(* worker ends while holding it or no worker is left.                      *)
ReplaySettles ==
  \A j \in Jobs :
    status[j] = "queued" ~>
      \/ status[j] \in {"succeeded", "failed", "canceled"}
      \/ Orphaned(j)
      \/ \A w \in Workers : wpc[w] = "down"
=============================================================================
