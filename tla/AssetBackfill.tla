---------------------------- MODULE AssetBackfill ----------------------------
(***************************************************************************)
(* Historical equity backfills of watchlist assets: the API that creates   *)
(* the jobs (internal/api/marketops_asset_management.go), their table      *)
(* (storage/postgres/marketops_asset_watchlist_backfill.go) and the worker *)
(* that runs them one after the other                                      *)
(* (cmd/marketops-asset-backfill-worker/main.go).                          *)
(*                                                                         *)
(* Sessions are the weekdays of the requested window, the same for every   *)
(* job.  The sweep that is to finish jobs awaiting normalization           *)
(* (processAwaiting) is no action: it lists the jobs of the empty tenant,  *)
(* and CreateMarketOpsAssetBackfillJob stores none under it, so it finds   *)
(* nothing and such a job stays as it is.                                  *)
(***************************************************************************)
EXTENDS Naturals, Sequences, FiniteSets, FiniteSetsExt

CONSTANTS
  Assets,        \* watchlist assets of all tenants
  Sessions,
  Bars,          \* <<asset, session>> the provider has a bar for
  MaxJobs,       \* bound: jobs created
  MaxBreaks      \* bound: failed sessions, crashes and database errors

Days == Assets \X Sessions

ASSUME BackfillAssumption ==
  /\ Sessions \subseteq Nat /\ IsFiniteSet(Sessions) /\ IsFiniteSet(Assets)
  /\ Bars \subseteq Days
  /\ MaxJobs \in Nat /\ MaxBreaks \in Nat

VARIABLES
  jobs,     \* the table by created_at
  stored,   \* days with a bar on the raw topic
  complete, \* days in the normalized event ledger
  wJob,     \* the job the worker holds, or 0
  wRest,    \* its sessions still to pull
  wSent,    \* job.RequestedSessions: sessions pulled without a failure
  breaks

dayVars == <<stored, complete>>
workerVars == <<wJob, wRest, wSent>>
backfillVars == <<jobs, dayVars, workerVars, breaks>>

ActiveJob == {"queued", "running", "awaiting"}
JobStatuses == ActiveJob \cup {"succeeded", "partial"}

BackfillTypeOK ==
  /\ jobs \in Seq([asset : Assets, status : JobStatuses, failed : 0..Cardinality(Sessions)])
  /\ Len(jobs) <= MaxJobs
  /\ complete \subseteq stored /\ stored \subseteq Bars
  /\ wJob \in 0..Len(jobs) /\ wRest \subseteq Sessions /\ wSent \in 0..Cardinality(Sessions)
  /\ wJob # 0 => jobs[wJob].status \in {"running", "awaiting"}
  /\ breaks \in 0..MaxBreaks

BackfillInit ==
  /\ jobs = <<>> /\ stored = {} /\ complete = {}
  /\ wJob = 0 /\ wRest = {} /\ wSent = 0
  /\ breaks = 0

Break == breaks < MaxBreaks /\ breaks' = breaks + 1

(* CreateMarketOpsAssetBackfillJob; the unique index of migration 000045   *)
(* refuses a second active job of the asset.                               *)
CreateJob(a) ==
  /\ Len(jobs) < MaxJobs
  /\ \A i \in 1..Len(jobs) : jobs[i].asset = a => jobs[i].status \notin ActiveJob
  /\ jobs' = Append(jobs, [asset |-> a, status |-> "queued", failed |-> 0])
  /\ UNCHANGED <<dayVars, workerVars, breaks>>

(* finalize: the job's normalized sessions against what was pulled of it   *)
(* in this run; requested_sessions is not written.                         *)
Done(j) == Cardinality({d \in Sessions : <<jobs[j].asset, d>> \in complete})

(* Wrong variant: failed sessions are looked at last.                      *)
StatusByCount(j, sent) ==
  IF Done(j) = Max({sent, Done(j)}) THEN "succeeded"
  ELSE IF jobs[j].failed > 0 THEN "partial"
  ELSE "awaiting"

FinalStatus(j, sent) ==
  IF jobs[j].failed > 0 THEN "partial"
  ELSE IF Done(j) = Max({sent, Done(j)}) THEN "succeeded"
  ELSE "awaiting"

(* ClaimNextMarketOpsAssetBackfillJob takes the oldest queued job; there   *)
(* is no lease.                                                            *)
ClaimJob ==
  LET queued == {i \in 1..Len(jobs) : jobs[i].status = "queued"} IN
  /\ wJob = 0 /\ queued # {}
  /\ wJob' = Min(queued) /\ wRest' = Sessions /\ wSent' = 0
  /\ jobs' = [jobs EXCEPT ![Min(queued)].status = "running"]
  /\ UNCHANGED <<dayVars, breaks>>

(* The loop of processJob pulls the sessions by date: without a bar the    *)
(* session is passed over, a failed one is counted, and the pull of one    *)
(* whose raw ledger write failed has put it on the topic all the same.     *)
Pull ==
  LET d == Min(wRest) day == <<jobs[wJob].asset, d>> IN
  /\ wJob # 0 /\ wRest # {}
  /\ wRest' = wRest \ {d}
  /\ \/ /\ day \notin Bars
        /\ UNCHANGED <<jobs, stored, wSent, breaks>>
     \/ /\ day \in Bars
        /\ stored' = stored \cup {day} /\ wSent' = wSent + 1
        /\ UNCHANGED <<jobs, breaks>>
     \/ /\ Break
        /\ jobs' = [jobs EXCEPT ![wJob].failed = @ + 1]
        /\ stored' \in {stored, stored \cup ({day} \cap Bars)}
        /\ UNCHANGED wSent
  /\ UNCHANGED <<complete, wJob>>

Finalize ==
  /\ wJob # 0 /\ wRest = {}
  /\ jobs' = [jobs EXCEPT ![wJob].status = FinalStatus(wJob, wSent)]
  /\ wJob' = 0 /\ wSent' = 0
  /\ UNCHANGED <<dayVars, wRest, breaks>>

(* The worker stops, or finalize fails: the job stays running.             *)
AbandonJob ==
  /\ wJob # 0 /\ Break
  /\ wJob' = 0 /\ wRest' = {} /\ wSent' = 0
  /\ UNCHANGED <<jobs, dayVars>>

(* The normalizer, in its own time.                                        *)
Complete(day) ==
  /\ day \in stored \ complete
  /\ complete' = complete \cup {day}
  /\ UNCHANGED <<jobs, stored, workerVars, breaks>>

BackfillNext ==
  \/ \E a \in Assets : CreateJob(a)
  \/ ClaimJob \/ Pull \/ Finalize \/ AbandonJob
  \/ \E day \in Days : Complete(day)

-----------------------------------------------------------------------------
(* "It becomes part of all_workflow_ready only after a successful          *)
(* 50-session normalized equity backfill" (docs/support/marketops-         *)
(* governed-task-workflow.md:23): every bar of a succeeded job's window is *)
(* normalized, although finalize compares only two numbers, and counts     *)
(* sessions that earlier jobs normalized.                                  *)
SucceededIsComplete ==
  \A i \in 1..Len(jobs) :
    jobs[i].status = "succeeded" =>
      \A d \in Sessions : <<jobs[i].asset, d>> \in Bars => <<jobs[i].asset, d>> \in complete
=============================================================================
