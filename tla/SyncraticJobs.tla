---------------------------- MODULE SyncraticJobs ----------------------------
(***************************************************************************)
(* The post-close brief of one asset and session: the runner that          *)
(* materializes the context window and queues a job per evidence digest    *)
(* (internal/api/syncratic.go, syncratic_postclose.go), the leased job     *)
(* table (internal/storage/postgres/syncratic_intelligence_jobs.go), and   *)
(* the worker every gateway replica runs (internal/api/syncratic_worker.go)*)
(* which asks the Syncratic API and rewrites the overview.                 *)
(*                                                                         *)
(* An evidence digest is a number, 0 "no row".  Rows enter and leave the   *)
(* window as their timestamps and metrics change, so any digest may follow *)
(* any other, an earlier one too.                                          *)
(***************************************************************************)
EXTENDS Naturals

CONSTANTS
  Runners,      \* concurrent runs of the materialization
  Workers,      \* gateway replicas, one worker each
  Bare,         \* digests whose window has no analyst evidence
  MaxDigest,    \* bound: different states of the evidence
  MaxAttempts,  \* max_attempts of a job
  MaxFaults,    \* bound: failed statements and Ask calls
  MaxCrashes    \* bound: crashes of runners and replicas, lost results

ASSUME ConstantsAssumption ==
  /\ MaxDigest \in Nat \ {0}
  /\ MaxAttempts \in Nat \ {0}
  /\ MaxFaults \in Nat
  /\ MaxCrashes \in Nat
  /\ Bare \subseteq 1..MaxDigest

Digests == 1..MaxDigest

VARIABLES
  evidence,  \* the digest the ledgers give now
  window,    \* syncratic_context_windows.evidence_digest
  insight,   \* the eod_overview row: supporting evidence, text, what it explains
  status, attempts, expired,  \* syncratic_intelligence_jobs, by digest
  rpc, rdig,                  \* runner: next statement, digest it built
  wpc, wjob, wtry,            \* worker: next statement, claimed job, its attempt
  wseen, wbase,               \* the window and the overview row it has read
  asked,                      \* per job, the attempts that called Ask
  overlapped,                 \* whether two runners or two workers were active at once
  returned,                   \* digests whose window was stored again after their job
  faults, crashes

jobVars == <<status, attempts, expired>>
runnerVars == <<rpc, rdig>>
workerVars == <<wpc, wjob, wtry, wseen, wbase>>
pastVars == <<overlapped, returned>>
vars == <<pastVars, evidence, window, insight, jobVars, runnerVars, workerVars, asked, faults, crashes>>

Statuses == {"absent", "queued", "running", "completed", "retryable_failed", "failed"}
Insights == [base : 0..MaxDigest, text : {"none", "context", "answer", "coverage"}, about : 0..MaxDigest]
RunnerSteps == {"idle", "compare", "window", "insight", "job"}
WorkerSteps == {"idle", "window", "coverage", "cover", "prompt", "insight", "ask", "write", "complete", "fail"}

StoreOK ==
  /\ evidence \in Digests
  /\ window \in 0..MaxDigest
  /\ insight \in Insights
  /\ asked \in [Digests -> SUBSET Nat]
  /\ overlapped \in BOOLEAN /\ returned \subseteq Digests
  /\ faults \in 0..MaxFaults
  /\ crashes \in 0..MaxCrashes

JobsOK ==
  /\ status \in [Digests -> Statuses]
  /\ attempts \in [Digests -> 0..MaxAttempts]
  /\ expired \in [Digests -> BOOLEAN]

RunnersOK ==
  /\ rpc \in [Runners -> RunnerSteps]
  /\ rdig \in [Runners -> Digests]

WorkersOK ==
  /\ wpc \in [Workers -> WorkerSteps]
  /\ wjob \in [Workers -> Digests]
  /\ wtry \in [Workers -> 0..MaxAttempts]
  /\ wseen \in [Workers -> 0..MaxDigest]
  /\ wbase \in [Workers -> 0..MaxDigest]

TypeOK == StoreOK /\ JobsOK /\ RunnersOK /\ WorkersOK

Init ==
  /\ evidence = 1
  /\ window = 0
  /\ insight = [base |-> 0, text |-> "none", about |-> 0]
  /\ status = [d \in Digests |-> "absent"]
  /\ attempts = [d \in Digests |-> 0]
  /\ expired = [d \in Digests |-> FALSE]
  /\ rpc = [r \in Runners |-> "idle"]
  /\ rdig = [r \in Runners |-> 1]
  /\ wpc = [w \in Workers |-> "idle"]
  /\ wjob = [w \in Workers |-> 1]
  /\ wtry = [w \in Workers |-> 0]
  /\ wseen = [w \in Workers |-> 0]
  /\ wbase = [w \in Workers |-> 0]
  /\ asked = [d \in Digests |-> {}]
  /\ overlapped = FALSE /\ returned = {}
  /\ faults = 0
  /\ crashes = 0

Fault == faults < MaxFaults /\ faults' = faults + 1
Crash == crashes < MaxCrashes /\ crashes' = crashes + 1

(* Other pipelines add rows to the ledgers the window is built from,       *)
(* rewrite their metrics, and touch the timestamps that place them in it.  *)
EvidenceChanges ==
  /\ evidence' \in Digests
  /\ UNCHANGED <<pastVars, window, insight, jobVars, runnerVars, workerVars, asked, faults, crashes>>

-----------------------------------------------------------------------------
(* materializeSyncraticContexts for one asset.                             *)

(* loadSyncraticContextLedger and buildSyncraticContextWindowWithLedger.   *)
BuildWindow(r) ==
  /\ rpc[r] = "idle"
  /\ rdig' = [rdig EXCEPT ![r] = evidence]
  /\ rpc' = [rpc EXCEPT ![r] = "compare"]
  /\ overlapped' = (overlapped \/ \E q \in Runners : rpc[q] # "idle")
  /\ UNCHANGED <<returned, evidence, window, insight, jobVars, workerVars, asked, faults, crashes>>

(* ListSyncraticContextWindows: a window whose stored digest is the one    *)
(* just built is skipped as unchanged.                                     *)
SkipUnchanged(r) ==
  /\ rpc[r] = "compare"
  /\ rpc' = [rpc EXCEPT ![r] = IF window = rdig[r] THEN "idle" ELSE "window"]
  /\ UNCHANGED <<pastVars, evidence, window, insight, jobVars, rdig, workerVars, asked, faults, crashes>>

UpsertSyncraticContextWindow(r) ==
  /\ rpc[r] = "window"
  /\ window' = rdig[r]
  /\ rpc' = [rpc EXCEPT ![r] = "insight"]
  /\ returned' = returned \cup {d \in {rdig[r]} : status[d] # "absent"}
  /\ UNCHANGED <<overlapped, evidence, insight, jobVars, rdig, workerVars, asked, faults, crashes>>

(* buildSyncraticInsight: the deterministic text over the built evidence.  *)
ContextInsight(d) == [base |-> d, text |-> "context", about |-> d]

UpsertContextInsight(r) ==
  /\ rpc[r] = "insight"
  /\ insight' = ContextInsight(rdig[r])
  /\ rpc' = [rpc EXCEPT ![r] = "job"]
  /\ UNCHANGED <<pastVars, evidence, window, jobVars, rdig, workerVars, asked, faults, crashes>>

(* INSERT ... ON CONFLICT DO NOTHING.                                      *)
UpsertSyncraticIntelligenceJob(d) ==
  /\ status' = [status EXCEPT ![d] = IF @ = "absent" THEN "queued" ELSE @]
  /\ UNCHANGED <<attempts, expired>>

EnqueueBrief(r) ==
  /\ rpc[r] = "job"
  /\ UpsertSyncraticIntelligenceJob(rdig[r])
  /\ rpc' = [rpc EXCEPT ![r] = "idle"]
  /\ UNCHANGED <<pastVars, evidence, window, insight, rdig, workerVars, asked, faults, crashes>>

(* A statement fails and the run returns its error, or the process ends.   *)
RunnerFails(r) ==
  /\ rpc[r] # "idle"
  /\ Crash
  /\ rpc' = [rpc EXCEPT ![r] = "idle"]
  /\ UNCHANGED <<pastVars, evidence, window, insight, jobVars, rdig, workerVars, asked, faults>>

-----------------------------------------------------------------------------
(* The job table.                                                          *)

(* A lease of two minutes runs out, whatever its holder is doing.          *)
LeaseExpires(d) ==
  /\ status[d] = "running" /\ ~expired[d]
  /\ expired' = [expired EXCEPT ![d] = TRUE]
  /\ UNCHANGED <<pastVars, evidence, window, insight, status, attempts, runnerVars, workerVars, asked, faults, crashes>>

(* Wrong variant: an expired lease is never taken over.                    *)
ClaimableQueued(d) ==
  /\ status[d] \in {"queued", "retryable_failed"}
  /\ attempts[d] < MaxAttempts

Claimable(d) ==
  /\ status[d] \in {"queued", "retryable_failed"} \/ (status[d] = "running" /\ expired[d])
  /\ attempts[d] < MaxAttempts

(* The oldest claimable row that no other replica is locking.              *)
ClaimSyncraticIntelligenceJob(w) ==
  /\ wpc[w] = "idle"
  /\ \E d \in Digests :
       /\ Claimable(d)
       /\ status' = [status EXCEPT ![d] = "running"]
       /\ attempts' = [attempts EXCEPT ![d] = @ + 1]
       /\ expired' = [expired EXCEPT ![d] = FALSE]
       /\ wjob' = [wjob EXCEPT ![w] = d]
       /\ wtry' = [wtry EXCEPT ![w] = attempts[d] + 1]
  /\ wpc' = [wpc EXCEPT ![w] = "window"]
  /\ overlapped' = (overlapped \/ \E v \in Workers : wpc[v] # "idle")
  /\ UNCHANGED <<returned, evidence, window, insight, runnerVars, wseen, wbase, asked, faults, crashes>>

(* Neither result statement asks whether the caller still holds the lease. *)
CompleteSyncraticIntelligenceJob(w) ==
  /\ wpc[w] = "complete"
  /\ status' = [status EXCEPT ![wjob[w]] = "completed"]
  /\ expired' = [expired EXCEPT ![wjob[w]] = FALSE]
  /\ wpc' = [wpc EXCEPT ![w] = "idle"]
  /\ UNCHANGED <<pastVars, evidence, window, insight, attempts, runnerVars, wjob, wtry, wseen, wbase, asked, faults, crashes>>

FailedStatus(d) == IF attempts[d] >= MaxAttempts THEN "failed" ELSE "retryable_failed"

FailSyncraticIntelligenceJob(w) ==
  /\ wpc[w] = "fail"
  /\ status' = [status EXCEPT ![wjob[w]] = FailedStatus(wjob[w])]
  /\ expired' = [expired EXCEPT ![wjob[w]] = FALSE]
  /\ wpc' = [wpc EXCEPT ![w] = "idle"]
  /\ UNCHANGED <<pastVars, evidence, window, insight, attempts, runnerVars, wjob, wtry, wseen, wbase, asked, faults, crashes>>

-----------------------------------------------------------------------------
(* processSyncraticIntelligenceJob and enrichSyncraticInsightWithAsk.      *)

Step(w, from, to) == wpc[w] = from /\ wpc' = [wpc EXCEPT ![w] = to]
Unmoved == UNCHANGED <<pastVars, evidence, window, jobVars, runnerVars, wjob, wtry, faults, crashes>>

ReadWindow(w) ==
  /\ Step(w, "window", IF window \in Bare THEN "coverage" ELSE "prompt")
  /\ wseen' = [wseen EXCEPT ![w] = window]
  /\ Unmoved /\ UNCHANGED <<insight, wbase, asked>>

(* syncraticInsightForContextType: the stored row, or a new context row.   *)
InsightForContextType(w) ==
  IF insight.base = 0 THEN ContextInsight(wseen[w]) ELSE insight

ReadCoverageInsight(w) ==
  /\ Step(w, "coverage", "cover")
  /\ insight' = InsightForContextType(w)
  /\ wbase' = [wbase EXCEPT ![w] = insight'.base]
  /\ Unmoved /\ UNCHANGED <<wseen, asked>>

(* enrichSyncraticInsightWithAsk reads the window a second time.           *)
ReadPrompt(w) ==
  /\ Step(w, "prompt", "insight")
  /\ wseen' = [wseen EXCEPT ![w] = window]
  /\ Unmoved /\ UNCHANGED <<insight, wbase, asked>>

(* Wrong variant: any earlier answer counts, whatever it was about.        *)
AnsweredBefore(w) == InsightForContextType(w).text = "answer"

syncraticAskAlreadyApplied(w) ==
  LET row == InsightForContextType(w) IN row.text = "answer" /\ row.about = wseen[w]

ReadInsight(w) ==
  /\ Step(w, "insight", IF syncraticAskAlreadyApplied(w) THEN "complete" ELSE "ask")
  /\ insight' = InsightForContextType(w)
  /\ wbase' = [wbase EXCEPT ![w] = insight'.base]
  /\ Unmoved /\ UNCHANGED <<wseen, asked>>

(* One call of the Ask API; it answers, or fails after up to a minute.     *)
Called(w) == asked' = [asked EXCEPT ![wjob[w]] = @ \cup {wtry[w]}]

Ask(w) ==
  /\ Step(w, "ask", "write")
  /\ Called(w)
  /\ Unmoved /\ UNCHANGED <<insight, wseen, wbase>>

(* Wrong variant: a failed call is repeated under the same claim.          *)
AskAgain(w) ==
  /\ Step(w, "ask", "ask")
  /\ Called(w)
  /\ Fault
  /\ UNCHANGED <<pastVars, evidence, window, insight, jobVars, runnerVars, wjob, wtry, wseen, wbase, crashes>>

AskFails(w) ==
  /\ Step(w, "ask", "fail")
  /\ Called(w)
  /\ Fault
  /\ UNCHANGED <<pastVars, evidence, window, insight, jobVars, runnerVars, wjob, wtry, wseen, wbase, crashes>>

(* The row that was read, with the text over the window that was read.     *)
Rewritten(w) ==
  [base |-> wbase[w], text |-> IF wpc[w] = "write" THEN "answer" ELSE "coverage", about |-> wseen[w]]

UpsertSyncraticInsight(w) ==
  /\ Step(w, "write", "complete") \/ Step(w, "cover", "complete")
  /\ insight' = Rewritten(w)
  /\ Unmoved /\ UNCHANGED <<wseen, wbase, asked>>

(* A read or the upsert fails; a failed upsert may have taken effect.      *)
StatementFails(w) ==
  /\ wpc[w] \in {"window", "coverage", "cover", "prompt", "insight", "write"}
  /\ wpc' = [wpc EXCEPT ![w] = "fail"]
  /\ insight' \in IF wpc[w] \in {"write", "cover"} THEN {insight, Rewritten(w)} ELSE {insight}
  /\ Fault
  /\ UNCHANGED <<pastVars, evidence, window, jobVars, runnerVars, wjob, wtry, wseen, wbase, asked, crashes>>

(* The replica stops, or the error of its result statement is discarded.   *)
Abandon(w) ==
  /\ wpc[w] # "idle"
  /\ Crash
  /\ wpc' = [wpc EXCEPT ![w] = "idle"]
  /\ UNCHANGED <<pastVars, evidence, window, insight, jobVars, runnerVars, wjob, wtry, wseen, wbase, asked, faults>>

-----------------------------------------------------------------------------
Materialize(r) ==
  \/ BuildWindow(r)
  \/ SkipUnchanged(r)
  \/ UpsertSyncraticContextWindow(r)
  \/ UpsertContextInsight(r)
  \/ EnqueueBrief(r)

Runner(r) == Materialize(r) \/ RunnerFails(r)

(* What a replica does by itself, from the claim to the result.            *)
Process(w) ==
  \/ ClaimSyncraticIntelligenceJob(w)
  \/ ReadWindow(w)
  \/ ReadCoverageInsight(w)
  \/ ReadPrompt(w)
  \/ ReadInsight(w)
  \/ Ask(w)
  \/ UpsertSyncraticInsight(w)
  \/ CompleteSyncraticIntelligenceJob(w)
  \/ FailSyncraticIntelligenceJob(w)

Worker(w) == Process(w) \/ AskFails(w) \/ StatementFails(w) \/ Abandon(w)

Next ==
  \/ EvidenceChanges
  \/ \E r \in Runners : Runner(r)
  \/ \E d \in Digests : LeaseExpires(d)
  \/ \E w \in Workers : Worker(w)

Spec == Init /\ [][Next]_vars

(* The worker's ticker keeps calling it, statements and Ask calls return,  *)
(* and time passes, so a lease that nobody gives back runs out.            *)
Fairness ==
  /\ \A w \in Workers : WF_vars(Process(w))
  /\ \A d \in Digests : WF_vars(LeaseExpires(d))

FairSpec == Spec /\ Fairness

-----------------------------------------------------------------------------
(* Retries are bounded across replicas and stale holders: every call of    *)
(* the Ask API belongs to a claim of its job that no other call used, and  *)
(* claims never exceed max_attempts.                                       *)
AsksWithinAttempts ==
  /\ \A d \in Digests : asked[d] \subseteq 1..attempts[d] /\ attempts[d] <= MaxAttempts
  /\ \A w \in Workers : wpc[w] = "ask" => wtry[w] \notin asked[wjob[w]]

(* A job is given up only when its attempts are used, and one that waits   *)
(* for another attempt has one left, also when a stale holder's result     *)
(* arrives after other replicas have claimed the job again.                *)
StatusMatchesAttempts ==
  \A d \in Digests :
    /\ status[d] \in {"absent", "queued"} => attempts[d] = 0
    /\ status[d] = "retryable_failed" => attempts[d] < MaxAttempts
    /\ status[d] = "failed" => attempts[d] = MaxAttempts


(* Once the job of the stored window is completed the overview is about    *)
(* that window and no earlier one, and not the deterministic text, though  *)
(* windows are rewritten and results lost while answers are under way.     *)
(* Not so when runners or replicas overlapped, whose whole-row writes      *)
(* undo each other, or when the evidence came back to a digest that had a  *)
(* job: ON CONFLICT DO NOTHING (syncratic_intelligence_jobs.go:25) leaves  *)
(* that job completed under the new deterministic text.                    *)
OverviewIsCurrent ==
  ~overlapped /\ window # 0 /\ window \notin returned =>
    (status[window] = "completed" => insight.about = window /\ insight.text # "context")

(* Nobody works on the job any more and its attempts are used up.          *)
LastAttemptLost(d) ==
  /\ status[d] = "running" /\ attempts[d] = MaxAttempts
  /\ \A w \in Workers : wpc[w] # "idle" => wjob[w] # d

(* "A durable job ledger delivers the natural-language overview            *)
(* asynchronously with leased retries": leases recover a job from crashes, *)
(* so a queued job is eventually completed or failed, except when the      *)
(* replica running its last attempt stops and nobody may claim it again    *)
(* (the claim at syncratic_intelligence_jobs.go:41-55).                    *)
BriefSettlesOrLost ==
  \A d \in Digests :
    status[d] = "queued" ~> (status[d] \in {"completed", "failed"} \/ LastAttemptLost(d))
=============================================================================
