------------------------- MODULE SyncraticJobsProofs -------------------------
(***************************************************************************)
(* TLAPS proofs about SyncraticJobs, for any number of runners, replicas,  *)
(* digests, attempts, faults and crashes.                                  *)
(***************************************************************************)
EXTENDS SyncraticJobs, TLAPS

(* The stages of a worker that holds a claim and has not called Ask yet.   *)
BeforeAsk == {"window", "coverage", "cover", "prompt", "insight", "ask"}

(* Every active worker holds an attempt of its job that no other active    *)
(* worker holds, and until it has called Ask no call used that attempt.    *)
AttemptsHeld ==
  /\ \A d \in Digests : asked[d] \subseteq 1..attempts[d]
  /\ \A w \in Workers : wpc[w] # "idle" => wtry[w] \in 1..attempts[wjob[w]]
  /\ \A w \in Workers : wpc[w] \in BeforeAsk => wtry[w] \notin asked[wjob[w]]
  /\ \A v, w \in Workers :
       v # w /\ wpc[v] # "idle" /\ wpc[w] # "idle" /\ wjob[v] = wjob[w] => wtry[v] # wtry[w]

Inv == TypeOK /\ AttemptsHeld /\ StatusMatchesAttempts

LEMMA InitInv == Init => Inv
<1> SUFFICES ASSUME Init PROVE Inv
  OBVIOUS
<1>1. TypeOK
  <2>1. overlapped \in BOOLEAN /\ returned \subseteq Digests
    BY DEF Init
  <2>2. StoreOK
    BY <2>1, ConstantsAssumption DEF Init, StoreOK, Digests, Insights
  <2>3. JobsOK /\ RunnersOK /\ WorkersOK
    BY ConstantsAssumption DEF Init, JobsOK, RunnersOK, WorkersOK, Digests, Statuses, RunnerSteps, WorkerSteps
  <2> QED BY <2>2, <2>3 DEF TypeOK
<1>2. AttemptsHeld
  BY DEF Init, AttemptsHeld, BeforeAsk
<1>3. StatusMatchesAttempts
  BY DEF Init, StatusMatchesAttempts
<1> QED BY <1>1, <1>2, <1>3 DEF Inv

(* What a step does to the variables that AttemptsHeld and                 *)
(* StatusMatchesAttempts are about, when it touches none of them.          *)
LEMMA UntouchedInv ==
  ASSUME Inv, UNCHANGED <<jobVars, workerVars, asked>>
  PROVE  JobsOK' /\ WorkersOK' /\ AttemptsHeld' /\ StatusMatchesAttempts'
<1> USE DEF Inv, TypeOK, jobVars, workerVars
<1>1. JobsOK' /\ WorkersOK'
  BY DEF JobsOK, WorkersOK
<1>2. AttemptsHeld' /\ StatusMatchesAttempts'
  BY DEF AttemptsHeld, StatusMatchesAttempts
<1> QED BY <1>1, <1>2

LEMMA RunnerInv ==
  ASSUME Inv, NEW r \in Runners, Runner(r)
  PROVE  Inv'
<1>0. /\ evidence \in Digests /\ window \in 0..MaxDigest /\ insight \in Insights
      /\ rpc \in [Runners -> RunnerSteps] /\ rdig \in [Runners -> Digests]
  BY DEF Inv, TypeOK, pastVars, StoreOK, RunnersOK
<1>1. CASE BuildWindow(r)
  <2>1. overlapped' \in BOOLEAN
    BY <1>0, <1>1 DEF BuildWindow, Inv, TypeOK, StoreOK
  <2>2. StoreOK' /\ RunnersOK'
    BY <1>0, <1>1, <2>1 DEF BuildWindow, Inv, TypeOK, StoreOK, RunnersOK, RunnerSteps
  <2> QED BY <1>1, <2>2, UntouchedInv DEF BuildWindow, Inv, TypeOK
<1>2. CASE UpsertSyncraticContextWindow(r)
  <2>1. rdig[r] \in Digests /\ rdig[r] \in 0..MaxDigest
    BY <1>0, ConstantsAssumption DEF Digests
  <2>2. returned' \subseteq Digests /\ overlapped' \in BOOLEAN
    BY <1>2, <2>1 DEF UpsertSyncraticContextWindow, Inv, TypeOK, StoreOK
  <2>3. StoreOK' /\ RunnersOK'
    BY <1>0, <1>2, <2>1, <2>2 DEF UpsertSyncraticContextWindow, Inv, TypeOK, StoreOK, RunnersOK, RunnerSteps
  <2> QED BY <1>2, <2>3, UntouchedInv DEF UpsertSyncraticContextWindow, Inv, TypeOK
<1>3. CASE UpsertContextInsight(r)
  <2>1. rdig[r] \in 0..MaxDigest
    BY <1>0, ConstantsAssumption DEF Digests
  <2>2. insight' \in Insights
    BY <1>3, <2>1 DEF UpsertContextInsight, ContextInsight, Insights
  <2>3. StoreOK' /\ RunnersOK'
    BY <1>0, <1>3, <2>2 DEF UpsertContextInsight, Inv, TypeOK, pastVars, StoreOK, RunnersOK, RunnerSteps
  <2> QED BY <1>3, <2>3, UntouchedInv DEF UpsertContextInsight, Inv, TypeOK
<1>4. CASE EnqueueBrief(r)
  <2>1. /\ UNCHANGED <<attempts, expired, workerVars, asked>>
        /\ status' = [status EXCEPT ![rdig[r]] = IF @ = "absent" THEN "queued" ELSE @]
    BY <1>4 DEF EnqueueBrief, UpsertSyncraticIntelligenceJob
  <2>2. StoreOK' /\ RunnersOK'
    BY <1>0, <1>4 DEF EnqueueBrief, Inv, TypeOK, pastVars, StoreOK, RunnersOK, RunnerSteps
  <2>3. JobsOK' /\ WorkersOK'
    BY <1>0, <2>1 DEF Inv, TypeOK, JobsOK, WorkersOK, Statuses, workerVars
  <2>4. AttemptsHeld'
    BY <2>1 DEF Inv, AttemptsHeld, workerVars
  <2>5. StatusMatchesAttempts'
    BY <1>0, <2>1 DEF Inv, TypeOK, JobsOK, StatusMatchesAttempts
  <2> QED BY <2>2, <2>3, <2>4, <2>5 DEF Inv, TypeOK
<1>5. CASE RunnerFails(r)
  <2>1. StoreOK' /\ RunnersOK'
    BY <1>0, <1>5, ConstantsAssumption
    DEF RunnerFails, Crash, Inv, TypeOK, pastVars, StoreOK, RunnersOK, RunnerSteps
  <2> QED BY <1>5, <2>1, UntouchedInv DEF RunnerFails, Inv, TypeOK
<1>6. CASE SkipUnchanged(r)
  <2>1. StoreOK' /\ RunnersOK'
    BY <1>0, <1>6 DEF SkipUnchanged, Inv, TypeOK, pastVars, StoreOK, RunnersOK, RunnerSteps
  <2> QED BY <1>6, <2>1, UntouchedInv DEF SkipUnchanged, Inv, TypeOK
<1> QED BY <1>1, <1>2, <1>3, <1>4, <1>5, <1>6 DEF Runner, Materialize

(* A worker's step that leaves the job table alone and neither claims a    *)
(* job nor calls Ask.                                                      *)
LEMMA MovesInv ==
  ASSUME Inv, NEW w \in Workers, NEW to \in WorkerSteps,
         wpc[w] # "idle", wpc' = [wpc EXCEPT ![w] = to],
         to \in BeforeAsk => wpc[w] \in BeforeAsk,
         UNCHANGED <<jobVars, wjob, wtry, asked>>,
         wseen' \in [Workers -> 0..MaxDigest], wbase' \in [Workers -> 0..MaxDigest]
  PROVE  JobsOK' /\ WorkersOK' /\ AttemptsHeld' /\ StatusMatchesAttempts'
<1>1. JobsOK' /\ WorkersOK'
  BY DEF Inv, TypeOK, JobsOK, WorkersOK, jobVars
<1>2. /\ wpc \in [Workers -> WorkerSteps] /\ wpc'[w] = to
      /\ \A v \in Workers : v # w => wpc'[v] = wpc[v]
  BY DEF Inv, TypeOK, WorkersOK
<1>3. AttemptsHeld'
  BY <1>2 DEF Inv, AttemptsHeld, jobVars
<1>4. StatusMatchesAttempts'
  BY DEF Inv, StatusMatchesAttempts, jobVars
<1> QED BY <1>1, <1>3, <1>4

LEMMA ReadsInv ==
  ASSUME Inv, NEW w \in Workers,
         ReadWindow(w) \/ ReadCoverageInsight(w) \/ ReadPrompt(w) \/ ReadInsight(w)
  PROVE  Inv'
<1>0. /\ evidence \in Digests /\ window \in 0..MaxDigest /\ insight \in Insights
      /\ wseen \in [Workers -> 0..MaxDigest] /\ wbase \in [Workers -> 0..MaxDigest]
  BY DEF Inv, TypeOK, pastVars, StoreOK, WorkersOK
<1>1. InsightForContextType(w) \in Insights
  BY <1>0 DEF InsightForContextType, ContextInsight, Insights
<1>2. insight' \in Insights /\ insight'.base \in 0..MaxDigest
  BY <1>0, <1>1 DEF ReadWindow, ReadCoverageInsight, ReadPrompt, ReadInsight, Insights
<1>3. wseen' \in [Workers -> 0..MaxDigest] /\ wbase' \in [Workers -> 0..MaxDigest]
  BY <1>0, <1>2 DEF ReadWindow, ReadCoverageInsight, ReadPrompt, ReadInsight
<1>4. UNCHANGED <<pastVars, evidence, window, jobVars, runnerVars, wjob, wtry, asked, faults, crashes>>
  BY DEF ReadWindow, ReadCoverageInsight, ReadPrompt, ReadInsight, Unmoved
<1>5. PICK to \in {"coverage", "cover", "prompt", "insight", "ask", "complete"} :
        wpc' = [wpc EXCEPT ![w] = to]
  BY DEF ReadWindow, ReadCoverageInsight, ReadPrompt, ReadInsight, Step
<1>6. wpc[w] \in BeforeAsk /\ wpc[w] # "idle"
  BY DEF ReadWindow, ReadCoverageInsight, ReadPrompt, ReadInsight, Step, BeforeAsk
<1>7. JobsOK' /\ WorkersOK' /\ AttemptsHeld' /\ StatusMatchesAttempts'
  BY <1>3, <1>4, <1>5, <1>6, MovesInv DEF WorkerSteps
<1>8. StoreOK' /\ RunnersOK'
  BY <1>2, <1>4 DEF Inv, TypeOK, pastVars, StoreOK, RunnersOK, runnerVars
<1> QED BY <1>7, <1>8 DEF Inv, TypeOK

LEMMA AskInv ==
  ASSUME Inv, NEW w \in Workers, Ask(w) \/ AskFails(w)
  PROVE  Inv'
<1>0. /\ wpc \in [Workers -> WorkerSteps] /\ wjob \in [Workers -> Digests]
      /\ asked \in [Digests -> SUBSET Nat] /\ wtry[w] \in Nat
  BY ConstantsAssumption DEF Inv, TypeOK, pastVars, StoreOK, WorkersOK
<1>1. /\ wpc[w] = "ask" /\ UNCHANGED <<pastVars, evidence, window, insight, jobVars, runnerVars, wjob, wtry, wseen, wbase, crashes>>
      /\ asked' = [asked EXCEPT ![wjob[w]] = @ \cup {wtry[w]}]
      /\ faults' \in 0..MaxFaults
  BY ConstantsAssumption DEF Ask, AskFails, Called, Step, Unmoved, Fault, Inv, TypeOK, pastVars, StoreOK
<1>2. PICK to \in {"write", "fail"} : wpc' = [wpc EXCEPT ![w] = to]
  BY DEF Ask, AskFails, Step
<1>3. StoreOK' /\ RunnersOK'
  <2>1. asked' \in [Digests -> SUBSET Nat]
    BY <1>0, <1>1
  <2> QED BY <1>1, <2>1 DEF Inv, TypeOK, pastVars, StoreOK, RunnersOK, runnerVars
<1>4. JobsOK' /\ WorkersOK'
  BY <1>1, <1>2 DEF Inv, TypeOK, JobsOK, WorkersOK, jobVars, WorkerSteps
<1>5. /\ wpc'[w] \notin BeforeAsk /\ wpc[w] # "idle" /\ wpc[w] \in BeforeAsk
      /\ \A v \in Workers : v # w => wpc'[v] = wpc[v]
  BY <1>0, <1>1, <1>2 DEF BeforeAsk
<1>6. /\ asked'[wjob[w]] = asked[wjob[w]] \cup {wtry[w]}
      /\ \A d \in Digests : d # wjob[w] => asked'[d] = asked[d]
  BY <1>0, <1>1
<1>7. \A d \in Digests : asked'[d] \subseteq 1..attempts[d]
  BY <1>0, <1>5, <1>6 DEF Inv, AttemptsHeld
<1>8. ASSUME NEW v \in Workers, wpc'[v] \in BeforeAsk PROVE wtry[v] \notin asked'[wjob[v]]
  <2>1. v # w /\ wpc[v] \in BeforeAsk /\ wpc[v] # "idle" /\ wjob[v] \in Digests
    BY <1>0, <1>5, <1>8 DEF BeforeAsk
  <2>2. wtry[v] \notin asked[wjob[v]]
    BY <2>1 DEF Inv, AttemptsHeld
  <2>3. wjob[v] = wjob[w] => wtry[v] # wtry[w]
    BY <1>5, <2>1 DEF Inv, AttemptsHeld
  <2> QED BY <1>6, <2>1, <2>2, <2>3
<1>9. AttemptsHeld'
  <2>1. UNCHANGED <<attempts, wjob, wtry>>
    BY <1>1 DEF jobVars
  <2>2. \A v \in Workers : wpc'[v] # "idle" => wpc[v] # "idle"
    BY <1>5
  <2> QED BY <1>7, <1>8, <2>1, <2>2 DEF Inv, AttemptsHeld
<1>10. StatusMatchesAttempts'
  BY <1>1 DEF Inv, StatusMatchesAttempts, jobVars
<1> QED BY <1>3, <1>4, <1>9, <1>10 DEF Inv, TypeOK

LEMMA WriteInv ==
  ASSUME Inv, NEW w \in Workers, UpsertSyncraticInsight(w) \/ StatementFails(w) \/ Abandon(w)
  PROVE  Inv'
<1>0. /\ insight \in Insights /\ wseen \in [Workers -> 0..MaxDigest] /\ wbase \in [Workers -> 0..MaxDigest]
  BY DEF Inv, TypeOK, pastVars, StoreOK, WorkersOK
<1>1. Rewritten(w) \in Insights
  BY <1>0 DEF Rewritten, Insights
<1>2. insight' \in Insights
  BY <1>0, <1>1 DEF UpsertSyncraticInsight, StatementFails, Abandon
<1>3. /\ UNCHANGED <<pastVars, evidence, window, jobVars, runnerVars, wjob, wtry, wseen, wbase, asked>>
      /\ faults' \in 0..MaxFaults /\ crashes' \in 0..MaxCrashes
  BY ConstantsAssumption
  DEF UpsertSyncraticInsight, StatementFails, Abandon, Unmoved, Fault, Crash, Inv, TypeOK, pastVars, StoreOK
<1>4. PICK to \in {"complete", "fail", "idle"} : wpc' = [wpc EXCEPT ![w] = to]
  BY DEF UpsertSyncraticInsight, StatementFails, Abandon, Step
<1>5. wpc[w] # "idle"
  BY DEF UpsertSyncraticInsight, StatementFails, Abandon, Step
<1>6. JobsOK' /\ WorkersOK' /\ AttemptsHeld' /\ StatusMatchesAttempts'
  BY <1>0, <1>3, <1>4, <1>5, MovesInv DEF WorkerSteps, BeforeAsk
<1>7. StoreOK' /\ RunnersOK'
  BY <1>2, <1>3 DEF Inv, TypeOK, pastVars, StoreOK, RunnersOK, runnerVars
<1> QED BY <1>6, <1>7 DEF Inv, TypeOK

LEMMA ResultInv ==
  ASSUME Inv, NEW w \in Workers,
         CompleteSyncraticIntelligenceJob(w) \/ FailSyncraticIntelligenceJob(w)
  PROVE  Inv'
<1>0. /\ status \in [Digests -> Statuses] /\ attempts \in [Digests -> 0..MaxAttempts]
      /\ expired \in [Digests -> BOOLEAN] /\ wpc \in [Workers -> WorkerSteps] /\ wjob[w] \in Digests
  BY DEF Inv, TypeOK, JobsOK, WorkersOK
<1>1. /\ UNCHANGED <<pastVars, evidence, window, insight, attempts, runnerVars, wjob, wtry, wseen, wbase, asked, faults, crashes>>
      /\ expired' = [expired EXCEPT ![wjob[w]] = FALSE]
      /\ wpc' = [wpc EXCEPT ![w] = "idle"] /\ wpc[w] # "idle"
  BY DEF CompleteSyncraticIntelligenceJob, FailSyncraticIntelligenceJob
<1>2. PICK s \in {"completed", "failed", "retryable_failed"} :
        /\ status' = [status EXCEPT ![wjob[w]] = s]
        /\ s = "failed" => attempts[wjob[w]] >= MaxAttempts
        /\ s = "retryable_failed" => ~(attempts[wjob[w]] >= MaxAttempts)
  BY DEF CompleteSyncraticIntelligenceJob, FailSyncraticIntelligenceJob, FailedStatus
<1>3. StoreOK' /\ RunnersOK'
  BY <1>1 DEF Inv, TypeOK, pastVars, StoreOK, RunnersOK, runnerVars
<1>4. JobsOK'
  BY <1>0, <1>1, <1>2 DEF JobsOK, Statuses
<1>5. WorkersOK'
  BY <1>0, <1>1 DEF Inv, TypeOK, WorkersOK, WorkerSteps
<1>6. AttemptsHeld'
  BY <1>0, <1>1 DEF Inv, AttemptsHeld, BeforeAsk
<1>7. StatusMatchesAttempts'
  BY <1>0, <1>1, <1>2, ConstantsAssumption DEF Inv, StatusMatchesAttempts
<1> QED BY <1>3, <1>4, <1>5, <1>6, <1>7 DEF Inv, TypeOK

LEMMA ClaimInv ==
  ASSUME Inv, NEW w \in Workers, ClaimSyncraticIntelligenceJob(w)
  PROVE  Inv'
<1>0. /\ status \in [Digests -> Statuses] /\ attempts \in [Digests -> 0..MaxAttempts]
      /\ expired \in [Digests -> BOOLEAN] /\ wpc \in [Workers -> WorkerSteps]
      /\ wjob \in [Workers -> Digests] /\ wtry \in [Workers -> 0..MaxAttempts]
  BY DEF Inv, TypeOK, JobsOK, WorkersOK
<1>1. PICK d \in Digests :
        /\ Claimable(d)
        /\ status' = [status EXCEPT ![d] = "running"]
        /\ attempts' = [attempts EXCEPT ![d] = @ + 1]
        /\ expired' = [expired EXCEPT ![d] = FALSE]
        /\ wjob' = [wjob EXCEPT ![w] = d]
        /\ wtry' = [wtry EXCEPT ![w] = attempts[d] + 1]
  BY DEF ClaimSyncraticIntelligenceJob
<1>2. /\ wpc' = [wpc EXCEPT ![w] = "window"]
      /\ UNCHANGED <<returned, evidence, window, insight, runnerVars, wseen, wbase, asked, faults, crashes>>
  BY DEF ClaimSyncraticIntelligenceJob
<1>3. attempts[d] + 1 \in 1..MaxAttempts /\ attempts[d] \in Nat
  BY <1>0, <1>1, ConstantsAssumption DEF Claimable
<1>4. StoreOK' /\ RunnersOK'
  <2>1. overlapped' \in BOOLEAN
    BY DEF ClaimSyncraticIntelligenceJob, Inv, TypeOK, StoreOK
  <2> QED BY <1>2, <2>1 DEF Inv, TypeOK, StoreOK, RunnersOK, runnerVars
<1>5. JobsOK'
  BY <1>0, <1>1, <1>3 DEF JobsOK, Statuses
<1>6. WorkersOK'
  BY <1>0, <1>1, <1>2, <1>3 DEF Inv, TypeOK, WorkersOK, WorkerSteps
<1>7. /\ attempts'[d] = attempts[d] + 1 /\ \A e \in Digests : e # d => attempts'[e] = attempts[e]
      /\ \A e \in Digests : attempts[e] <= attempts'[e] /\ attempts[e] \in Nat /\ attempts'[e] \in Nat
  BY <1>0, <1>1, <1>3
<1>8. /\ wpc'[w] = "window" /\ wjob'[w] = d /\ wtry'[w] = attempts[d] + 1
      /\ \A v \in Workers : v # w => wpc'[v] = wpc[v] /\ wjob'[v] = wjob[v] /\ wtry'[v] = wtry[v]
  BY <1>0, <1>1, <1>2
<1>9. \A e \in Digests : asked'[e] \subseteq 1..attempts'[e]
  BY <1>2, <1>7 DEF Inv, AttemptsHeld
<1>10. attempts[d] + 1 \notin asked[d]
  BY <1>3 DEF Inv, AttemptsHeld
<1>11. ASSUME NEW v \in Workers, v # w, wpc[v] # "idle"
       PROVE  wtry[v] \in 1..attempts'[wjob[v]] /\ (wjob[v] = d => wtry[v] # attempts[d] + 1)
  <2>1. wtry[v] \in 1..attempts[wjob[v]] /\ wjob[v] \in Digests
    BY <1>0, <1>11 DEF Inv, AttemptsHeld
  <2> QED BY <1>3, <1>7, <2>1
<1>12. ASSUME NEW v \in Workers, wpc'[v] # "idle" PROVE wtry'[v] \in 1..attempts'[wjob'[v]]
  BY <1>3, <1>7, <1>8, <1>11, <1>12
<1>13. ASSUME NEW v \in Workers, wpc'[v] \in BeforeAsk PROVE wtry'[v] \notin asked'[wjob'[v]]
  BY <1>2, <1>8, <1>10, <1>13 DEF Inv, AttemptsHeld
<1>14. ASSUME NEW u \in Workers, NEW v \in Workers, u # v, wpc'[u] # "idle", wpc'[v] # "idle",
              wjob'[u] = wjob'[v]
       PROVE  wtry'[u] # wtry'[v]
  <2>1. CASE u # w /\ v # w
    BY <1>8, <1>14, <2>1 DEF Inv, AttemptsHeld
  <2>2. CASE u = w
    BY <1>8, <1>11, <1>14, <2>2
  <2>3. CASE v = w
    BY <1>8, <1>11, <1>14, <2>3
  <2> QED BY <2>1, <2>2, <2>3
<1>15. AttemptsHeld'
  BY <1>9, <1>12, <1>13, <1>14 DEF AttemptsHeld
<1>16. StatusMatchesAttempts'
  BY <1>0, <1>1, <1>7 DEF Inv, StatusMatchesAttempts
<1> QED BY <1>4, <1>5, <1>6, <1>15, <1>16 DEF Inv, TypeOK

LEMMA NextInv == Inv /\ [Next]_vars => Inv'
<1> SUFFICES ASSUME Inv, [Next]_vars PROVE Inv'
  OBVIOUS
<1>1. CASE EvidenceChanges
  <2>1. StoreOK' /\ RunnersOK'
    BY <1>1, ConstantsAssumption
    DEF EvidenceChanges, Inv, TypeOK, pastVars, StoreOK, RunnersOK, runnerVars, Digests
  <2> QED BY <1>1, <2>1, UntouchedInv DEF EvidenceChanges, Inv, TypeOK
<1>2. ASSUME NEW d \in Digests, LeaseExpires(d) PROVE Inv'
  <2>1. StoreOK' /\ RunnersOK'
    BY <1>2 DEF LeaseExpires, Inv, TypeOK, pastVars, StoreOK, RunnersOK, runnerVars
  <2>2. JobsOK' /\ WorkersOK'
    BY <1>2 DEF LeaseExpires, Inv, TypeOK, JobsOK, WorkersOK, workerVars
  <2>3. AttemptsHeld' /\ StatusMatchesAttempts'
    BY <1>2 DEF LeaseExpires, Inv, AttemptsHeld, StatusMatchesAttempts, workerVars
  <2> QED BY <2>1, <2>2, <2>3 DEF Inv, TypeOK
<1>3. CASE UNCHANGED vars
  <2>1. StoreOK' /\ RunnersOK'
    BY <1>3 DEF vars, Inv, TypeOK, pastVars, StoreOK, RunnersOK, runnerVars
  <2> QED BY <1>3, <2>1, UntouchedInv DEF vars, Inv, TypeOK
<1>4. ASSUME NEW w \in Workers, Worker(w) PROVE Inv'
  BY <1>4, ReadsInv, AskInv, WriteInv, ResultInv, ClaimInv DEF Worker, Process
<1> QED BY <1>1, <1>2, <1>3, <1>4, RunnerInv DEF Next

LEMMA SpecInv == Spec => []Inv
  BY InitInv, NextInv, PTL DEF Spec

(* Every variable keeps its type: attempts never leaves 0..max_attempts.   *)
THEOREM TypeCorrect == Spec => []TypeOK
<1>1. Inv => TypeOK
  BY DEF Inv
<1> QED BY <1>1, SpecInv, PTL

(* However many replicas share the queue, whatever leases expire and       *)
(* whoever crashes, no attempt of a job calls the Ask API twice and no job *)
(* has more than max_attempts attempts.                                    *)
THEOREM AskBudget == Spec => []AsksWithinAttempts
<1>1. Inv => AsksWithinAttempts
  BY ConstantsAssumption DEF Inv, TypeOK, JobsOK, AttemptsHeld, AsksWithinAttempts, BeforeAsk
<1> QED BY <1>1, SpecInv, PTL

(* A job is failed exactly when its attempts are used up, and retryable    *)
(* only while one is left, also under late results of stale holders.       *)
THEOREM AttemptsExplainStatus == Spec => []StatusMatchesAttempts
<1>1. Inv => StatusMatchesAttempts
  BY DEF Inv
<1> QED BY <1>1, SpecInv, PTL

-----------------------------------------------------------------------------
(* As long as neither runners nor workers overlap, the overview of a       *)
(* completed brief is about the stored window, unless that window has come *)
(* back.  A window that has not come back was stored before its job was    *)
(* created, so whoever works on that job, or on any job after it is        *)
(* completed, has read that window and not an earlier one.                 *)

(* The stages of a worker that may still write over a window it has read.  *)
Reading == {"coverage", "cover", "prompt", "insight", "ask", "write", "complete"}

Answered == insight.about = window /\ insight.text # "context"

New == window # 0 /\ window \notin returned

OneAtWork ==
  /\ \A q, r \in Runners : rpc[q] # "idle" /\ rpc[r] # "idle" => q = r
  /\ \A v, w \in Workers : wpc[v] # "idle" /\ wpc[w] # "idle" => v = w

(* A runner past its window is about a window without a job, or one that   *)
(* has come back.                                                          *)
RunnersFollowWindow ==
  \A r \in Runners :
    /\ rpc[r] \in {"insight", "job"} => rdig[r] = window /\ (New => status[window] = "absent")
    /\ rpc[r] = "job" => insight.base # 0

(* There is an overview row before there is a job, and it stays.           *)
RowsStay ==
  /\ \A d \in Digests : status[d] # "absent" => insight.base # 0
  /\ \A w \in Workers : wpc[w] \in {"cover", "ask", "write"} => wbase[w] # 0

HolderRuns == \A w \in Workers : wpc[w] # "idle" => status[wjob[w]] = "running"

WorkersFollowWindow ==
  \A w \in Workers :
    New /\ wjob[w] = window =>
      /\ wpc[w] \in Reading => wseen[w] = window
      /\ wpc[w] = "complete" => Answered

CompletedIsAnswered ==
  New /\ status[window] = "completed" =>
    Answered /\ \A w \in Workers : wpc[w] \in Reading => wseen[w] = window

Overview ==
  /\ OneAtWork /\ RunnersFollowWindow /\ RowsStay
  /\ HolderRuns /\ WorkersFollowWindow /\ CompletedIsAnswered

LEMMA OverviewTypes ==
  ASSUME TypeOK
  PROVE  /\ window \in 0..MaxDigest /\ 0 \notin Digests /\ (window # 0 => window \in Digests)
         /\ status \in [Digests -> Statuses]
         /\ rpc \in [Runners -> RunnerSteps] /\ rdig \in [Runners -> Digests]
         /\ wpc \in [Workers -> WorkerSteps] /\ wjob \in [Workers -> Digests]
         /\ wseen \in [Workers -> 0..MaxDigest] /\ wbase \in [Workers -> 0..MaxDigest]
  BY ConstantsAssumption DEF TypeOK, StoreOK, JobsOK, RunnersOK, WorkersOK, Digests

(* A runner between two of its statements is the only one.                 *)
LEMMA RunnerOverview ==
  ASSUME TypeOK, Overview, ~overlapped', NEW r \in Runners, Runner(r)
  PROVE  Overview'
<1>0. /\ 0 \notin Digests /\ (window # 0 => window \in Digests) /\ rdig[r] \in Digests
      /\ status \in [Digests -> Statuses]
      /\ rpc \in [Runners -> RunnerSteps] /\ rdig \in [Runners -> Digests]
      /\ \A w \in Workers : wjob[w] \in Digests
  BY OverviewTypes
<1>1. UNCHANGED workerVars
  BY DEF Runner, Materialize, BuildWindow, SkipUnchanged, UpsertSyncraticContextWindow,
     UpsertContextInsight, EnqueueBrief, RunnerFails
<1>2. /\ \A q \in Runners \ {r} : rpc[q] = "idle" /\ rpc'[q] = "idle"
      /\ rpc' = [rpc EXCEPT ![r] = rpc'[r]]
  <2>1. CASE BuildWindow(r)
    BY <1>0, <2>1 DEF BuildWindow
  <2>2. CASE ~BuildWindow(r)
    <3>1. rpc[r] # "idle" /\ rpc' = [rpc EXCEPT ![r] = rpc'[r]]
      BY <1>0, <2>2 DEF Runner, Materialize, SkipUnchanged, UpsertSyncraticContextWindow,
         UpsertContextInsight, EnqueueBrief, RunnerFails
    <3> QED BY <1>0, <3>1 DEF Overview, OneAtWork
  <2> QED BY <2>1, <2>2
<1>3. OneAtWork'
  BY <1>1, <1>2 DEF Overview, OneAtWork, workerVars
<1>4. CASE BuildWindow(r) \/ SkipUnchanged(r) \/ RunnerFails(r)
  <2>1. UNCHANGED <<window, insight, status, returned>> /\ rpc'[r] \in {"compare", "window", "idle"}
    BY <1>0, <1>4 DEF BuildWindow, SkipUnchanged, RunnerFails, jobVars, pastVars
  <2>2. RunnersFollowWindow'
    BY <1>2, <2>1 DEF RunnersFollowWindow
  <2> QED BY <1>1, <1>3, <2>1, <2>2
      DEF Overview, RowsStay, HolderRuns, WorkersFollowWindow, CompletedIsAnswered, Answered, New, workerVars
<1>5. CASE UpsertSyncraticContextWindow(r)
  <2>1. /\ window' = rdig[r] /\ rdig' = rdig /\ rpc'[r] = "insight"
        /\ returned' = returned \cup {d \in {rdig[r]} : status[d] # "absent"}
        /\ UNCHANGED <<insight, status>>
    BY <1>0, <1>5 DEF UpsertSyncraticContextWindow, jobVars
  <2>2. New' => status'[window'] = "absent"
    BY <2>1 DEF New
  <2>3. RunnersFollowWindow'
    BY <1>2, <2>1, <2>2 DEF RunnersFollowWindow
  <2>4. RowsStay' /\ HolderRuns'
    BY <1>1, <2>1 DEF Overview, RowsStay, HolderRuns, workerVars
  <2>5. WorkersFollowWindow' /\ CompletedIsAnswered'
    BY <2>2, <2>4 DEF HolderRuns, WorkersFollowWindow, CompletedIsAnswered, Reading
  <2> QED BY <1>3, <2>3, <2>4, <2>5 DEF Overview
<1>6. CASE UpsertContextInsight(r)
  <2>1. /\ rpc[r] = "insight" /\ insight' = ContextInsight(rdig[r]) /\ rpc'[r] = "job"
        /\ UNCHANGED <<window, status, rdig, returned>>
    BY <1>0, <1>6 DEF UpsertContextInsight, jobVars, pastVars
  <2>2. insight'.base # 0 /\ rdig[r] = window /\ (New => status[window] = "absent")
    BY <1>0, <2>1 DEF ContextInsight, Overview, RunnersFollowWindow
  <2>3. RunnersFollowWindow'
    BY <1>2, <2>1, <2>2 DEF RunnersFollowWindow, New
  <2>4. RowsStay' /\ HolderRuns'
    BY <1>1, <2>1, <2>2 DEF Overview, RowsStay, HolderRuns, workerVars
  <2>5. WorkersFollowWindow' /\ CompletedIsAnswered'
    BY <2>1, <2>2, <2>4 DEF HolderRuns, WorkersFollowWindow, CompletedIsAnswered, New, Reading
  <2> QED BY <1>3, <2>3, <2>4, <2>5 DEF Overview
<1>7. CASE EnqueueBrief(r)
  <2>1. /\ rpc[r] = "job" /\ rpc'[r] = "idle"
        /\ status' = [status EXCEPT ![rdig[r]] = IF @ = "absent" THEN "queued" ELSE @]
        /\ UNCHANGED <<window, insight, rdig, returned>>
    BY <1>0, <1>7 DEF EnqueueBrief, UpsertSyncraticIntelligenceJob, pastVars
  <2>2. \A d \in Digests : status'[d] = status[d] \/ (status[d] = "absent" /\ status'[d] = "queued")
    BY <1>0, <2>1
  <2>3. RunnersFollowWindow'
    BY <1>2, <2>1 DEF RunnersFollowWindow
  <2>4. RowsStay'
    BY <1>1, <2>1 DEF Overview, RunnersFollowWindow, RowsStay, workerVars
  <2>5. HolderRuns'
    BY <1>0, <1>1, <2>2 DEF Overview, HolderRuns, workerVars
  <2>6. WorkersFollowWindow' /\ CompletedIsAnswered'
    BY <1>0, <1>1, <2>1, <2>2
    DEF Overview, WorkersFollowWindow, CompletedIsAnswered, Answered, New, workerVars
  <2> QED BY <1>3, <2>3, <2>4, <2>5, <2>6 DEF Overview
<1> QED BY <1>4, <1>5, <1>6, <1>7 DEF Runner, Materialize

(* A step of the worker that leaves the job table alone.                   *)
LEMMA ReadingOverview ==
  ASSUME TypeOK, Overview, NEW w \in Workers,
         wpc[w] # "idle", wpc' = [wpc EXCEPT ![w] = wpc'[w]],
         UNCHANGED <<window, status, rpc, rdig, wjob, returned>>,
         insight'.base # 0,
         New /\ wpc'[w] \in Reading /\ wjob[w] = window => wseen'[w] = window,
         New /\ wpc'[w] = "complete" /\ wjob[w] = window => Answered',
         wpc'[w] \in {"cover", "ask", "write"} => wbase'[w] # 0,
         New /\ status[window] = "completed" =>
           Answered' /\ (wpc'[w] \in Reading => wseen'[w] = window)
  PROVE  Overview'
<1>1. \A v \in Workers \ {w} : wpc[v] = "idle" /\ wpc'[v] = "idle"
  BY OverviewTypes DEF Overview, OneAtWork
<1>2. OneAtWork' /\ RunnersFollowWindow' /\ RowsStay' /\ HolderRuns'
  BY <1>1 DEF Overview, OneAtWork, RunnersFollowWindow, RowsStay, HolderRuns, New
<1>3. WorkersFollowWindow' /\ CompletedIsAnswered'
  BY <1>1 DEF WorkersFollowWindow, CompletedIsAnswered, New, Reading
<1> QED BY <1>2, <1>3 DEF Overview

LEMMA WorkerOverview ==
  ASSUME TypeOK, Overview, ~overlapped', NEW w \in Workers, Worker(w)
  PROVE  Overview'
<1>0. /\ 0 \notin Digests /\ (window # 0 => window \in Digests)
      /\ status \in [Digests -> Statuses] /\ wpc \in [Workers -> WorkerSteps]
      /\ wjob \in [Workers -> Digests] /\ wseen \in [Workers -> 0..MaxDigest]
      /\ wbase \in [Workers -> 0..MaxDigest] /\ wjob[w] \in Digests
  BY OverviewTypes
<1>1. ASSUME wpc[w] # "idle" \/ ClaimSyncraticIntelligenceJob(w), NEW v \in Workers, v # w
      PROVE  wpc[v] = "idle"
  BY <1>1 DEF ClaimSyncraticIntelligenceJob, Overview, OneAtWork
<1>2. ASSUME wpc[w] # "idle"
      PROVE  /\ status[wjob[w]] = "running" /\ insight.base # 0
             /\ New /\ wpc[w] \in Reading /\ wjob[w] = window => wseen[w] = window
             /\ wpc[w] \in {"cover", "ask", "write"} => wbase[w] # 0
             /\ New /\ status[window] = "completed" =>
                   Answered /\ (wpc[w] \in Reading => wseen[w] = window)
  BY <1>0, <1>2 DEF Overview, HolderRuns, RowsStay, WorkersFollowWindow, CompletedIsAnswered
<1>3. ASSUME wpc[w] # "idle" PROVE InsightForContextType(w) = insight
  BY <1>2, <1>3 DEF InsightForContextType
<1>4. CASE ReadWindow(w) \/ ReadPrompt(w)
  <2>1. /\ wpc[w] # "idle" /\ wpc' = [wpc EXCEPT ![w] = wpc'[w]]
        /\ wpc'[w] \in {"coverage", "prompt", "insight"}
        /\ wseen' = [wseen EXCEPT ![w] = window]
        /\ UNCHANGED <<window, returned, status, rpc, rdig, wjob, insight, wbase>>
    BY <1>0, <1>4 DEF ReadWindow, ReadPrompt, Step, Unmoved, jobVars, runnerVars, pastVars
  <2>2. wseen'[w] = window
    BY <1>0, <2>1
  <2> QED BY <1>2, <2>1, <2>2, ReadingOverview DEF Answered
<1>5. CASE ReadCoverageInsight(w)
  <2>1. /\ wpc[w] = "coverage" /\ wpc' = [wpc EXCEPT ![w] = "cover"] /\ insight' = insight
        /\ wbase' = [wbase EXCEPT ![w] = insight.base]
        /\ UNCHANGED <<window, returned, status, rpc, rdig, wjob, wseen>>
    BY <1>3, <1>5 DEF ReadCoverageInsight, Step, Unmoved, jobVars, runnerVars, pastVars
  <2>2. wpc'[w] = "cover" /\ wbase'[w] = insight.base
    BY <1>0, <2>1
  <2> QED BY <1>2, <2>1, <2>2, ReadingOverview DEF Answered, Reading
<1>6. CASE ReadInsight(w)
  <2>1. /\ wpc[w] = "insight" /\ insight' = insight
        /\ wpc' = [wpc EXCEPT ![w] = IF syncraticAskAlreadyApplied(w) THEN "complete" ELSE "ask"]
        /\ wbase' = [wbase EXCEPT ![w] = insight.base]
        /\ UNCHANGED <<window, returned, status, rpc, rdig, wjob, wseen>>
    BY <1>3, <1>6 DEF ReadInsight, Step, Unmoved, jobVars, runnerVars, pastVars
  <2>2. /\ wpc'[w] = IF syncraticAskAlreadyApplied(w) THEN "complete" ELSE "ask"
        /\ wbase'[w] = insight.base
    BY <1>0, <2>1
  <2>3. syncraticAskAlreadyApplied(w) => insight.text = "answer" /\ insight.about = wseen[w]
    BY <1>3, <2>1 DEF syncraticAskAlreadyApplied
  <2>4. /\ wpc'[w] \in {"complete", "ask"} /\ wpc[w] \in Reading /\ wseen'[w] = wseen[w]
        /\ wpc'[w] = "complete" => insight.text = "answer" /\ insight.about = wseen[w]
    BY <2>1, <2>2, <2>3 DEF Reading
  <2>5. New /\ wpc'[w] = "complete" /\ wjob[w] = window => Answered'
    BY <1>2, <2>1, <2>4 DEF Answered
  <2>6. /\ wpc[w] # "idle" /\ wpc' = [wpc EXCEPT ![w] = wpc'[w]]
        /\ insight'.base # 0 /\ wbase'[w] # 0 /\ Answered' = Answered
    BY <1>2, <2>1, <2>2 DEF Answered
  <2> QED BY <1>2, <2>1, <2>4, <2>5, <2>6, ReadingOverview
<1>7. CASE Ask(w) \/ AskFails(w)
  <2>1. /\ wpc[w] = "ask" /\ wpc' = [wpc EXCEPT ![w] = wpc'[w]] /\ wpc'[w] \in {"write", "fail"}
        /\ UNCHANGED <<window, returned, status, rpc, rdig, wjob, wseen, insight, wbase>>
    BY <1>0, <1>7 DEF Ask, AskFails, Step, Unmoved, jobVars, runnerVars, pastVars
  <2> QED BY <1>2, <2>1, ReadingOverview DEF Answered, Reading
<1>8. CASE UpsertSyncraticInsight(w) \/ StatementFails(w)
  <2>1. /\ wpc[w] # "idle" /\ wpc' = [wpc EXCEPT ![w] = wpc'[w]]
        /\ insight' = insight \/ (wpc[w] \in {"write", "cover"} /\ insight' = Rewritten(w))
        /\ \/ wpc'[w] = "fail"
           \/ wpc'[w] = "complete" /\ wpc[w] \in {"write", "cover"} /\ insight' = Rewritten(w)
        /\ UNCHANGED <<window, returned, status, rpc, rdig, wjob, wseen, wbase>>
    <3>1. CASE UpsertSyncraticInsight(w)
      <4>1. /\ wpc[w] \in {"write", "cover"} /\ wpc' = [wpc EXCEPT ![w] = "complete"]
            /\ insight' = Rewritten(w)
            /\ UNCHANGED <<window, returned, status, rpc, rdig, wjob, wseen, wbase>>
        BY <3>1 DEF UpsertSyncraticInsight, Step, Unmoved, jobVars, runnerVars, pastVars
      <4> QED BY <1>0, <4>1
    <3>2. CASE StatementFails(w)
      <4>1. /\ wpc[w] # "idle" /\ wpc' = [wpc EXCEPT ![w] = "fail"]
            /\ UNCHANGED <<window, returned, status, rpc, rdig, wjob, wseen, wbase>>
        BY <3>2 DEF StatementFails, jobVars, runnerVars, pastVars
      <4>2. insight' = insight \/ (wpc[w] \in {"write", "cover"} /\ insight' = Rewritten(w))
        BY <3>2 DEF StatementFails
      <4>3. wpc'[w] = "fail"
        BY <1>0, <4>1
      <4>4. wpc' = [wpc EXCEPT ![w] = wpc'[w]]
        BY <4>1, <4>3
      <4> QED BY <4>1, <4>2, <4>3, <4>4, Zenon
    <3> QED BY <1>8, <3>1, <3>2
  <2>2. /\ Rewritten(w).base = wbase[w] /\ Rewritten(w).about = wseen[w]
        /\ Rewritten(w).text # "context"
    BY DEF Rewritten
  <2>3. {"write", "cover"} \subseteq Reading
    BY DEF Reading
  <2>4. wpc[w] \in {"write", "cover"} => wbase[w] # 0
    BY <1>2
  <2>5. insight'.base # 0
    BY <1>2, <2>1, <2>2, <2>4
  <2>6. wpc'[w] \in Reading => wpc'[w] = "complete" /\ insight' = Rewritten(w) /\ wpc[w] \in Reading
    BY <2>1, <2>3 DEF Reading
  <2>7. New /\ wpc'[w] = "complete" /\ wjob[w] = window => Answered'
    BY <1>2, <2>1, <2>2, <2>6 DEF Answered, Reading
  <2>8. New /\ status[window] = "completed" =>
          Answered' /\ (wpc'[w] \in Reading => wseen'[w] = window)
    BY <1>2, <2>1, <2>2, <2>3, <2>6 DEF Answered
  <2> QED BY <1>2, <2>1, <2>5, <2>6, <2>7, <2>8, ReadingOverview
<1>9. CASE Abandon(w)
  <2>1. /\ wpc[w] # "idle" /\ wpc' = [wpc EXCEPT ![w] = "idle"]
        /\ UNCHANGED <<window, returned, status, rpc, rdig, wjob, wseen, insight, wbase>>
    BY <1>9 DEF Abandon, jobVars, runnerVars, pastVars
  <2>2. wpc'[w] = "idle"
    BY <1>0, <2>1
  <2> QED BY <1>2, <2>1, <2>2, ReadingOverview DEF Answered, Reading
<1>10. CASE ClaimSyncraticIntelligenceJob(w)
  <2>1. /\ wpc' = [wpc EXCEPT ![w] = "window"]
        /\ UNCHANGED <<window, returned, insight, rpc, rdig, wseen, wbase>>
    BY <1>10 DEF ClaimSyncraticIntelligenceJob, runnerVars
  <2>2. PICK d \in Digests :
          Claimable(d) /\ status' = [status EXCEPT ![d] = "running"] /\ wjob' = [wjob EXCEPT ![w] = d]
    BY <1>10 DEF ClaimSyncraticIntelligenceJob
  <2>3. /\ status[d] \notin {"absent", "completed"} /\ status'[d] = "running" /\ wjob'[w] = d
        /\ \A e \in Digests : e # d => status'[e] = status[e]
    BY <1>0, <2>2 DEF Claimable
  <2>4. wpc'[w] = "window" /\ \A v \in Workers \ {w} : wpc'[v] = "idle"
    BY <1>0, <1>1, <1>10, <2>1
  <2>5. OneAtWork' /\ HolderRuns'
    BY <2>1, <2>3, <2>4 DEF Overview, OneAtWork, HolderRuns
  <2>6. RunnersFollowWindow'
    BY <1>0, <2>1, <2>3 DEF Overview, RunnersFollowWindow, New
  <2>7. RowsStay' /\ WorkersFollowWindow'
    BY <2>1, <2>3, <2>4 DEF Overview, RowsStay, WorkersFollowWindow, Reading
  <2>8. CompletedIsAnswered'
    <3> SUFFICES ASSUME New, status'[window] = "completed" PROVE Answered
      BY <2>1, <2>4 DEF CompletedIsAnswered, Answered, New, Reading
    <3> QED BY <1>0, <2>3 DEF Overview, CompletedIsAnswered, New
  <2> QED BY <2>5, <2>6, <2>7, <2>8 DEF Overview
<1>11. CASE CompleteSyncraticIntelligenceJob(w) \/ FailSyncraticIntelligenceJob(w)
  <2>1. /\ wpc[w] \in {"complete", "fail"} /\ wpc[w] # "idle" /\ wpc' = [wpc EXCEPT ![w] = "idle"]
        /\ UNCHANGED <<window, returned, insight, rpc, rdig, wjob, wseen, wbase>>
    BY <1>11 DEF CompleteSyncraticIntelligenceJob, FailSyncraticIntelligenceJob, runnerVars, pastVars
  <2>2. PICK s : /\ status' = [status EXCEPT ![wjob[w]] = s]
                 /\ s # "absent" /\ (s = "completed" => wpc[w] = "complete")
    BY <1>11 DEF CompleteSyncraticIntelligenceJob, FailSyncraticIntelligenceJob, FailedStatus
  <2>3. /\ status'[wjob[w]] = s /\ status[wjob[w]] = "running"
        /\ \A e \in Digests : e # wjob[w] => status'[e] = status[e]
    BY <1>0, <1>2, <2>1, <2>2
  <2>4. \A v \in Workers : wpc'[v] = "idle"
    BY <1>0, <1>1, <2>1
  <2>5. OneAtWork' /\ HolderRuns' /\ WorkersFollowWindow'
    BY <2>1, <2>4 DEF Overview, OneAtWork, HolderRuns, WorkersFollowWindow, Reading
  <2>6. RunnersFollowWindow'
    BY <1>0, <2>1, <2>3 DEF Overview, RunnersFollowWindow, New
  <2>7. RowsStay'
    BY <1>2, <2>1, <2>4 DEF Overview, RowsStay
  <2>8. CompletedIsAnswered'
    <3> SUFFICES ASSUME New, status'[window] = "completed" PROVE Answered
      BY <2>1, <2>4 DEF CompletedIsAnswered, Answered, New, Reading
    <3>1. CASE window = wjob[w]
      BY <2>2, <2>3, <3>1 DEF Overview, WorkersFollowWindow
    <3>2. CASE window # wjob[w]
      BY <1>0, <2>3, <3>2 DEF Overview, CompletedIsAnswered, New
    <3> QED BY <3>1, <3>2
  <2> QED BY <2>5, <2>6, <2>7, <2>8 DEF Overview
<1> QED BY <1>4, <1>5, <1>6, <1>7, <1>8, <1>9, <1>10, <1>11 DEF Worker, Process

LEMMA OverviewNext ==
  ASSUME TypeOK, Overview, ~overlapped', [Next]_vars
  PROVE  Overview'
<1>1. CASE EvidenceChanges \/ UNCHANGED vars \/ \E d \in Digests : LeaseExpires(d)
  <2>1. UNCHANGED <<window, returned, insight, status, rpc, rdig, wpc, wjob, wseen, wbase>>
    BY <1>1 DEF EvidenceChanges, vars, LeaseExpires, jobVars, runnerVars, workerVars, pastVars
  <2> QED BY <2>1
      DEF Overview, OneAtWork, RunnersFollowWindow, RowsStay, HolderRuns, WorkersFollowWindow,
          CompletedIsAnswered, Answered, New
<1> QED BY <1>1, RunnerOverview, WorkerOverview DEF Next

LEMMA OverlapsStay == overlapped /\ [Next]_vars => overlapped'
  BY DEF Next, Runner, Materialize, BuildWindow, SkipUnchanged, UpsertSyncraticContextWindow,
     UpsertContextInsight, EnqueueBrief, RunnerFails, EvidenceChanges, LeaseExpires, Worker, Process,
     ClaimSyncraticIntelligenceJob, ReadWindow, ReadCoverageInsight, ReadPrompt, ReadInsight, Ask,
     AskFails, UpsertSyncraticInsight, StatementFails, Abandon, CompleteSyncraticIntelligenceJob,
     FailSyncraticIntelligenceJob, Unmoved, vars, pastVars

(* For any number of runners, replicas, digests, attempts, failed calls    *)
(* and crashes, and evidence that changes in any way: unless two runners   *)
(* or two replicas have overlapped, the overview of a completed brief is   *)
(* about the stored window, or that window's digest already had its job.   *)
THEOREM OverviewSafety == Spec => []OverviewIsCurrent
<1> DEFINE IInv == ~overlapped => Overview
<1>1. Init => IInv
  BY DEF Init, Overview, OneAtWork, HolderRuns, RunnersFollowWindow, RowsStay, WorkersFollowWindow,
     CompletedIsAnswered, New, Reading
<1>2. TypeOK /\ IInv /\ [Next]_vars => IInv'
  <2> SUFFICES ASSUME TypeOK, IInv, [Next]_vars, ~overlapped' PROVE Overview'
    BY Zenon
  <2>1. ~overlapped
    BY OverlapsStay
  <2> QED BY <2>1, OverviewNext
<1>3. IInv => OverviewIsCurrent
  BY DEF Overview, CompletedIsAnswered, OverviewIsCurrent, Answered, New
<1> HIDE DEF IInv
<1> QED BY <1>1, <1>2, <1>3, TypeCorrect, PTL DEF Spec
=============================================================================
