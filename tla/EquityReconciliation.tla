------------------------- MODULE EquityReconciliation -------------------------
(***************************************************************************)
(* The equity reconciliation of one session date: runs of massive-puller   *)
(* --mode reconcile-equity (cmd/massive-puller/reconcile.go) that share    *)
(* the table marketops_equity_reconciliation_tasks                         *)
(* (storage/postgres/equity_reconciliation.go).  The post-close script     *)
(* holds a file lock around its run, a run started by hand does not, so    *)
(* runs may overlap.                                                       *)
(*                                                                         *)
(* Symbols are universe ranks.  The universe does not change between runs  *)
(* and no dry run is modelled.                                             *)
(***************************************************************************)
EXTENDS Naturals, FiniteSets, FiniteSetsExt

CONSTANTS
  Runs,
  Symbols,             \* ranks of the active universe
  MaxProviderAttempts, \* calls one task may make (2)
  MaxProviderRequests, \* calls one run may make (100)
  MaxStarts,           \* bound: runs started
  MaxErrors            \* bound: crashes, database errors, leases a run outlives

ASSUME ReconciliationAssumption ==
  /\ IsFiniteSet(Runs)
  /\ Symbols \in SUBSET (Nat \ {0}) /\ Symbols # {} /\ IsFiniteSet(Symbols)
  /\ MaxProviderAttempts \in Nat \ {0} /\ MaxProviderRequests \in Nat
  /\ MaxStarts \in Nat /\ MaxErrors \in Nat

VARIABLES
  task,        \* the table: a symbol's row
  ripe,        \* symbols whose next_attempt_at or lease_expires_at has passed
  rawRow,      \* symbols in the raw event ledger
  published,   \* symbols with a message on the raw topic
  normalized,  \* symbols in the normalized event ledger
  rAt,         \* by run: its step
  held,        \* by run: the row it claimed, with its symbol
  requests,    \* by run: report.ProviderRequests
  calls, replays, \* by symbol: provider calls and replays made so far
  renewals,    \* by symbol: requeues by the operator and leases recovered
  starts, errors

storeVars == <<rawRow, published, normalized>>
countVars == <<calls, replays, renewals>>
reconcileVars == <<task, ripe, storeVars, rAt, held, requests, countVars, starts, errors>>

Active == {"queued", "running", "awaiting"}
TaskStatuses == Active \cup {"none", "succeeded", "failed"}
TaskRows == [status : TaskStatuses, attempts : 0..MaxProviderAttempts, replays : 0..1]
NoTask == [status |-> "none", attempts |-> 0, replays |-> 0]
NewTask == [NoTask EXCEPT !.status = "queued"]

Nothing == [symbol |-> CHOOSE s \in Symbols : TRUE, row |-> NoTask]

ReconcileTypeOK ==
  /\ task \in [Symbols -> TaskRows]
  /\ ripe \subseteq Symbols
  /\ rawRow \subseteq published /\ normalized \subseteq Symbols
  /\ published \subseteq Symbols
  /\ rAt \in [Runs -> {"down", "claim", "check", "call", "hold", "await"}]
  /\ held \in [Runs -> [symbol : Symbols, row : TaskRows]]
  /\ \A r \in Runs : rAt[r] \in {"down", "claim"} => held[r] = Nothing
  /\ requests \in [Runs -> 0..MaxProviderRequests]
  /\ calls \in [Symbols -> Nat] /\ replays \in [Symbols -> Nat]
  /\ renewals \in [Symbols -> Nat]
  /\ starts \in 0..MaxStarts /\ errors \in 0..MaxErrors

(* The acquisition of the day left some events unpublished, unrecorded or  *)
(* not normalized.                                                         *)
ReconcileInit ==
  /\ task = [s \in Symbols |-> NoTask] /\ ripe = {}
  /\ published \in SUBSET Symbols /\ rawRow \in SUBSET published /\ normalized = {}
  /\ rAt = [r \in Runs |-> "down"]
  /\ held = [r \in Runs |-> Nothing]
  /\ requests = [r \in Runs |-> 0]
  /\ calls = [s \in Symbols |-> 0] /\ replays = [s \in Symbols |-> 0]
  /\ renewals = [s \in Symbols |-> 0]
  /\ starts = 0 /\ errors = 0

Error == errors < MaxErrors /\ errors' = errors + 1

Moves(r, step) == rAt' = [rAt EXCEPT ![r] = step]
LetGo(r, step) == Moves(r, step) /\ held' = [held EXCEPT ![r] = Nothing]
Sym(r) == held[r].symbol
Copy(r) == held[r].row

-----------------------------------------------------------------------------
(* The first part of runEquityReconciliation: a task for every missing     *)
(* symbol up to rank k, where a shorter prefix means the run stopped with  *)
(* an error; an existing row is kept.  With --requeue-failed the failed    *)
(* rows start over.                                                        *)
Start(r, k, requeue) ==
  LET missing == {s \in Symbols : s <= k /\ s \notin normalized}
      new == {s \in missing : task[s].status = "none"}
      again == {s \in Symbols : requeue /\ task[s].status = "failed"}
  IN /\ rAt[r] = "down" /\ starts < MaxStarts
     /\ starts' = starts + 1
     /\ task' = [s \in Symbols |-> IF s \in new \cup again THEN NewTask ELSE task[s]]
     /\ ripe' = (ripe \ again) \cup (new \cap rawRow)
     /\ renewals' = [s \in Symbols |-> renewals[s] + (IF s \in again THEN 1 ELSE 0)]
     /\ IF k = Max(Symbols) THEN Moves(r, "claim") /\ UNCHANGED errors
                            ELSE again = {} /\ Error /\ UNCHANGED rAt
     /\ UNCHANGED <<storeVars, held, requests, calls, replays>>

(* Wrong variant: leases are not recovered.                                *)
NoneRecovered == {s \in ripe : task[s].status \in {"running", "awaiting"} /\ FALSE}

(* ClaimNextEquityReconciliationTask: rows whose lease has expired return  *)
(* to the queue, then the due row of the lowest rank becomes running; the  *)
(* run works on the copy RETURNING gave it.                                *)
Recovered == {s \in ripe : task[s].status \in {"running", "awaiting"}}

Due == {s \in ripe : task[s].status = "queued"} \cup Recovered

Claim(r) ==
  /\ rAt[r] = "claim"
  /\ \E s \in Due :
       /\ \A t \in Due : s <= t
       /\ held' = [held EXCEPT ![r] =
            [symbol |-> s, row |-> [task[s] EXCEPT !.status = "running"]]]
       /\ task' = [t \in Symbols |->
            IF t = s THEN [task[s] EXCEPT !.status = "running"]
            ELSE IF t \in Recovered THEN [task[t] EXCEPT !.status = "queued"] ELSE task[t]]
       /\ ripe' = ripe \ {s}
  /\ renewals' = [t \in Symbols |-> renewals[t] + (IF t \in Recovered THEN 1 ELSE 0)]
  /\ Moves(r, "check")
  /\ UNCHANGED <<storeVars, requests, calls, replays, starts, errors>>

(* nextReconciliationWait found no active task: the run reports and ends.  *)
Finish(r) ==
  /\ rAt[r] = "claim" /\ \A s \in Symbols : task[s].status \notin Active
  /\ LetGo(r, "down") /\ requests' = [requests EXCEPT ![r] = 0]
  /\ UNCHANGED <<task, ripe, storeVars, countVars, starts, errors>>

-----------------------------------------------------------------------------
(* processEquityReconciliationTask and awaitTaskNormalization.             *)

(* UpdateEquityReconciliationTask: the whole row, by task_id only.         *)
Save(r, status) ==
  /\ task' = [task EXCEPT ![Sym(r)] = [Copy(r) EXCEPT !.status = status]]
  /\ UNCHANGED <<storeVars, starts>>

Settle(r, status) ==
  /\ Save(r, status) /\ ripe' = ripe \ {Sym(r)}
  /\ LetGo(r, "claim")
  /\ UNCHANGED <<requests, countVars, errors>>

(* HasNormalizedEquity, at the start and in the poll loop.                 *)
Observe(r) ==
  /\ rAt[r] \in {"check", "await"} /\ Sym(r) \in normalized
  /\ Settle(r, "succeeded")

Missing(r) == rAt[r] = "check" /\ Sym(r) \notin normalized

(* The raw event was replayed before, or no call is left.                  *)
NothingLeft(r) ==
  /\ Missing(r)
  /\ IF Sym(r) \in rawRow THEN Copy(r).replays >= 1
     ELSE requests[r] >= MaxProviderRequests \/ Copy(r).attempts >= MaxProviderAttempts
  /\ Settle(r, "failed")

(* Wrong variant: an earlier replay is not looked for.                     *)
ReplayAgain(r) ==
  /\ Missing(r) /\ Sym(r) \in rawRow
  /\ held' = [held EXCEPT ![r].row.replays = @ + 1]
  /\ replays' = [replays EXCEPT ![Sym(r)] = @ + 1]
  /\ Moves(r, "hold")
  /\ UNCHANGED <<task, ripe, storeVars, requests, calls, renewals, starts, errors>>

(* publishReconciliationReplay; the replay is counted in the copy.         *)
Replay(r) ==
  /\ Missing(r) /\ Sym(r) \in rawRow /\ Copy(r).replays = 0
  /\ held' = [held EXCEPT ![r].row.replays = 1]
  /\ replays' = [replays EXCEPT ![Sym(r)] = @ + 1]
  /\ Moves(r, "hold")
  /\ UNCHANGED <<task, ripe, storeVars, requests, calls, renewals, starts, errors>>

(* The publish fails, after it took effect or before.                      *)
ReplayFails(r) ==
  /\ Missing(r) /\ Sym(r) \in rawRow /\ Copy(r).replays = 0
  /\ Save(r, "failed") /\ ripe' = ripe \ {Sym(r)}
  /\ LetGo(r, "claim")
  /\ replays' \in {replays, [replays EXCEPT ![Sym(r)] = @ + 1]}
  /\ UNCHANGED <<requests, calls, renewals, errors>>

(* Wrong variant: the call is not counted on the task.                     *)
CallUncounted(r) ==
  /\ Missing(r) /\ Sym(r) \notin rawRow
  /\ requests[r] < MaxProviderRequests /\ Copy(r).attempts < MaxProviderAttempts
  /\ requests' = [requests EXCEPT ![r] = @ + 1]
  /\ calls' = [calls EXCEPT ![Sym(r)] = @ + 1]
  /\ Moves(r, "call")
  /\ UNCHANGED <<task, ripe, storeVars, held, replays, renewals, starts, errors>>

(* RunScheduledPull with one request and no retry.                         *)
Call(r) ==
  /\ Missing(r) /\ Sym(r) \notin rawRow
  /\ requests[r] < MaxProviderRequests /\ Copy(r).attempts < MaxProviderAttempts
  /\ held' = [held EXCEPT ![r].row.attempts = @ + 1]
  /\ requests' = [requests EXCEPT ![r] = @ + 1]
  /\ calls' = [calls EXCEPT ![Sym(r)] = @ + 1]
  /\ Moves(r, "call")
  /\ UNCHANGED <<task, ripe, storeVars, replays, renewals, starts, errors>>

CallSucceeds(r) ==
  /\ rAt[r] = "call"
  /\ published' = published \cup {Sym(r)} /\ rawRow' = rawRow \cup {Sym(r)}
  /\ Moves(r, "hold")
  /\ UNCHANGED <<task, ripe, normalized, held, requests, countVars, starts, errors>>

(* The provider or the publish failed, or the event was published and the  *)
(* raw ledger write failed: after a backoff again, or never.               *)
CallFails(r) ==
  /\ rAt[r] = "call"
  /\ published' \in {published, published \cup {Sym(r)}}
  /\ task' = [task EXCEPT ![Sym(r)] = [Copy(r) EXCEPT !.status =
       IF Copy(r).attempts < MaxProviderAttempts THEN "queued" ELSE "failed"]]
  /\ ripe' = ripe \ {Sym(r)}
  /\ LetGo(r, "claim")
  /\ UNCHANGED <<rawRow, normalized, requests, countVars, starts, errors>>

Hold(r) ==
  /\ rAt[r] = "hold"
  /\ Save(r, "awaiting") /\ ripe' = ripe \ {Sym(r)}
  /\ Moves(r, "await")
  /\ UNCHANGED <<held, requests, countVars, errors>>

(* "normalization not observed before poll window": due at once.           *)
Unobserved(r) ==
  /\ rAt[r] = "await"
  /\ Save(r, "queued") /\ ripe' = ripe \cup {Sym(r)}
  /\ LetGo(r, "claim")
  /\ UNCHANGED <<requests, countVars, errors>>

(* A query or an update of the step fails: the error is reported and the   *)
(* loop goes on, leaving the row as it is.                                 *)
StepFails(r) ==
  /\ rAt[r] \in {"check", "call", "hold", "await"} /\ Error
  /\ LetGo(r, "claim")
  /\ UNCHANGED <<task, ripe, storeVars, requests, countVars, starts>>

(* The process dies or its deadline passes.                                *)
Stop(r) ==
  /\ rAt[r] # "down" /\ Error
  /\ LetGo(r, "down") /\ requests' = [requests EXCEPT ![r] = 0]
  /\ UNCHANGED <<task, ripe, storeVars, countVars, starts>>

-----------------------------------------------------------------------------
Working(s) == \E r \in Runs : rAt[r] \notin {"down", "claim"} /\ Sym(r) = s

(* A backoff ends, or the lease of a row that nobody works on.             *)
TimePasses(s) ==
  /\ task[s].status \in Active /\ s \notin ripe
  /\ task[s].status # "queued" => ~Working(s)
  /\ ripe' = ripe \cup {s}
  /\ UNCHANGED <<task, storeVars, rAt, held, requests, countVars, starts, errors>>

(* A run is stuck, in a publish the broker does not answer for instance,   *)
(* until the lease of its row has expired.                                 *)
LeaseOutlived(s) ==
  /\ task[s].status \in {"running", "awaiting"} /\ s \notin ripe /\ Working(s) /\ Error
  /\ ripe' = ripe \cup {s}
  /\ UNCHANGED <<task, storeVars, rAt, held, requests, countVars, starts>>

(* The normalizer; it may reject the event or be late.                     *)
Normalize(s) ==
  /\ s \in published \ normalized
  /\ normalized' = normalized \cup {s}
  /\ UNCHANGED <<task, ripe, rawRow, published, rAt, held, requests, countVars, starts, errors>>

Advance(r) ==
  \/ Claim(r) \/ Finish(r) \/ Observe(r) \/ NothingLeft(r) \/ Replay(r) \/ ReplayFails(r)
  \/ Call(r) \/ CallSucceeds(r) \/ CallFails(r) \/ Hold(r) \/ Unobserved(r)

ReconcileNext ==
  \/ \E r \in Runs, k \in Symbols, requeue \in BOOLEAN : Start(r, k, requeue)
  \/ \E r \in Runs : Advance(r) \/ StepFails(r) \/ Stop(r)
  \/ \E s \in Symbols : TimePasses(s) \/ LeaseOutlived(s) \/ Normalize(s)

(* A live run goes on, and time passes.                                    *)
ReconcileFairness ==
  /\ \A r \in Runs : WF_reconcileVars(Advance(r))
  /\ \A s \in Symbols : WF_reconcileVars(TimePasses(s))

-----------------------------------------------------------------------------
(* daily_postclose_pipeline.md:12, "at most two additional provider calls  *)
(* per queued symbol" and "replays an existing raw event once": as far as  *)
(* the count in the row allows.  A requeue gives a task its attempts       *)
(* anew, and so does every lease that is recovered from a run which had    *)
(* not stored its count, or which stores it late over a newer one.         *)
PullsAreBounded ==
  \A s \in Symbols :
    /\ calls[s] <= MaxProviderAttempts * (1 + renewals[s])
    /\ replays[s] <= 1 + renewals[s]

(* A task is settled as long as some run goes on, whatever runs were lost  *)
(* while they held it: its lease is recovered, its attempts are finite and *)
(* the run does not end while a task is active.                            *)
TasksSettle ==
  \A s \in Symbols :
    (task[s].status \in Active) ~>
      (task[s].status \notin Active \/ \A r \in Runs : rAt[r] = "down")
=============================================================================
