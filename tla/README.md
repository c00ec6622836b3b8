# SignalOps in TLA+

SignalOps ingests market and telemetry events over HTTP, carries them through Kafka-compatible topics (raw,
normalized, signal, retry, DLQ), records every stage in PostgreSQL or TimescaleDB ledgers, and lets operators
replay history and read analyst briefs. This directory models the parts of it whose correctness depends on the
order of steps of several processes, checks them with TLC and proves their main invariants with TLAPS.

    tlc -config RawPipelineGroup.cfg MCRawPipeline      # one run; the list is in PROJECT.json
    tlapm ReplayJobsProofs.tla                          # one module of proofs

## 1. Inventory

State, operations and hard behaviours of each part; the last column says where it is modelled.

| part | state | operations | what is hard | module |
|---|---|---|---|---|
| Gateway raw ingestion (`internal/api/router.go`, `POST /v1/events/raw`) | none of its own; writes the raw topic, `raw_event_ledger`, `idempotency_records` | validate, publish, persist, answer | publish succeeds and persistence fails; lost acknowledgements; concurrent retries of one request; with a temporal store two databases and no transaction | RawPipeline |
| Kafka client (`internal/broker/kafka/client.go`) | a consumer's buffer and fetch position, the group offset | Publish, Consume, Commit, rebalance | commits are cumulative; a member that lost its partition keeps its buffer and can still commit | RawPipeline |
| Normalizer (`cmd/normalizer`, `internal/normalization`) | the message in hand | reserve Connect candidates, validate, publish normalized, upsert ledger, DLQ, commit | crash between any two of these; a transient error moves on to the next message; permanent unique-key conflicts | RawPipeline |
| Replay jobs (`cmd/replay-worker`, `/v1/replay/jobs`) | `replay_jobs`, pages of the temporal ledgers | create, cancel, claim, page, publish with retries, complete/fail/cancel | two workers; cancellation races with results; OFFSET paging over a growing table; a worker that ends holds its job for ever | ReplayJobs |
| Syncratic briefs (`internal/api/syncratic*.go`, `syncratic_intelligence_jobs`) | context window and overview rows, leased jobs | materialize, enqueue, claim, ask, write, complete/fail | leases expire under a live holder; evidence changes during the Ask call; result statements do not check the lease | SyncraticJobs |
| Detector worker and retry replayer (`python/signalops_workers`) | input, retry and DLQ topics, the attempt count in a message | detect, publish signal, retry record, replay, DLQ, commit | the count has to survive every way back to the worker; crash between publish and commit | DetectorWorker |
| Signal persister, alert and insight lifecycle (`cmd/signal-persister`, `internal/signals`) | `signal_ledger` (two stores), `alert_ledger`, `insight_ledger`, graph proposals | PersistSignalLifecycle, MutateAlertLifecycle, MutateInsightLifecycle | redelivery against operator decisions; temporal row before the transaction; failed messages are passed | SignalLifecycle |
| CyberOps Connect ingress (`cmd/cyberops-connect-*`, `internal/cyberops/connect`) | raw events, integrity failures, outbox with `published_at` | persist with outbox row, record conflict, resolve, list, publish, mark | changed payloads under one id; crash between publish and mark; two outbox processes; unpublishable rows | ConnectIngress |
| CyberOps policy lifecycle (`storage/postgres/cyberops_lifecycle.go`) | policies, approved services, decisions, episodes, work items | evaluate a signal in the transaction that stores it, change approvals and modes | counts over rows other transactions have not committed; redelivery; mode changes under way | CyberOpsLifecycle |
| Equity reconciliation (`cmd/massive-puller/reconcile.go`) | leased tasks, provider budget | enqueue, claim with lease recovery, pull, replay, await normalization, requeue | a stale holder writes back the whole row; replay count stored after the publish | EquityReconciliation |
| Asset backfill (`cmd/marketops-asset-backfill-worker`) | backfill jobs, requested and completed sessions | create, claim, pull days, finalize | no lease; status chosen from two counts; sessions that other jobs normalized | AssetBackfill |
| Signal proposals and materialization (`internal/api/algorithms.go`, `router.go`) | proposals, materializations by idempotency key, `signal_ledger` | propose, decide, preflight, record, write signal, publish eligible event | check and write are not one transaction; client keys shared by proposals; stops between statements | ProposalMaterialization |
| Signal assurance (`cmd/marketops-signal-assurance-*`, `internal/marketops/signalassurance`) | assertions, evaluations, lifecycle events with `published_at` | register, evaluate, persist, relay | racing runs for different dates; failed registrations are passed; two relays | SignalAssurance |
| Hypotheses, opportunities and forward outcomes (`cmd/marketops-hypothesis-evaluator`, `-opportunity-builder`, `-outcome-materializer`) | evaluation, opportunity and outcome rows by deterministic key, the bars of the normalized ledger | evaluate a state, build and upsert opportunities, list sources and bars, measure, upsert | runs for different as-of days overlap; bars come late, bad or out of order; a verdict is revised after its outcome | SignalOutcomes |
| Scheduled pulls, cohort runner, operator tasks | run records, stages, task rows | due times, stage order, transitions | one process each, single-row statements | not modelled |
| Retention governor | policies and ledger rows | DELETE by policy | rows disappear under a replay's OFFSET | not modelled |
| Analytics (market state features, scores, valuation, SRI, EROC, EEOM, options, algorithms, backtests) | batch outputs | deterministic floating-point computations | numeric, not concurrent | not modelled |
| CyberOps detection, platform registry, auth, storage monitor, web UI | little or none | request-local checks, numeric rules, presentation | - | not modelled |

How the parts interact. A client posts an event; the gateway publishes it to the raw partition and then records it.
The normalizer consumes the raw partition as a member of a consumer group, publishes the normalized event, upserts
its ledger row and only then commits; rejected events go to the DLQ. Detectors consume the normalized topic and
publish signals, which the persister turns into ledger rows, alerts and insights. A replay worker reads those ledgers
back and republishes rows to the same topics. A Connect event on the raw partition goes to the Connect persister
instead, which stores it with an outbox row that other processes publish; CyberOps signals are stored through the policy
transaction. An operator's decision on an algorithm's proposal lets it be materialized as a signal, whose eligible event
the assurance registrar turns into an assertion for the evaluation runs. Hypotheses are evaluated over the day's market state,
triggered evaluations become opportunities, and outcome runs measure both against the bars that follow. Reconciliation and backfill call the market data
provider and publish to the raw topic. After the market closes a runner builds one evidence window per asset
and queues a job, and a worker in each gateway replica turns the window into a brief through the Syncratic API.

PROJECT.json lists under `hazards` the lines where each of these can go wrong, with the properties that watch them.

## 2. Modules

| module | role |
|---|---|
| `DurableConsumer` | abstract contract of a topic consumer: messages are published, effects only appear, the group offset passes only messages that are settled or were skipped |
| `RawPipeline` | gateway handler, raw partition, ledgers and normalizer group |
| `MCRawPipeline` | its instance: event bodies, identifiers and keys, symmetry |
| `RawPipelineProofs` | type correctness, offset safety, lineage, the audit tables, refinement of `DurableConsumer` |
| `ReplayJobs` | gateway routes, `replay_jobs`, replay workers, the ledger window |
| `MCReplayJobs`, `ReplayJobsProofs` | model values; proofs |
| `SyncraticJobs` | runner, window and overview rows, leased job table, replica workers |
| `MCSyncraticJobs`, `SyncraticJobsProofs` | model values; proofs |
| `DetectorWorker` | detector worker and retry replayer; refines `DurableConsumer` |
| `SignalLifecycle` | EXTENDS `DetectorWorker` with the signal persister, its stores and the operators |
| `SignalLifecycleProofs` | proofs about worker, replayer, persister and operators |
| `TransactionalOutbox` | abstract contract of an outbox: delivered rows were written, marked rows were delivered, nothing is taken back |
| `ConnectIngress` | Connect persister, integrity failures, outbox processes; refines `TransactionalOutbox` |
| `CyberOpsLifecycle` | policy transactions, approvals, episodes and decisions |
| `CyberOpsProofs` | proofs about `ConnectIngress` and about `CyberOpsLifecycle` |
| `EquityReconciliation` | leased reconciliation runs |
| `AssetBackfill` | the backfill worker |
| `MarketPullProofs` | proofs about `EquityReconciliation` and about `AssetBackfill` |
| `ProposalMaterialization` | proposals, decisions and materialization requests |
| `SignalAssurance` | registrar, evaluation runs, relays; refines `TransactionalOutbox` |
| `SignalAssuranceProofs` | proofs about `SignalAssurance` and about `ProposalMaterialization` |
| `SignalOutcomes`, `SignalOutcomesProofs` | evaluations, opportunities and the outcome runs over the bars of one asset; proofs |
| `MCIngestion` | instance of `RawPipeline`, `EquityReconciliation` and `AssetBackfill` |
| `MCSignalLifecycle`, `MCCyberOps`, `MCSignalAssurance` | instances |

`MCIngestion`, `MCCyberOps` and `MCSignalAssurance` hold two or three components that no property relates. Interleaving
them would multiply states without any new behaviour of either, so a variable `part` chosen at the start says which of
them moves; each property is about one of them and is checked over all of its behaviours. `MCReplayJobs` and
`MCSyncraticJobs` use `part` for two instances of one component: in the one two workers share the queue, in the other one
worker meets a window, or evidence, that changes under it. Where fairness is assumed it is the fairness of the part that moves.

Definitions keep the name of the Go function they translate wherever there is one; PROJECT.json `map` gives its lines.
Each module also holds a few "Wrong variant" operators right before the definition they alter. They are not part of
the specification: substituting one for its neighbour is how each property is shown to be able to fail.

### RawPipeline

One partition and one consumer group, because every guarantee of the code is per partition. A request body is a model
value; `GatewayID`, `BodyID` and `IdemKey` say what the two components read from it. They differ: the gateway prefers
the request's event id header, `BuildEvent` reads the body alone.

The gateway handler is `PublishRaw` followed by `PersistAtomic` (PostgreSQL only, one transaction) or by
`PersistTemporalLedger` and `PersistIdempotency` (two databases, no transaction). `PublishRawFails` is the 502 after
the broker took the record, `AbandonRequest` the 503, a client that hangs up or a gateway crash. A retry of a request
is simply another `PublishRaw` of the same body. Requests that validation refuses change nothing and are not actions.

A normalizer's `stage` is its position between two calls with effects. `Consume` is `Consumer.Consume` and the
candidate test: the buffer `lo..hi` first, a poll only when it is empty, and the buffer survives a revoked partition.
`RejectInvalid`/`PublishInvalidEvent`, `PublishNormalized`, `UpsertNormalizedEventLedger` and `Commit` are the calls of
the loop in order; `ProcessFails`, `LedgerFails` and `LedgerConflict` are its transient-error branch, in which the
failed call may have taken effect; `Exit` is a crash or a returned error. kgo commits a record's offset plus one;
`committed` is the last offset passed.

### ReplayJobs

A ledger row is its rank in the query's order. The temporal ledgers key rows by time and id, so a row never moves, but
rows with earlier times may arrive while a job pages. `wpc` is the next call of `executeReplayJob` or of the result
statement in `run`. `Pages(o, n)` is the answer of `LIMIT n OFFSET o`. `TakeBatch` advances `offset` when the batch is
read, which is what the loop has done by the time the value is used. `before`, `sent`, `appended` and `late` are
history: rows present at the claim, rows acknowledged, records appended, records appended after cancellation. Publish
errors may have appended (`PublishFails`). `Exit` includes SIGTERM: the worker then reports its failure through the
canceled context, so the status stays `running`. `BatchSize` is between 1 and 200 as `loadWorkerConfig` makes it.

### SyncraticJobs

One asset and session, since no statement touches two. An evidence digest is a number that stands for one content of the
window. `EvidenceChanges` gives the ledgers any digest, an earlier one too: the window takes rows by timestamps that are
rewritten (`LastObservedAt`, `UpdatedAt`) and its digest contains metrics that are. Jobs are identified by their digest. The runner
builds a window, compares it with the stored digest, and then writes window, overview and job by three statements. `LeaseExpires` may happen at any moment of
a running job: the Ask timeout and the database calls together are not bounded by the two-minute lease. The worker's
steps are the statements of `processSyncraticIntelligenceJob` and `enrichSyncraticInsightWithAsk`, which reads the
window twice and writes the whole overview row back. `asked` records which attempts called Ask; `overlapped` whether two runs of the
materialization or two replicas were ever at work at once, and `returned` the digests whose window was stored again after they
had a job. `Abandon` is a stopped replica, or a result statement whose error is discarded.

### DetectorWorker and SignalLifecycle

The worker's `wAt` is its position in `run_worker`: poll, handle, retry, commit. Broken, quiet and oversized events
are constants, since an event fails the same way every time it is tried; oversized is what reaches the retry topic.
`route` says what the replayer's raw topic is: the worker's own input, or the topic in front of the normalizer. On the
second way the attempt count is lost, because the normalized event is built anew; `RetryLimit` is about the records there
are, and `EventIsConcluded` names that way as its exception. `SignalLifecycle` continues with the persister: the temporal
row, then one transaction for the ledger row, alert, insight and graph proposal (`Upserted` is the ON CONFLICT clause),
then the commit. `PersistFails` is the loop's `continue`. `told` is what an operator was last answered.

### ConnectIngress and CyberOpsLifecycle

A payload stands for hash and lineage, which is what the persister compares with the stored row; the event's body is stored
with it and compared with nothing (`cyberops_connect.go:46`), although docs/connect/signalops-connect-ingress-integration-v1.md:135
and :205 say it is compared independently. A changed body under one hash and lineage is the same payload here. `PersistRaw` and `PersistConflict` are the two outcomes of one transaction;
`Page` is the LIMIT of the pending rows in `created_at` order, as a set of places that a flush visits from the lowest
(`AtRow`); `PublishRow`, `MarkPublished` and `PublishFails` are one turn of the flush loop. `CyberOpsLifecycle` has a
transaction per persister that reads policies, evaluates against what other transactions committed, and commits signal,
decisions, episodes and work items together; all signals share tenant, source, destination and protocol, so a port names a
service. `Kept` is the limit of an episode's `signal_ids`: `ORDER BY x DESC LIMIT 100`, with `Rank` for the order of the ids and
`MaxEpisodeSignals` for the hundred. Ids contain hashes, so those kept are not the latest signals but the highest ids; the
episode's count goes on.

### EquityReconciliation and AssetBackfill

A run works on the copy RETURNING gave it (`held`) and writes the whole row back (`Save`), which is what makes stale
holders interesting. `ripe` are rows whose backoff or lease is over; `LeaseOutlived` lets a lease end under a live run.
`calls`, `replays` and `renewals` are history. In `AssetBackfill` the sweep of waiting jobs is no action because it lists
the jobs of an empty tenant and there are none. A session without a bar is passed over and counted as nothing, so a job
whose window has no bar at all succeeds (`SucceededIsComplete` is about the bars there are).

### ProposalMaterialization and SignalAssurance

A request's `at` is its position between two statements of the route. `Upsert` is ON CONFLICT on the idempotency key
under a second unique key. `tangled` is history: the proposals whose requests overlapped or that shared a client key.
In `SignalAssurance` a close is up, down or flat relative to the baseline; `NextState` is `Evaluate` with its order of
precedence; a run holds the list it read (`wTodo`) while other runs persist. A relay publishes, then marks; marking a
marked row ends it, as ErrNotFound does.

### SignalOutcomes

Days are numbered weekdays and a bar is its day and whether its prices are valid; `arrived` also keeps the order in which
days first came. `at` is a run's position between the statements of `materialize`; `BuildOutcome` keeps of the row its
status, the window it measured and, for every measure that depends on the direction, the direction it was taken for
(`figures`). The history is a set of days, which their numbers order, and a window the `Oldest` of those after the
origin, as many as the horizon says. `Overwrites` is the WHERE clause of the upsert, `Upserted` its SET list, which leaves the direction out.
What a verdict rests on is floating-point, so `EvaluateState` finds any of three, again and again.

## 3. Runs

Passing runs; distinct states as TLC reports them.

| run | instance | states | what it shows |
|---|---|---|---|
| `raw_group` | 1 request at a time, 2 normalizers, 4 bodies, temporal store, 2 messages and 3 faults or 3 messages and 1 fault | 2,987,259 | offsets pass only accounted-for messages, rows join the right offsets, the group implements `DurableConsumer`, with crashes, rebalances and zombie members |
| `ingestion` | gateway: 2 requests, 2 normalizers, PostgreSQL only, 1 fault, fair; reconciliation: 2 overlapping runs, 2 symbols, 2 calls and 1 of the second run, 1 error, fair; backfill: 2 assets, 3 sessions, 4 jobs, 2 breaks | 874,510 | both audit rows agree under concurrent retries, a 202 is recorded, and every message is settled or given up while a normalizer runs; calls and replays are bounded by the renewals, tasks settle while a run lives; a succeeded backfill is complete |
| `syncratic` | 2 replicas, 2 digests in order, 2 attempts, 1 fault, 1 crash, fair; or 1 replica, evidence that moves between the digests, 1 fault or crash | 1,593,991 | Ask calls fit the attempts, queued briefs settle unless the last attempt is lost, and a completed brief is about the stored window unless writers overlapped or the window had returned |
| `replay` | 2 jobs, 2 workers, a full window, 2 faults; or 1 job, 5 rows that arrive at any rank, one of them undecodable, 1 fault; batches of 2, cap 4, fair | 367,995 | one executor, bounded appends, prompt cancellation, final outcomes, settlement; a succeeded job below the cap has sent every row present at its claim |
| `signal_path` | an event of each of six kinds, of which 2 arrive, 4 input and 3 signal messages, 2 attempts, 2 decisions about one document, 1 fault, both routes, fair | 274,305 | retries are bounded, decisions survive redelivery, the two stores and the derived documents agree, both consumers keep their contract, every event is concluded |
| `cyberops` | Connect: 2 ids, 2 payloads, 3 messages, 2 outbox processes, pages of 2, an unpublishable event, 1 fault, fair; policies: 3 denies, 1 exposure, 2 persisters, 3 deliveries, 1 change, episodes of 1 signal id | 239,329 | only stored events are accepted, offsets passed without a failure left evidence, the outbox keeps its contract and is emptied; decisions, episodes and work items agree and a scan is raised |
| `signal_assurance` | 2 proposals, 1 client key, 2 requests at once, 3 in all, 2 decisions, 1 fault; 2 signals, 2 runs, 2 as-of days, 2 relays or 2 messages, 1 break; outcomes: 3 days, 1 origin, horizons 1 and 2, 3 bars, 2 verdicts, 2 overlapping runs, 1 stop, fair | 630,708 | success implies a signal, untangled proposals agree, one evaluation decides, the outbox keeps its contract and is emptied; outcome windows are whole, figures fit the direction, rows only progress and every opportunity is measured |

Runs that end in a violation show where the code departs from what a document or comment says of it:

| run | statement | what happens |
|---|---|---|
| `raw_skip` | docs/api.md:100, infrastructure failures leave the offset uncommitted for retry | the loop takes the next buffered message, whose cumulative commit passes the failed one |
| `signal_skip` | docs/api.md:151, database or broker failures leave the source offset uncommitted for retry | the signal persister goes on with the next message, whose commit passes the failed one; its signal is never persisted |
| `connect_skip` | docs/connect/signalops-connect-ingress-integration-v1.md:137 (and :38, :116, :217, :234), a retryable failure does not commit the offset | the Connect persister does the same; the failed event leaves neither row nor integrity failure |
| `syncratic_final` | syncratic_worker.go:14, leases make multiple gateway replicas safe | a replica whose lease ran out reports its failure by job id alone, and the job another replica completed is `retryable_failed` again |
| `assurance_horizon` | the assurance specification counts trading days after the baseline session | `marketInput` counts the baseline's own session, so an assertion expires one trading day early |

Behaviour that was met while modelling and is not a run:

- derived rows can exist before, or without, the raw ledger row (the handler publishes first by design), and a repeated
  submission with a known idempotency key is published again;
- with a temporal store two concurrent retries can leave different broker offsets in the two audit rows, although
  docs/api.md:40 speaks of one transaction; `AuditAgrees` is stated for the PostgreSQL-only gateway;
- the assurance registrar has the loop of `raw_skip`, `signal_skip` and `connect_skip` too: it says "source offset remains
  uncommitted" of an event it could not decode, resolve or register (main.go:68, :81, :89), takes the next message, and the
  commit at :97 passes the failed one (`Refuse`). No run says so again, and no property is stated of the registrar's offset;
- a Syncratic worker writes back the overview row it read before the call and so reverts newer evidence, and a runner that
  ends between window and job leaves a window without a brief;
- a cancellation accepted after a replay worker's last check is overwritten by its unconditional result statement
  (repository.go:1139), so that a canceled job ends as `succeeded` or `failed`; at most the rest of one batch is published all the same
  (`CancelStopsPublishing`). A worker's `CancelReplayJob` replaces the operator's name in `canceled_by`;
- a brief whose last attempt is lost stays `running` (the exception in `BriefSettlesOrLost`), a replay job whose worker ends
  stays `running` (the exception in `ReplaySettles`), and so does a backfill job (`AbandonJob`);
- overlapping materialization requests can write two signals of one evidence (`tangled` in `MaterializationsAgree`), and a
  recovered reconciliation lease gives a task its calls and its replay anew (`renewals`);
- an overview can be the context's and not the answer's although its brief is completed: when a second replica or a second
  run of the materialization writes back an older row, or when the evidence returns to a digest whose job is done, because the
  window and the overview are written anew and the job's INSERT does nothing (`overlapped` and `returned` in `OverviewIsCurrent`);
- an episode's `signal_ids` keep the hundred highest ids and not the latest signals, and a redelivered signal adds one to its
  count although the decision is on record (`EpisodesAreBacked` states what is left);
- a backfill whose window has no bar succeeds, although docs/support/marketops-governed-task-workflow.md:23 speaks of a successful
  backfill of fifty sessions, and a changed Connect body under one hash and lineage is no conflict (section 2);
- an outcome row keeps the direction it was first inserted with while its figures are taken for a revised one (the exception
  in `FiguresFitDirection`), a row measured over a gap is not measured again when the bar comes, and rows of an evaluation
  that is no longer triggered stay pending;
- two persisters that evaluate at the same time may both miss a port scan (the premise of `ScanIsRaised`).

### Bounds

Two messages suffice for a failed message followed by a successful one, and for a duplicate; with a third one a stale buffer
holds a message between two positions (`ThirdMessage` bounds its faults). Two members give
zombie commits against a new owner, and three faults allow a crash, a rebalance and an infrastructure error in one
behaviour. Two of three bodies share an idempotency key under different event ids, and one body has different gateway
and body identifiers. Replay needs more rows than fit one batch, and rows that arrive before,
between and after the page being read: five rows with batches of two give three pages, the cap of four is reached or not, and
two faults use up both attempts of a publish. Two attempts are enough to tell first, last and exceeded, and two digests for
evidence that moves on and back.

`signal_path` has one event of each kind of outcome, two of which arrive in one behaviour, enough for one to pass the other; two
attempts make a retry and an exhaustion. Two decisions fall on one document, so that operators meet each other and a redelivery
(`OneDocument`); the documents do not know of each other. `cyberops` hands one id over three times, with two payloads, and a
page of two is filled by one unpublishable row and one other; the denies come out of order and fall into two windows, one of
which two ports fill. A limit of one signal id makes an episode give up ids after its second signal. The reconciliation of
`ingestion` has a symbol to replay and one to call for, and two starts so that a second run recovers what a stopped one held;
the second run calls the provider once. `signal_assurance` has a signal whose horizon passes and one whose outcome differs by
the as-of day; its outcome part has a gap that a late bar closes, and a run for an earlier day beside one for the newest. The
instance gives the first run any cut, valid or invalid bars and a single verdict when runs overlap, or revised verdicts, a
builder and stops when they do not. Faults, crashes, messages, rows and digests are the only bounds, and all of them are
constants, over which the proofs generalize. Deadlock is not checked: with nothing left to publish or run, or all processes
ended, the system stops.

### Fairness

`RawPipeline`: a running normalizer's loop goes on, and the group assigns a partition without an owner. Errors and
crashes are never forced. `ReplayJobs`: a running worker goes on. `SyncraticJobs`: the worker's ticker keeps calling
it, calls return (each has a timeout), and an unreturned lease runs out. `SignalLifecycle`: the loops of worker,
replayer and persister go on while they run. `ConnectIngress` and `SignalAssurance`: the loops of the persister and of each
outbox process. `EquityReconciliation`: a live run goes on, and backoffs and unattended leases run out.
`SignalOutcomes`: a started run goes on, and the sweep of `scripts/marketops_daily_postclose.sh` starts again whenever it can
(strong fairness, because bars and evaluations may come in between). `Restart` has no fairness anywhere: compose.yaml gives no service a restart policy.
Hence the liveness properties say what happens while a process is left to do it.

## 4. Proofs

All theorems hold for every value of the constants under the `ASSUME`s of the modules, which say that constants are
numbers, sets and functions of the obvious kinds. One names a further condition, because the code breaks it without:
`AuditSafety` a gateway without a temporal store. Where a property excepts a history (`overlapped`, `returned`, `lost`,
`tangled`), the theorem is about the property as it stands, over all behaviours. Three modules of proofs are about two components that share no
variable; no proof in them uses both. Every state invariant that a passing run checks is the statement of a theorem, and so is every
action property and refinement.

- **RawPipeline.** The invariant is `TypeOK`, `Shape` (offsets in hands and buffers are offsets of the partition) and an
  accounting of every message at or below a member's position: each is settled, given up, in that member's hands, or in its
  buffer. The last is what makes `CommittedIsAccountedFor` inductive, because a member commits the message in its hand and
  the cumulative commit speaks for all earlier ones; a zombie's position is covered since it started at an older committed
  offset. `Lineage` needs the normalized offset a member holds to be one it appended itself. `Refinement` maps each step
  to `Publish`, `Progress`, `Commit` or a stutter of `DurableConsumer`. `AuditInv` is about the gateway's two tables: a ledger
  row names a message of its own event, a handler between its two databases has the ledger row already, and what was
  answered 202 is kept by the later upserts. It gives `AcceptedSafety` for either store, and `AuditSafety` where both tables
  are written in one transaction.
- **ReplayJobs.** `Inv` adds to `OneExecutor` a budget per worker: records appended so far plus attempts for the
  rows still in the batch never exceed the attempts paid for by scanned rows (`AppendBudget`, and `LateBudget` after a
  cancellation). `ScanCovers` is the argument for OFFSET paging: every set of rows that can now be the first `offset` rows
  has its rows of the claim sent or in the batch; a row that arrives earlier only pushes covered rows outwards.
  The two lemmas on pages (`PrefixesAreOrdered`, `PageFacts`) carry it.
- **SyncraticJobs.** `AttemptsHeld` says each active worker holds an attempt number of its job that no other active worker
  holds and, before the call, no Ask has used. It survives expired leases because a claim always increments the attempts.
  `OverviewSafety` has an invariant of the behaviours in which neither runners nor workers have overlapped (`OneAtWork`, and
  `HolderRuns`: a sole worker's job is running). A runner past its window is about a digest without a job, or about one that
  has come back (`RunnersFollowWindow`); so whoever works on the stored window's job has read that window
  (`WorkersFollowWindow`) and completes it only after the answer is written, and nobody writes an older reading over it
  afterwards (`CompletedIsAnswered`).
- **SignalLifecycle.** The invariant has a part per process. `TopicInv`: topics grow, a message keeps its offset, and the input
  never asks for more than `MaxAttempts` tries; this is what the replayer's refusal of the last attempt buys. `WorkerInv` and
  `ReplayerInv`: what each loop has passed is settled (a signal, a retry record, a DLQ record, or nothing to do), which is
  `RetryLimit` and the refinement of `DurableConsumer` without skipping. `PersisterInv`: at the persist step the temporal row
  is there already, so `StoresAgree` holds between the two writes too. `StoreInv` carries the operators' decisions over the
  upserts; the ON CONFLICT clause leaves the status columns alone.
- **ConnectIngress.** `Evidence` beside the types: every handled invalid message is in the DLQ, and every handled event is
  the stored one or its failure row counts at least its deliveries. It survives redeliveries because a stored row never
  changes, and gives `PassedIsEvident`. `SentIsAccepted`, that a process about to mark has published, gives the refinement of
  `TransactionalOutbox`.
- **CyberOpsLifecycle.** `DraftsAreOwn`: what a transaction is about to commit is about its own signal, one decision per policy.
  With it `EpisodesAreBacked` is inductive, since a commit offers an episode the decided signal alone. `Keeps` says what
  the limit keeps of a set of signals, and `KeepsOn` that keeping of what was kept and one more is keeping of them all, which rests
  on `KeptFacts` and, for the ids given up, on the lowest of a finite set (`LowestSignal`).
  `ScanSafety` needs `ScanReady`: with one persister and no change of policy, a transaction that has evaluated a scan holds its
  decision, and nothing is stored between the count and the commit.
- **SignalAssurance.** `RelayShape`: a page holds committed events, and a relay about to mark has
  published the head of its page. `OpenIsUndecided`: an assertion that is still open was found open by every evaluation so far; with the state
  comparison inside the persisting transaction it keeps racing runs for different dates from both deciding.
- **ProposalMaterialization.** `PairsAreTangled` and `RowsAreOwn` say which proposals are marked as raced or as sharing a key;
  `LedgerIsRecorded` and `RequestsAreAhead`, that outside of these a request finds nothing of its proposal on record until it
  writes it, and no overlapping signal between its preflight and its write.
- **EquityReconciliation.** `Balanced`: for each symbol, what was called (or replayed), what the copies in the hands of all
  runs still allow, and what the row would allow a run that claims it from the queue never exceed the allowance times one plus
  the renewals. A save moves an allowance from a hand back to the row, a claim the other way, and a recovered lease or a
  requeue pays for the copy that a stuck or dead run may still write back. The sum over the runs is the cardinality of a set of
  units (`TotalChange`). It gives `PullSafety` for any number of overlapping runs.
- **AssetBackfill.** `HeldIsCounted`: a session that was pulled was counted as sent, counted as failed, or had no bar.
  Then finalize's two equal numbers mean that every bar of the window was sent, and as many normalized sessions as
  that, all of them among the bars, are all of them (`BackfillSafety`).
- **SignalOutcomes.** `Current`: the verdict a source was read from is still the row's, or some state was evaluated twice; the
  count of evaluations against evaluated states carries it over revisions, because a first evaluation of a state finds no
  source read from it. It gives `FiguresSafety`. `OutcomeFinality` needs of the invariant only that what a run writes next is
  a whole row; the rest is the upsert's condition (`UpsertKeeps`). `WindowSafety` has its own
  invariant: every measured row, stored or still in a run's batch, satisfies the property of its window (`Measured`). A run
  builds it from the ledger of the moment, of which `Oldest` takes the first sessions (`OldestExist`, by the least number for
  which there are none), a new day arrives after all days it rests on, and an upsert changes neither origin nor window.

Only model-checked: the liveness properties (`EventuallyAccountedFor`, `ReplaySettles`, `BriefSettlesOrLost`,
`EventIsConcluded`, `StoredIsPublished`, `TasksSettle`, `OutboxIsEmptied`, `PathIsMeasured`), since TLAPS does not reach fairness.
Where a module's type invariant is proved but listed without a run's property, the run checks the parts of it that other
properties state.

## 5. What is left out of the modelled parts

Payload contents, header mapping, logging and heartbeats are data or reporting. One partition, one asset and session,
and one replay window stand for many, as no statement relates two. Deletion by the retention governor is not in
`ReplayJobs` (its ledger only grows). Manual drill-down Ask requests write other insight types
and are not in `SyncraticJobs`.
Dry runs and a changing universe are not in `EquityReconciliation`, the watchlist and its capacity are not in
`AssetBackfill`, the ledger replay of the policy backfill is not in `CyberOpsLifecycle`, projections and effectiveness statistics
are not in `SignalAssurance`. `SignalOutcomes` has one hypothesis of one asset, no convergence
opportunities or their expiry, no look-back limit (the sweep goes back 45 days, older origins are given up) and no LIMIT on
the bars read. Listing routes are in no module. Of the hazards met on the way, three are left out of PROJECT.json because nothing modelled
answers them: a backfill job without a lease, the starvation of old assertions behind the newest page, and retention.

### Not modelled

The larger part of the repository computes: market state features, hypothesis scores, valuation, SRI, EROC, EEOM,
options, algorithm runs, backtests and their evaluators are floating-point batch computations over ledger rows that
one process upserts by a deterministic key. TLC cannot evaluate them and no order of steps changes their result, so a
model would restate the upsert. The same holds of the read-only HTTP routes and the web interface. The scheduler, the
cohort runner and the operator tasks are one process or one guarded statement each. Authentication, the platform
registry, the storage monitor and the notification recorder keep no protocol state. PROJECT.json gives the reason for each.

## 6. Further work

1. Retention under a paging replay: deletions at the start of the order, which move later rows to earlier pages.
2. The composition of a replay job with the normalizer group: what a replayed event does to existing ledger rows.
3. Proofs that relate the components: that what `RawPipeline` promises of the normalized topic is what `DetectorWorker` assumes
   of its input, and that materialization publishes what the registrar of `SignalAssurance` takes.
