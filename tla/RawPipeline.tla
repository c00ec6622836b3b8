----------------------------- MODULE RawPipeline -----------------------------
(***************************************************************************)
(* The durable path of a raw event: the gateway's POST /v1/events/raw      *)
(* handler (internal/api/router.go), the raw topic partition it publishes  *)
(* to, the ledgers of internal/storage/postgres, and the members of the    *)
(* "signalops.normalizer.v1" consumer group (cmd/normalizer,               *)
(* internal/normalization, internal/broker/kafka).                         *)
(*                                                                         *)
(* A request body is a model value; what the code reads from it is given   *)
(* by the constant functions GatewayID, BodyID and IdemKey.  A raw offset  *)
(* is an index into raw, a normalized offset an index into norm; 0 stands  *)
(* for "no row" and "no message".                                          *)
(***************************************************************************)
EXTENDS Naturals, Sequences

CONSTANTS
  Clients,      \* concurrent requests to the gateway
  Events,       \* request bodies the gateway's validation admits
  Invalid,      \* the bodies BuildEvent rejects
  Candidates,   \* the bodies connect.IsCandidate reserves for CyberOps
  Ids, Keys,    \* event identifiers, idempotency keys
  GatewayID,    \* identifier the gateway resolves: header, body or generated
  BodyID,       \* identifier BuildEvent reads from the body alone
  IdemKey,      \* idempotency key of the body
  UseTemporal,  \* TRUE: ledgers live in TimescaleDB (OpenWithTemporal)
  Normalizers,  \* processes of the normalizer's consumer group
  NoOwner,      \* nobody is assigned the partition
  MaxRaw,       \* bound: messages on the raw partition
  MaxFaults     \* bound: crashes, rebalances, infrastructure errors

ASSUME SetsAssumption ==
  /\ Invalid \subseteq Events
  /\ Candidates \subseteq Events
  /\ Invalid \cap Candidates = {}
  /\ NoOwner \notin Normalizers
ASSUME FunctionsAssumption ==
  /\ GatewayID \in [Events -> Ids]
  /\ BodyID \in [Events -> Ids]
  /\ IdemKey \in [Events -> Keys]
ASSUME BoundsAssumption ==
  /\ UseTemporal \in BOOLEAN
  /\ MaxRaw \in Nat
  /\ MaxFaults \in Nat

VARIABLES
  raw,         \* the raw topic partition: a sequence of bodies
  rawLedger,   \* raw_event_ledger: event id -> raw offset
  idem,        \* idempotency_records: idempotency key -> raw offset
  pc,          \* where each request is in the handler
  at,          \* broker.PublishResult.Offset of each request
  accepted,    \* offsets answered 202 Accepted
  norm,        \* the normalized topic: the raw offset each record came from
  normLedger,  \* normalized_event_ledger: event id -> its two offsets
  dlq,         \* raw offsets published to the algorithm DLQ
  owner,       \* the group member the partition is assigned to
  committed,   \* the group's committed raw offset
  up,          \* which normalizers run
  stage,       \* where each one is in its loop
  cur,         \* the message it processes
  lo, hi,      \* Consumer.buffer: the offsets lo..hi
  fetch,       \* next offset the kgo client fetches
  out,         \* broker.PublishResult.Offset of the normalized record
  failed,      \* offsets whose Process returned an infrastructure error
  faults       \* how many faults have happened

gatewayVars == <<rawLedger, idem, pc, at, accepted>>
effectVars == <<norm, normLedger, dlq, failed>>
memberVars == <<up, stage, cur, lo, hi, fetch, out>>
vars == <<raw, gatewayVars, effectVars, owner, committed, memberVars, faults>>

NoRow == [raw |-> 0, norm |-> 0]
Stages == {"poll", "process", "ledger", "dlq", "commit"}

TopicsOK ==
  /\ raw \in Seq(Events) /\ Len(raw) <= MaxRaw
  /\ norm \in Seq(1..MaxRaw)
  /\ dlq \subseteq 1..MaxRaw
  /\ failed \subseteq 1..MaxRaw

GatewayOK ==
  /\ rawLedger \in [Ids -> 0..MaxRaw]
  /\ idem \in [Keys -> 0..MaxRaw]
  /\ pc \in [Clients -> {"idle", "persist", "idempotency"}]
  /\ at \in [Clients -> 0..MaxRaw]
  /\ accepted \subseteq 1..MaxRaw

NormLedgerOK == normLedger \in [Ids -> [raw : 0..MaxRaw, norm : Nat]]

GroupOK ==
  /\ owner \in Normalizers \cup {NoOwner}
  /\ committed \in 0..MaxRaw
  /\ up \in [Normalizers -> BOOLEAN]
  /\ stage \in [Normalizers -> Stages]
  /\ cur \in [Normalizers -> 0..MaxRaw]
  /\ lo \in [Normalizers -> Nat]
  /\ hi \in [Normalizers -> 0..MaxRaw]
  /\ fetch \in [Normalizers -> Nat]
  /\ out \in [Normalizers -> Nat]
  /\ faults \in 0..MaxFaults

TypeOK == TopicsOK /\ GatewayOK /\ NormLedgerOK /\ GroupOK

Init ==
  /\ raw = <<>>
  /\ rawLedger = [i \in Ids |-> 0]
  /\ idem = [k \in Keys |-> 0]
  /\ pc = [c \in Clients |-> "idle"]
  /\ at = [c \in Clients |-> 0]
  /\ accepted = {}
  /\ norm = <<>>
  /\ normLedger = [i \in Ids |-> NoRow]
  /\ dlq = {}
  /\ failed = {}
  /\ owner = NoOwner
  /\ committed = 0
  /\ up = [n \in Normalizers |-> TRUE]
  /\ stage = [n \in Normalizers |-> "poll"]
  /\ cur = [n \in Normalizers |-> 0]
  /\ lo = [n \in Normalizers |-> 1]
  /\ hi = [n \in Normalizers |-> 0]
  /\ fetch = [n \in Normalizers |-> 1]
  /\ out = [n \in Normalizers |-> 0]
  /\ faults = 0

Fault == faults < MaxFaults /\ faults' = faults + 1

-----------------------------------------------------------------------------
(* The gateway handler.  A body that fails readJSONObject or               *)
(* rawIngestPersistenceFields is answered 400 and changes nothing.         *)

PublishRaw(c, e) ==
  /\ pc[c] = "idle"
  /\ Len(raw) < MaxRaw
  /\ raw' = Append(raw, e)
  /\ at' = [at EXCEPT ![c] = Len(raw) + 1]
  /\ pc' = [pc EXCEPT ![c] = "persist"]
  /\ UNCHANGED <<rawLedger, idem, accepted, effectVars, owner, committed, memberVars, faults>>

(* 502 publish_failed after the broker took the record and its             *)
(* acknowledgement was lost; a refused record changes nothing.             *)
PublishRawFails(c, e) ==
  /\ pc[c] = "idle"
  /\ Len(raw) < MaxRaw
  /\ raw' = Append(raw, e)
  /\ Fault
  /\ UNCHANGED <<gatewayVars, effectVars, owner, committed, memberVars>>

(* idx_raw_event_ledger_idempotency: another event holds the key.          *)
RawKeyTaken(e) ==
  \E i \in Ids \ {GatewayID[e]} :
    rawLedger[i] # 0 /\ IdemKey[raw[rawLedger[i]]] = IdemKey[e]

UpsertRawEventLedger(c) ==
  rawLedger' = [rawLedger EXCEPT ![GatewayID[raw[at[c]]]] = at[c]]

(* Wrong variant: ON CONFLICT DO NOTHING keeps the first coordinates.      *)
KeepIdempotencyRecord(c) ==
  idem' = [idem EXCEPT ![IdemKey[raw[at[c]]]] = IF @ = 0 THEN at[c] ELSE @]

UpsertIdempotencyRecord(c) ==
  idem' = [idem EXCEPT ![IdemKey[raw[at[c]]]] = at[c]]

Answer202(c) ==
  /\ accepted' = accepted \cup {at[c]}
  /\ pc' = [pc EXCEPT ![c] = "idle"]

(* PersistPublishedRawEvent without a temporal store: one transaction.     *)
PersistAtomic(c) ==
  /\ ~UseTemporal
  /\ pc[c] = "persist"
  /\ ~RawKeyTaken(raw[at[c]])
  /\ UpsertRawEventLedger(c)
  /\ UpsertIdempotencyRecord(c)
  /\ Answer202(c)
  /\ UNCHANGED <<raw, at, effectVars, owner, committed, memberVars, faults>>

(* With a temporal store: a write to TimescaleDB, then one to PostgreSQL.  *)
PersistTemporalLedger(c) ==
  /\ UseTemporal
  /\ pc[c] = "persist"
  /\ UpsertRawEventLedger(c)
  /\ pc' = [pc EXCEPT ![c] = "idempotency"]
  /\ UNCHANGED <<raw, idem, at, accepted, effectVars, owner, committed, memberVars, faults>>

PersistIdempotency(c) ==
  /\ pc[c] = "idempotency"
  /\ UpsertIdempotencyRecord(c)
  /\ Answer202(c)
  /\ UNCHANGED <<raw, rawLedger, at, effectVars, owner, committed, memberVars, faults>>

(* Wrong variant: the persistence error is logged and answered 202.        *)
AcceptAnyway(c) ==
  /\ pc[c] # "idle"
  /\ Fault
  /\ Answer202(c)
  /\ UNCHANGED <<raw, rawLedger, idem, at, effectVars, owner, committed, memberVars>>

(* 503 persistence_failed, a client that hangs up, or a gateway crash:     *)
(* what is already written stays.  A key conflict fails every time.        *)
AbandonRequest(c) ==
  /\ pc[c] # "idle"
  /\ \/ Fault
     \/ /\ ~UseTemporal /\ RawKeyTaken(raw[at[c]])
        /\ UNCHANGED faults
  /\ pc' = [pc EXCEPT ![c] = "idle"]
  /\ UNCHANGED <<raw, rawLedger, idem, at, accepted, effectVars, owner, committed, memberVars>>

-----------------------------------------------------------------------------
(* The consumer group, as kgo runs it for Client.NewConsumer.              *)

(* Wrong variant: a newly assigned member starts at the end of the log.    *)
AssignAtEnd(n) ==
  /\ up[n] /\ owner # n
  /\ IF owner = NoOwner THEN UNCHANGED faults ELSE Fault
  /\ owner' = n
  /\ fetch' = [fetch EXCEPT ![n] = Len(raw) + 1]
  /\ UNCHANGED <<raw, gatewayVars, effectVars, committed, up, stage, cur, lo, hi, out>>

Assign(n) ==
  /\ up[n] /\ owner # n
  /\ IF owner = NoOwner THEN UNCHANGED faults ELSE Fault
  /\ owner' = n
  /\ fetch' = [fetch EXCEPT ![n] = committed + 1]
  /\ UNCHANGED <<raw, gatewayVars, effectVars, committed, up, stage, cur, lo, hi, out>>

(* Consumer.Consume hands out the rest of the buffer, also after the       *)
(* partition was revoked, and polls only when the buffer is empty; a poll  *)
(* returns any non-empty run from the fetch position on.  The loop then    *)
(* commits a Connect candidate at once and processes anything else.        *)
Deliver(n, o) ==
  /\ cur' = [cur EXCEPT ![n] = o]
  /\ lo' = [lo EXCEPT ![n] = o + 1]
  /\ stage' = [stage EXCEPT ![n] =
                 IF raw[o] \in Candidates THEN "commit" ELSE "process"]

FromBuffer(n) ==
  /\ lo[n] <= hi[n]
  /\ Deliver(n, lo[n])
  /\ UNCHANGED <<hi, fetch>>

FromPoll(n) ==
  /\ lo[n] > hi[n] /\ owner = n
  /\ \E last \in fetch[n]..Len(raw) :
       /\ hi' = [hi EXCEPT ![n] = last]
       /\ fetch' = [fetch EXCEPT ![n] = last + 1]
  /\ Deliver(n, fetch[n])

Consume(n) ==
  /\ up[n] /\ stage[n] = "poll"
  /\ FromBuffer(n) \/ FromPoll(n)
  /\ UNCHANGED <<raw, gatewayVars, effectVars, owner, committed, up, out, faults>>

At(n, s) == up[n] /\ stage[n] = s
Goto(n, s) == stage' = [stage EXCEPT ![n] = s]

-----------------------------------------------------------------------------
(* Processor.Process and the error branches of the normalizer's loop.      *)

(* Wrong variant: an invalid event is committed and never sent to the DLQ. *)
CommitInvalid(n) ==
  /\ At(n, "process")
  /\ raw[cur[n]] \in Invalid
  /\ Goto(n, "commit")
  /\ UNCHANGED <<raw, gatewayVars, effectVars, owner, committed, up, cur, lo, hi, fetch, out, faults>>

(* Wrong variant: the loop consumes the next message after an invalid one. *)
DropInvalid(n) ==
  /\ At(n, "process")
  /\ raw[cur[n]] \in Invalid
  /\ cur' = [cur EXCEPT ![n] = 0]
  /\ Goto(n, "poll")
  /\ UNCHANGED <<raw, gatewayVars, effectVars, owner, committed, up, lo, hi, fetch, out, faults>>

RejectInvalid(n) ==
  /\ At(n, "process")
  /\ raw[cur[n]] \in Invalid
  /\ Goto(n, "dlq")
  /\ UNCHANGED <<raw, gatewayVars, effectVars, owner, committed, up, cur, lo, hi, fetch, out, faults>>

PublishInvalidEvent(n) ==
  /\ At(n, "dlq")
  /\ dlq' = dlq \cup {cur[n]}
  /\ Goto(n, "commit")
  /\ UNCHANGED <<raw, gatewayVars, norm, normLedger, failed, owner, committed, up, cur, lo, hi, fetch, out, faults>>

PublishNormalized(n) ==
  /\ At(n, "process")
  /\ raw[cur[n]] \notin Invalid
  /\ norm' = Append(norm, cur[n])
  /\ out' = [out EXCEPT ![n] = Len(norm) + 1]
  /\ Goto(n, "ledger")
  /\ UNCHANGED <<raw, gatewayVars, normLedger, dlq, failed, owner, committed, up, cur, lo, hi, fetch, faults>>

(* UNIQUE (tenant_id, source_id, idempotency_key) of                       *)
(* normalized_event_ledger; the temporal table has no such constraint.     *)
NormKeyTaken(e) ==
  /\ ~UseTemporal
  /\ \E i \in Ids \ {BodyID[e]} :
       normLedger[i].raw # 0 /\ IdemKey[raw[normLedger[i].raw]] = IdemKey[e]

(* Wrong variant: the row names the end of the normalized topic.           *)
WithLatestOffset(n) ==
  [normLedger EXCEPT ![BodyID[raw[cur[n]]]] = [raw |-> cur[n], norm |-> Len(norm)]]

(* ledgerRecord: the row joins the source offset and the published offset. *)
WithLedgerRow(n) ==
  [normLedger EXCEPT ![BodyID[raw[cur[n]]]] = [raw |-> cur[n], norm |-> out[n]]]

UpsertNormalizedEventLedger(n) ==
  /\ At(n, "ledger")
  /\ ~NormKeyTaken(raw[cur[n]])
  /\ normLedger' = WithLedgerRow(n)
  /\ Goto(n, "commit")
  /\ UNCHANGED <<raw, gatewayVars, norm, dlq, failed, owner, committed, up, cur, lo, hi, fetch, out, faults>>

(* "normalization failed; source offset remains uncommitted": the loop     *)
(* waits a second and consumes the next message.                           *)
GiveUp(n) ==
  /\ failed' = failed \cup {cur[n]}
  /\ cur' = [cur EXCEPT ![n] = 0]
  /\ Goto(n, "poll")
  /\ UNCHANGED <<raw, gatewayVars, dlq, owner, committed, up, lo, hi, fetch, out>>

(* The definition validator or the publish fails; a publish that times out *)
(* may still have appended its record.                                     *)
ProcessFails(n) ==
  /\ At(n, "process")
  /\ norm' \in {norm} \cup (IF raw[cur[n]] \in Invalid THEN {} ELSE {Append(norm, cur[n])})
  /\ Fault
  /\ GiveUp(n)
  /\ UNCHANGED normLedger

(* The upsert violates the key constraint, every time it is tried.         *)
LedgerConflict(n) ==
  /\ At(n, "ledger")
  /\ NormKeyTaken(raw[cur[n]])
  /\ GiveUp(n)
  /\ UNCHANGED <<norm, normLedger, faults>>

(* The upsert fails once; its effect is there if only the answer was lost. *)
LedgerFails(n) ==
  /\ At(n, "ledger")
  /\ ~NormKeyTaken(raw[cur[n]])
  /\ normLedger' \in {normLedger, WithLedgerRow(n)}
  /\ Fault
  /\ GiveUp(n)
  /\ UNCHANGED norm

Commit(n) ==
  /\ At(n, "commit")
  /\ committed' = cur[n]
  /\ cur' = [cur EXCEPT ![n] = 0]
  /\ Goto(n, "poll")
  /\ UNCHANGED <<raw, gatewayVars, effectVars, owner, up, lo, hi, fetch, out, faults>>

(* A failed commit or DLQ publish ends the process, as a crash does: the   *)
(* buffer is lost and the group takes the partition away.                  *)
Exit(n) ==
  /\ up[n]
  /\ Fault
  /\ up' = [up EXCEPT ![n] = FALSE]
  /\ stage' = [stage EXCEPT ![n] = "poll"]
  /\ cur' = [cur EXCEPT ![n] = 0]
  /\ lo' = [lo EXCEPT ![n] = 1]
  /\ hi' = [hi EXCEPT ![n] = 0]
  /\ owner' = IF owner = n THEN NoOwner ELSE owner
  /\ UNCHANGED <<raw, gatewayVars, effectVars, committed, fetch, out>>

Restart(n) ==
  /\ ~up[n]
  /\ up' = [up EXCEPT ![n] = TRUE]
  /\ UNCHANGED <<raw, gatewayVars, effectVars, owner, committed, stage, cur, lo, hi, fetch, out, faults>>

-----------------------------------------------------------------------------
Gateway(c) ==
  \/ \E e \in Events : PublishRaw(c, e) \/ PublishRawFails(c, e)
  \/ PersistAtomic(c)
  \/ PersistTemporalLedger(c)
  \/ PersistIdempotency(c)
  \/ AbandonRequest(c)

(* The steps a running normalizer takes by itself.                         *)
Loop(n) ==
  \/ Consume(n)
  \/ RejectInvalid(n)
  \/ PublishInvalidEvent(n)
  \/ PublishNormalized(n)
  \/ UpsertNormalizedEventLedger(n)
  \/ LedgerConflict(n)
  \/ Commit(n)

Normalizer(n) ==
  \/ Assign(n)
  \/ Loop(n)
  \/ ProcessFails(n)
  \/ LedgerFails(n)
  \/ Exit(n)
  \/ Restart(n)

Next ==
  \/ \E c \in Clients : Gateway(c)
  \/ \E n \in Normalizers : Normalizer(n)

Spec == Init /\ [][Next]_vars

(* The loop of a running process does not stall and the group assigns a    *)
(* partition that has no owner.  Nothing restarts a process that ended:    *)
(* compose.yaml gives its services no restart policy.                      *)
Fairness ==
  \A n \in Normalizers :
    /\ WF_vars(Loop(n))
    /\ WF_vars(owner = NoOwner /\ Assign(n))

FairSpec == Spec /\ Fairness

-----------------------------------------------------------------------------
(* A raw message has its durable outcome: it is reserved for CyberOps, or  *)
(* in the DLQ, or published as normalized with its event in the ledger.    *)
Settled(o) ==
  \/ raw[o] \in Candidates
  \/ o \in dlq
  \/ /\ \E i \in DOMAIN norm : norm[i] = o
     /\ normLedger[BodyID[raw[o]]].raw # 0

(* The group offset passes a message only when its durable outcome exists  *)
(* or Process gave it up, whatever crashes, rebalances, zombie members and *)
(* late commits happen (cmd/normalizer/main.go:61-101).                    *)
CommittedIsAccountedFor == \A o \in 1..committed : Settled(o) \/ o \in failed

(* Every normalized ledger row joins a raw offset and a normalized offset  *)
(* of the same event: the normalized record at the second was built from   *)
(* the raw record at the first, also when two group members upsert the row *)
(* of the same event (internal/normalization/processor.go:80-84).          *)
Lineage ==
  \A i \in Ids :
    LET row == normLedger[i] IN
    row.raw # 0 =>
      /\ row.raw \in 1..Len(raw) /\ BodyID[raw[row.raw]] = i
      /\ row.norm \in 1..Len(norm) /\ norm[row.norm] = row.raw

(* A 202 answer means the event is in the raw ledger under its own         *)
(* identifier and its idempotency key is recorded, also after concurrent   *)
(* retries of the same request (internal/api/router.go:2556-2564).         *)
AcceptedIsRecorded ==
  \A o \in accepted :
    /\ rawLedger[GatewayID[raw[o]]] # 0
    /\ GatewayID[raw[rawLedger[GatewayID[raw[o]]]]] = GatewayID[raw[o]]
    /\ idem[IdemKey[raw[o]]] # 0

(* The raw ledger and the idempotency record of an event name the same     *)
(* broker coordinates, whatever order concurrent retries of the request    *)
(* persist in (PersistPublishedRawEvent, repository.go:381-411).           *)
AuditAgrees ==
  \A i \in Ids : rawLedger[i] # 0 => idem[IdemKey[raw[rawLedger[i]]]] = rawLedger[i]

(* docs/api.md: "Infrastructure failures leave the source offset           *)
(* uncommitted for retry": nothing at or below the group offset is without *)
(* its durable outcome.                                                    *)
FailureIsRetried == \A o \in 1..committed : Settled(o)

(* Every message of the raw partition is eventually settled or given up,   *)
(* or no normalizer runs any more: a crash or a rebalance delays a message *)
(* and does not strand it (the loop at cmd/normalizer/main.go:61-101).     *)
EventuallyAccountedFor ==
  \A o \in 1..MaxRaw :
    o <= Len(raw) ~>
      \/ o <= Len(raw) /\ (Settled(o) \/ o \in failed)
      \/ \A n \in Normalizers : ~up[n]

(* The normalizer group implements the durable consumer's contract.        *)
Consumer == INSTANCE DurableConsumer WITH
  published <- Len(raw),
  settled <- {o \in 1..Len(raw) : Settled(o)},
  skipped <- failed

(* Each step of gateway and normalizers is a step the contract allows.     *)
ImplementsDurableConsumer == Consumer!Spec
=============================================================================
