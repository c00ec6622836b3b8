---------------------------- MODULE ConnectIngress ----------------------------
(***************************************************************************)
(* CyberOps Connect ingress: the consumer of the raw topic that persists   *)
(* Connect events (cmd/cyberops-connect-persister, internal/cyberops/      *)
(* connect), its PostgreSQL tables (cyberops_connect.go) and the processes *)
(* that flush its outbox to the accepted topic                             *)
(* (cmd/cyberops-connect-outbox).                                          *)
(*                                                                         *)
(* A payload stands for the payload hash with the immutable lineage.       *)
(***************************************************************************)
EXTENDS Naturals, Sequences, FiniteSets

CONSTANTS
  Ids,          \* ingress event ids
  Payloads,
  Relays,       \* outbox processes
  Unpublishable,\* events the broker never takes
  None, Foreign, Invalid,  \* no payload; messages that are no valid event
  PageSize,     \* rows one flush reads (50)
  MaxMessages,  \* bound: messages on the raw topic
  MaxFaults     \* bound: crashes, broker and database errors

Events == Ids \X Payloads
Messages == Events \cup {Foreign, Invalid}

ASSUME ConnectAssumption ==
  /\ IsFiniteSet(Ids) /\ IsFiniteSet(Payloads) /\ IsFiniteSet(Relays)
  /\ Unpublishable \subseteq Events
  /\ None \notin Payloads
  /\ Foreign \notin Events /\ Invalid \notin Events /\ Foreign # Invalid
  /\ PageSize \in Nat \ {0} /\ MaxMessages \in Nat /\ MaxFaults \in Nat

VARIABLES
  raw,        \* the raw topic: events, Foreign or Invalid
  cAt, cNext, cDone,  \* the persister: step, offset it holds, committed offset
  dlq, lost,  \* offsets sent to the DLQ; offsets whose persistence failed
  stored,     \* cyberops_connect_raw_events: the payload of an id, or None
  failures,   \* integrity failures, by event: [count, status]
  outbox,     \* cyberops_connect_outbox by created_at: [event, published]
  audits,     \* resolution audit rows, by event
  accepted,   \* events on the accepted topic
  todo,       \* by relay: the outbox places of its page still to publish
  sent,       \* by relay: the place it has published and not marked, or 0
  faults

consumerVars == <<cAt, cNext, cDone, dlq, lost>>
tableVars == <<stored, failures, audits>>
relayVars == <<todo, sent>>
connectVars == <<raw, consumerVars, tableVars, outbox, accepted, relayVars, faults>>

Statuses == {"accepted", "rejected"}  \* resolutions an operator may choose
NoFailure == [count |-> 0, status |-> "none"]

ConnectTypeOK ==
  /\ raw \in Seq(Messages) /\ Len(raw) <= MaxMessages
  /\ cAt \in {"process", "commit", "down"}
  /\ cDone \in 0..Len(raw) /\ cNext \in (cDone + 1)..(Len(raw) + 1)
  /\ cAt = "commit" => cNext <= Len(raw)
  /\ dlq \subseteq 1..Len(raw) /\ lost \subseteq 1..Len(raw)
  /\ stored \in [Ids -> Payloads \cup {None}]
  /\ failures \in [Events -> [count : Nat, status : Statuses \cup {"none", "open"}]]
  /\ outbox \in Seq([event : Events, published : BOOLEAN])
  /\ audits \in [Events -> Nat]
  /\ accepted \subseteq Events
  /\ todo \in [Relays -> SUBSET (1..Len(outbox))]
  /\ sent \in [Relays -> 0..Len(outbox)]
  /\ faults \in 0..MaxFaults

ConnectInit ==
  /\ raw = <<>>
  /\ cAt = "process" /\ cNext = 1 /\ cDone = 0 /\ dlq = {} /\ lost = {}
  /\ stored = [i \in Ids |-> None]
  /\ failures = [e \in Events |-> NoFailure] /\ audits = [e \in Events |-> 0]
  /\ outbox = <<>> /\ accepted = {}
  /\ todo = [r \in Relays |-> {}] /\ sent = [r \in Relays |-> 0]
  /\ faults = 0

Fault == faults < MaxFaults /\ faults' = faults + 1

(* Connect hands a message over, again and changed as it likes; other      *)
(* producers share the topic.                                              *)
Handoff(m) ==
  /\ Len(raw) < MaxMessages
  /\ raw' = Append(raw, m)
  /\ UNCHANGED <<consumerVars, tableVars, outbox, accepted, relayVars, faults>>

-----------------------------------------------------------------------------
(* The persister's loop: Processor.Process, then the offset commit.        *)

Holding == cAt = "process" /\ cNext <= Len(raw)
Event == raw[cNext]
Conflicts == stored[Event[1]] # None /\ stored[Event[1]] # Event[2]

(* IsCandidate: a message of another producer.                             *)
Ignore ==
  /\ Holding /\ Event = Foreign
  /\ cAt' = "commit"
  /\ UNCHANGED <<raw, cNext, cDone, dlq, lost, tableVars, outbox, accepted, relayVars, faults>>

(* Validate fails: PublishInvalidEvent.                                    *)
Reject ==
  /\ Holding /\ Event = Invalid
  /\ dlq' = dlq \cup {cNext}
  /\ cAt' = "commit"
  /\ UNCHANGED <<raw, cNext, cDone, lost, tableVars, outbox, accepted, relayVars, faults>>

Row(e) == [event |-> e, published |-> FALSE]

(* PersistCyberOpsConnectRaw of a new event: the raw row and the outbox    *)
(* row in one transaction.  A duplicate changes nothing.                   *)
PersistRaw ==
  /\ Holding /\ Event \in Events /\ ~Conflicts
  /\ stored' = [stored EXCEPT ![Event[1]] = Event[2]]
  /\ outbox' = IF stored[Event[1]] = None THEN Append(outbox, Row(Event)) ELSE outbox
  /\ cAt' = "commit"
  /\ UNCHANGED <<raw, cNext, cDone, dlq, lost, failures, audits, accepted, relayVars, faults>>

Counted(f) ==
  [count |-> f.count + 1, status |-> IF f.count = 0 THEN "open" ELSE f.status]

(* Wrong variant: the failure is recorded and the event forwarded.         *)
ForwardConflict ==
  /\ Holding /\ Event \in Events /\ Conflicts
  /\ failures' = [failures EXCEPT ![Event] = Counted(@)]
  /\ outbox' = Append(outbox, Row(Event))
  /\ cAt' = "commit"
  /\ UNCHANGED <<raw, cNext, cDone, dlq, lost, stored, audits, accepted, relayVars, faults>>

PersistConflict ==
  /\ Holding /\ Event \in Events /\ Conflicts
  /\ failures' = [failures EXCEPT ![Event] = Counted(@)]
  /\ cAt' = "commit"
  /\ UNCHANGED <<raw, cNext, cDone, dlq, lost, stored, outbox, audits, accepted, relayVars, faults>>

CommitRaw ==
  /\ cAt = "commit"
  /\ cDone' = cNext /\ cNext' = cNext + 1
  /\ cAt' = "process"
  /\ UNCHANGED <<raw, dlq, lost, tableVars, outbox, accepted, relayVars, faults>>

(* Wrong variant: the offset of a failed message is committed.             *)
CommitFailed ==
  /\ Holding /\ Event \in Events /\ Fault
  /\ cAt' = "commit"
  /\ UNCHANGED <<raw, cNext, cDone, dlq, lost, tableVars, outbox, accepted, relayVars>>

(* "offset remains uncommitted", and the loop takes the next message.      *)
PersistFails ==
  /\ Holding /\ Event \in Events /\ Fault
  /\ lost' = lost \cup {cNext}
  /\ cNext' = cNext + 1
  /\ UNCHANGED <<raw, cAt, cDone, dlq, tableVars, outbox, accepted, relayVars>>

PersisterStops ==
  /\ cAt # "down" /\ Fault
  /\ cAt' = "down" /\ cNext' = cDone + 1
  /\ UNCHANGED <<raw, cDone, dlq, lost, tableVars, outbox, accepted, relayVars>>

PersisterStarts ==
  /\ cAt = "down" /\ cAt' = "process"
  /\ UNCHANGED <<raw, cNext, cDone, dlq, lost, tableVars, outbox, accepted, relayVars, faults>>

-----------------------------------------------------------------------------
(* ResolveCyberOpsIntegrityFailure: the row is locked; a failure resolved  *)
(* the same way is answered again and one resolved otherwise is refused,   *)
(* both without a change.                                                  *)
Resolve(e, status) ==
  /\ failures[e].status = "open"
  /\ failures' = [failures EXCEPT ![e].status = status]
  /\ audits' = [audits EXCEPT ![e] = @ + 1]
  /\ UNCHANGED <<raw, consumerVars, stored, outbox, accepted, relayVars, faults>>

-----------------------------------------------------------------------------
(* flush: ListPendingCyberOpsOutbox, then publish and mark row by row.     *)

Pending == {i \in 1..Len(outbox) : ~outbox[i].published}

(* The first PageSize pending rows.                                        *)
Page == {i \in Pending : Cardinality({j \in Pending : j <= i}) <= PageSize}

ListPending(r) ==
  /\ todo[r] = {} /\ sent[r] = 0 /\ Pending # {}
  /\ todo' = [todo EXCEPT ![r] = Page]
  /\ UNCHANGED <<raw, consumerVars, tableVars, outbox, accepted, sent, faults>>

(* The loop over the page is at row i, the oldest left.                    *)
AtRow(r, i) == sent[r] = 0 /\ i \in todo[r] /\ \A j \in todo[r] : i <= j

Leave(r, i) == todo' = [todo EXCEPT ![r] = @ \ {i}]

(* Wrong variant: the row is marked before it is published.                *)
MarkFirst(r, i) ==
  /\ AtRow(r, i) /\ Leave(r, i)
  /\ outbox' = [outbox EXCEPT ![i].published = TRUE]
  /\ sent' = [sent EXCEPT ![r] = i]
  /\ UNCHANGED <<raw, consumerVars, tableVars, accepted, faults>>

PublishRow(r, i) ==
  /\ AtRow(r, i) /\ Leave(r, i)
  /\ outbox[i].event \notin Unpublishable
  /\ accepted' = accepted \cup {outbox[i].event}
  /\ sent' = [sent EXCEPT ![r] = i]
  /\ UNCHANGED <<raw, consumerVars, tableVars, outbox, faults>>

(* Wrong variant: the flush gives up at the first failure.                 *)
FailureEndsFlush(r, i) ==
  /\ AtRow(r, i)
  /\ outbox[i].event \in Unpublishable
  /\ todo' = [todo EXCEPT ![r] = {}]
  /\ UNCHANGED <<raw, consumerVars, tableVars, outbox, accepted, sent, faults>>

(* MarkCyberOpsOutboxAttempt counts the attempt and the loop goes on.      *)
PublishFails(r, i) ==
  /\ AtRow(r, i) /\ Leave(r, i)
  /\ LET e == outbox[i].event IN
       \/ e \in Unpublishable /\ UNCHANGED <<accepted, faults>>
       \/ e \notin Unpublishable /\ Fault /\ accepted' \in {accepted, accepted \cup {e}}
  /\ UNCHANGED <<raw, consumerVars, tableVars, outbox, sent>>

(* MarkCyberOpsOutboxPublished, guarded by published_at IS NULL.           *)
MarkPublished(r) ==
  /\ sent[r] # 0
  /\ outbox' = [outbox EXCEPT ![sent[r]].published = TRUE]
  /\ sent' = [sent EXCEPT ![r] = 0]
  /\ UNCHANGED <<raw, consumerVars, tableVars, accepted, todo, faults>>

(* The process stops, or the mark fails and flush returns.                 *)
FlushEnds(r) ==
  /\ todo[r] # {} \/ sent[r] # 0
  /\ Fault
  /\ todo' = [todo EXCEPT ![r] = {}] /\ sent' = [sent EXCEPT ![r] = 0]
  /\ UNCHANGED <<raw, consumerVars, tableVars, outbox, accepted>>

-----------------------------------------------------------------------------
Persister == Ignore \/ Reject \/ PersistRaw \/ PersistConflict \/ CommitRaw
Flush(r) ==
  \/ ListPending(r) \/ MarkPublished(r)
  \/ \E i \in 1..Len(outbox) : PublishRow(r, i) \/ PublishFails(r, i)

ConnectNext ==
  \/ \E m \in Messages : Handoff(m)
  \/ Persister \/ PersistFails \/ PersisterStops \/ PersisterStarts
  \/ \E e \in Events, status \in Statuses : Resolve(e, status)
  \/ \E r \in Relays : Flush(r) \/ FlushEnds(r)

ConnectSpec == ConnectInit /\ [][ConnectNext]_connectVars

(* The loops of the persister and of one outbox process go on.             *)
ConnectFairness == WF_connectVars(Persister) /\ \A r \in Relays : WF_connectVars(Flush(r))

-----------------------------------------------------------------------------
(* docs/connect/signalops-connect-ingress-integration-v1.md:250: no        *)
(* invalid or conflicting event reaches the accepted topic, which carries  *)
(* exactly stored events, and a stored event has one outbox row, however   *)
(* often and with whatever payload it is delivered.                        *)
AcceptedIsGenuine ==
  /\ \A e \in accepted : stored[e[1]] = e[2]
  /\ \A i \in 1..Len(outbox) :
       /\ stored[outbox[i].event[1]] = outbox[i].event[2]
       /\ \A j \in 1..Len(outbox) : outbox[j].event[1] = outbox[i].event[1] => j = i

(* What a message left behind: the stored event, the integrity failure     *)
(* that counts n deliveries of it, or the DLQ record.                      *)
Evident(o, n) ==
  CASE raw[o] = Foreign -> TRUE
    [] raw[o] = Invalid -> o \in dlq
    [] OTHER -> stored[raw[o][1]] = raw[o][2] \/ failures[raw[o]].count >= n

(* Nothing but a failed persistence lets the offset pass a message without *)
(* its evidence, with whatever payload and however often it comes: each    *)
(* delivery of a conflicting one is counted (cyberops_connect.go:40-70,    *)
(* main.go:64-84).  That the offset passes the failed messages too is what *)
(* FailedEventIsRetried finds.                                             *)
PassedIsEvident ==
  \A o \in (1..cDone) \ lost :
    Evident(o, Cardinality({p \in 1..cDone : raw[p] = raw[o] /\ p \notin lost}))

(* docs/connect/signalops-connect-ingress-integration-v1.md:137:           *)
(* "Database/network outage: retryable failure; do not commit the offset." *)
(* The loop goes on with the next message, and its commit covers the       *)
(* failed one too (cmd/cyberops-connect-persister/main.go:76-86).          *)
FailedEventIsRetried == \A o \in 1..cDone : Evident(o, 1)

(* The tables, the topic and the outbox processes keep an outbox's         *)
(* promises (docs/connect/signalops-connect-ingress-integration-v1.md:232).*)
ConnectOutbox == INSTANCE TransactionalOutbox WITH
  Rows <- Events,
  written <- {outbox[i].event : i \in 1..Len(outbox)},
  delivered <- accepted,
  marked <- {outbox[i].event : i \in {j \in 1..Len(outbox) : outbox[j].published}}

ImplementsOutbox == ConnectOutbox!Spec

(* A stored event reaches the accepted topic, unless the broker never      *)
(* takes it or a whole page of such events is before it in the table:      *)
(* ListPendingCyberOpsOutbox always reads the oldest fifty.                *)
StoredIsPublished ==
  \A e \in Events :
    (stored[e[1]] = e[2]) ~>
      \/ e \in accepted \cup Unpublishable
      \/ Cardinality({i \in 1..Len(outbox) : outbox[i].event \in Unpublishable}) >= PageSize
=============================================================================
