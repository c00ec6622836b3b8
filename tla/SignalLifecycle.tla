--------------------------- MODULE SignalLifecycle ---------------------------
(***************************************************************************)
(* The signal persister (cmd/signal-persister, internal/signals) behind    *)
(* the detector's signal topic, the documents it derives from a signal in  *)
(* PostgreSQL and TimescaleDB, and the operators who decide on them        *)
(* through the gateway.                                                    *)
(*                                                                         *)
(* A signal has at most one document of each kind: its alert, its insight  *)
(* and its graph proposal.  CyberOps signals, which a policy may handle    *)
(* instead, are in CyberOpsLifecycle.                                      *)
(***************************************************************************)
EXTENDS DetectorWorker

CONSTANTS
  Malformed,     \* events whose signal DecodeEvent rejects
  Mild,          \* events whose signal has severity "info" or "low"
  Decisions,     \* the statuses an operator may set, of any kind
  MaxDecisions,  \* bound: operator decisions
  MaxSignals     \* bound: messages on the signal topic

ASSUME LifecycleAssumption ==
  /\ Malformed \cup Mild \subseteq Events
  /\ {"none", "new"} \cap Decisions = {}
  /\ MaxDecisions \in Nat /\ MaxSignals \in Nat

VARIABLES
  temporal,   \* signal_ledger in TimescaleDB: the signal_times of a signal
  ledger,     \* signal_ledger in PostgreSQL: the signal_time, 0 for no row
  docs,       \* the derived documents, by kind and signal
  rejected,   \* signal offsets in the DLQ
  lost,       \* signal offsets whose persistence failed
  pAt, pNext, pDone,  \* the persister: step, offset it holds, committed offset
  told,       \* the last status the gateway answered an operator
  decisions   \* how many decisions were taken

storeVars == <<temporal, ledger, docs>>
persisterVars == <<pAt, pNext, pDone>>
lifecycleVars == <<storeVars, rejected, lost, persisterVars, told, decisions>>
vars == <<detectorVars, faults, lifecycleVars>>

Kinds == {"alert", "insight", "proposal"}
Times == 0..MaxSignals
NoDoc == [status |-> "none", first |-> 0, last |-> 0]

TypeOK ==
  /\ DetectorTypeOK
  /\ temporal \in [Events -> SUBSET Times]
  /\ ledger \in [Events -> Times]
  /\ docs \in [Kinds -> [Events ->
               [status : Decisions \cup {"none", "new"}, first : Times, last : Times]]]
  /\ rejected \subseteq 1..Len(signals) /\ lost \subseteq 1..Len(signals)
  /\ pAt \in {"poll", "process", "persist", "commit", "down"}
  /\ pDone \in 0..Len(signals) /\ pNext \in 1..(Len(signals) + 1)
  /\ pAt \in {"process", "persist", "commit"} => pNext <= Len(signals)
  /\ told \in [Kinds -> [Events -> Decisions \cup {"none"}]]
  /\ decisions \in 0..MaxDecisions

Init ==
  /\ DetectorInit
  /\ temporal = [e \in Events |-> {}]
  /\ ledger = [e \in Events |-> 0]
  /\ docs = [k \in Kinds |-> [e \in Events |-> NoDoc]]
  /\ rejected = {} /\ lost = {}
  /\ pAt = "poll" /\ pNext = 1 /\ pDone = 0
  /\ told = [k \in Kinds |-> [e \in Events |-> "none"]]
  /\ decisions = 0

-----------------------------------------------------------------------------
(* The persister's loop and Processor.Process.                             *)

Sig == signals[pNext].sig
Time == signals[pNext].time

PollSignal ==
  /\ pAt = "poll" /\ pNext <= Len(signals)
  /\ pAt' = "process"
  /\ UNCHANGED <<detectorVars, faults, storeVars, rejected, lost, pNext, pDone, told, decisions>>

RejectSignal ==
  /\ pAt = "process" /\ Sig \in Malformed
  /\ rejected' = rejected \cup {pNext}
  /\ pAt' = "commit"
  /\ UNCHANGED <<detectorVars, faults, storeVars, lost, pNext, pDone, told, decisions>>

(* upsertSignalLedgerTemporal: its key is (signal_id, signal_time).        *)
UpsertTemporal ==
  /\ pAt = "process" /\ Sig \notin Malformed
  /\ temporal' = [temporal EXCEPT ![Sig] = @ \cup {Time}]
  /\ pAt' = "persist"
  /\ UNCHANGED <<detectorVars, faults, ledger, docs, rejected, lost, pNext, pDone, told, decisions>>

(* lifecycleRecords, extractMarketOpsDSMArtifacts and -GraphProposals.     *)
Derived(e) == {"insight", "proposal"} \cup (IF e \in Mild THEN {} ELSE {"alert"})

Earlier(a, b) == IF a <= b THEN a ELSE b
Later(a, b) == IF a <= b THEN b ELSE a

(* Wrong variant: ON CONFLICT also sets status = EXCLUDED.status.          *)
Reopened(doc, t) ==
  [status |-> "new",
   first |-> IF doc.status = "none" THEN t ELSE Earlier(doc.first, t),
   last |-> Later(doc.last, t)]

(* Wrong variant: the row of the first delivery is kept as it is.          *)
Kept(doc, t) ==
  IF doc.status = "none" THEN [status |-> "new", first |-> t, last |-> t] ELSE doc

(* The upserts of alert, insight and proposal keep the status columns; an  *)
(* alert widens its observation interval and an insight its end.           *)
Upserted(doc, t) ==
  IF doc.status = "none"
  THEN [status |-> "new", first |-> t, last |-> t]
  ELSE [doc EXCEPT !.first = Earlier(@, t), !.last = Later(@, t)]

(* PersistSignalLifecycle's transaction.                                   *)
Persist ==
  /\ pAt = "persist"
  /\ ledger' = [ledger EXCEPT ![Sig] = Time]
  /\ docs' = [k \in Kinds |->
       IF k \in Derived(Sig) THEN [docs[k] EXCEPT ![Sig] = Upserted(@, Time)] ELSE docs[k]]
  /\ pAt' = "commit"
  /\ UNCHANGED <<detectorVars, faults, temporal, rejected, lost, pNext, pDone, told, decisions>>

(* Wrong variant: the offset of a failed message is committed too.         *)
CommitFailed ==
  /\ pAt \in {"process", "persist"} /\ Sig \notin Malformed
  /\ Fault
  /\ pAt' = "commit"
  /\ UNCHANGED <<detectorVars, storeVars, rejected, lost, pNext, pDone, told, decisions>>

(* "signal persistence failed; source offset remains uncommitted": the     *)
(* loop waits a second and consumes the next message.                      *)
PersistFails ==
  /\ pAt \in {"process", "persist"} /\ Sig \notin Malformed
  /\ Fault
  /\ lost' = lost \cup {pNext}
  /\ pNext' = pNext + 1
  /\ pAt' = "poll"
  /\ UNCHANGED <<detectorVars, storeVars, rejected, pDone, told, decisions>>

CommitSignal ==
  /\ pAt = "commit"
  /\ pDone' = pNext /\ pNext' = pNext + 1
  /\ pAt' = "poll"
  /\ UNCHANGED <<detectorVars, faults, storeVars, rejected, lost, told, decisions>>

PersisterStops ==
  /\ pAt # "down" /\ Fault
  /\ pAt' = "down" /\ pNext' = pDone + 1
  /\ UNCHANGED <<detectorVars, storeVars, rejected, lost, pDone, told, decisions>>

PersisterStarts ==
  /\ pAt = "down" /\ pAt' = "poll"
  /\ UNCHANGED <<detectorVars, faults, storeVars, rejected, lost, pNext, pDone, told, decisions>>

-----------------------------------------------------------------------------
(* MutateAlertLifecycle, MutateInsightLifecycle and the proposal decision: *)
(* one UPDATE of an existing row, whatever its status, answered with the   *)
(* row as it then is.                                                      *)
Decide(k, e, status) ==
  /\ docs[k][e].status # "none"
  /\ decisions < MaxDecisions
  /\ docs' = [docs EXCEPT ![k][e].status = status]
  /\ told' = [told EXCEPT ![k][e] = status]
  /\ decisions' = decisions + 1
  /\ UNCHANGED <<detectorVars, faults, temporal, ledger, rejected, lost, persisterVars>>

-----------------------------------------------------------------------------
Persister == PollSignal \/ RejectSignal \/ UpsertTemporal \/ Persist \/ CommitSignal

LifecycleNext ==
  \/ Persister \/ PersistFails \/ PersisterStops \/ PersisterStarts
  \/ \E k \in Kinds, e \in Events, status \in Decisions : Decide(k, e, status)

Next ==
  \/ DetectorNext /\ Len(signals') <= MaxSignals /\ UNCHANGED lifecycleVars
  \/ LifecycleNext

Spec == Init /\ [][Next]_vars

(* Each process's loop goes on while it runs; nothing restarts one.        *)
Fairness ==
  /\ WF_vars(Worker /\ UNCHANGED lifecycleVars)
  /\ WF_vars(Replayer /\ UNCHANGED lifecycleVars)
  /\ WF_vars(Persister)

FairSpec == Spec /\ Fairness

-----------------------------------------------------------------------------
(* Redelivery of a signal never undoes what an operator decided about its  *)
(* alert, insight or graph proposal: a document keeps the status last      *)
(* answered to an operator (docs/api.md:166, the ON CONFLICT clauses at    *)
(* repository.go:553-563 and :588-599).                                    *)
OperatorDecisionStands ==
  \A k \in Kinds, e \in Events : told[k][e] # "none" => docs[k][e].status = told[k][e]

(* The two stores and the derived documents agree, whatever fails between  *)
(* the TimescaleDB write and the PostgreSQL transaction: a ledger row has  *)
(* its TimescaleDB row and all its documents, which cover its time, and    *)
(* there is no document without a ledger row (repository.go:643-680).      *)
StoresAgree ==
  \A e \in Events :
    /\ ledger[e] # 0 => ledger[e] \in temporal[e]
    /\ \A k \in Kinds :
         IF ledger[e] # 0 /\ k \in Derived(e)
         THEN ledger[e] \in docs[k][e].first..docs[k][e].last
         ELSE docs[k][e] = NoDoc

SignalSettled(o) == o \in rejected \/ ledger[signals[o].sig] # 0

(* Nothing but a failed persistence lets the persister's offset pass a     *)
(* message without its row or its DLQ record, whatever stops between the   *)
(* two stores and the commit (cmd/signal-persister/main.go:64-97).  That   *)
(* it passes the failed ones is what FailedSignalIsRetried finds.          *)
PersisterCommitIsAccountedFor ==
  \A o \in 1..pDone : SignalSettled(o) \/ o \in lost

(* docs/api.md:151: "Database or broker failures leave the source offset   *)
(* uncommitted for retry."  The loop goes on with the next message, and    *)
(* its commit covers the failed one too (cmd/signal-persister/main.go:83-  *)
(* 92): no redelivery brings it back.                                      *)
FailedSignalIsRetried == \A o \in 1..pDone : SignalSettled(o)

(* Every event the detector is given has its outcome at the far end: an    *)
(* insight, the DLQ, no match, or a persistence failure left behind; or a  *)
(* process of the path is down.  Through the normalizer, which forgets the *)
(* count of retries, an oversized signal fills the input topic instead:    *)
(* there the claim ends with the bound.                                    *)
Concluded(e) ==
  \/ e \in Quiet \/ e \in dead
  \/ docs["insight"][e].status # "none"
  \/ \E o \in 1..Len(signals) : signals[o].sig = e /\ o \in rejected \cup lost

EventIsConcluded ==
  \A e \in Events :
    (\E o \in 1..Len(input) : input[o].event = e) ~>
      \/ Concluded(e)
      \/ "down" \in {wAt, rAt, pAt}
      \/ route = "normalizer" /\ Len(input) = MaxInput
=============================================================================
