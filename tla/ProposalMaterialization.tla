----------------------- MODULE ProposalMaterialization -----------------------
(***************************************************************************)
(* Proposals of the algorithm runner, an operator's decisions on them, and *)
(* the materialization of reviewed ones as production signals: the routes  *)
(* .../signal-proposals/{id}/decision and /materializations                *)
(* (internal/api/router.go, internal/api/algorithms.go) over               *)
(* storage/postgres/algorithms.go.                                         *)
(*                                                                         *)
(* One tenant and one materialization policy, so the materialization id    *)
(* and the signal id of a proposal are functions of it.  Proposals are     *)
(* well formed and their algorithm results exist; the signal ledger is     *)
(* shorter than the 500 rows the duplicate check reads.                    *)
(***************************************************************************)
EXTENDS Naturals, FiniteSets

CONSTANTS
  Proposals,
  Overlaps,      \* pairs of proposals of one signal type that share an event
  ClientKeys,    \* idempotency keys clients send
  Requests,      \* materialization requests the gateway handles at once
  MaxRequests, MaxDecisions, MaxFaults

ASSUME MaterializationAssumption ==
  /\ Overlaps \subseteq Proposals \X Proposals
  /\ \A p \in Proposals : <<p, p>> \in Overlaps
  /\ \A o \in Overlaps : <<o[2], o[1]>> \in Overlaps
  /\ ClientKeys \cap Proposals = {} /\ "none" \notin Proposals
  /\ MaxRequests \in Nat /\ MaxDecisions \in Nat /\ MaxFaults \in Nat

VARIABLES
  decision,   \* by proposal: its status
  rows,       \* materializations by idempotency key
  ledger,     \* proposals whose signal is in the signal ledger
  eligible,   \* proposals whose SAF eligible event is on its topic
  req,        \* by request: its step and what it has read
  tangled,    \* proposals with overlapping requests at once, or a shared key
  asked, decided, faults

countersVars == <<asked, decided, faults>>
materializationVars == <<decision, rows, ledger, eligible, req, tangled, countersVars>>

Decisions == {"proposed", "reviewed", "rejected"}

(* The key is the client's, or derived from the proposal.                  *)
IdempotencyKeys == Proposals \cup ClientKeys

NoRow == [id |-> "none"]
RowStatuses == {"running", "succeeded", "failed", "blocked", "duplicate"}
Rows == [id : Proposals, proposal : Proposals, status : RowStatuses]

Idle == [at |-> "idle"]
Steps == {"summary", "signals", "running", "write", "failed", "succeeded", "publish",
          "duplicate", "blocked"}

MaterializationTypeOK ==
  /\ decision \in [Proposals -> Decisions \cup {"absent"}]
  /\ rows \in [IdempotencyKeys -> Rows \cup {NoRow}]
  /\ ledger \subseteq Proposals /\ eligible \subseteq Proposals /\ tangled \subseteq Proposals
  /\ req \in [Requests -> {Idle} \cup
       [at : Steps, proposal : Proposals, key : IdempotencyKeys, blocked : BOOLEAN]]
  /\ asked \in 0..MaxRequests /\ decided \in 0..MaxDecisions /\ faults \in 0..MaxFaults

MaterializationInit ==
  /\ decision = [p \in Proposals |-> "absent"]
  /\ rows = [k \in IdempotencyKeys |-> NoRow]
  /\ ledger = {} /\ eligible = {} /\ tangled = {}
  /\ req = [r \in Requests |-> Idle]
  /\ asked = 0 /\ decided = 0 /\ faults = 0

Fault == faults < MaxFaults /\ faults' = faults + 1

-----------------------------------------------------------------------------
(* InsertAlgorithmSignalProposal: an existing proposal stays.              *)
Propose(p) ==
  /\ decision[p] = "absent"
  /\ decision' = [decision EXCEPT ![p] = "proposed"]
  /\ UNCHANGED <<rows, ledger, eligible, req, tangled, countersVars>>

(* MutateAlgorithmSignalProposal: any status over any other.               *)
Decide(p, status) ==
  /\ decided < MaxDecisions /\ decided' = decided + 1
  /\ decision[p] \notin {"absent", status}
  /\ decision' = [decision EXCEPT ![p] = status]
  /\ UNCHANGED <<rows, ledger, eligible, req, tangled, asked, faults>>

-----------------------------------------------------------------------------
At(r, step) == req[r].at = step
Of(r) == req[r].proposal
Step(r, step) == req' = [req EXCEPT ![r].at = step]
End(r) == req' = [req EXCEPT ![r] = Idle]

Recorded(p) == \E k \in IdempotencyKeys : rows[k].id = p

(* The proposal is read; a materialization of it is returned as it is,     *)
(* whatever its status.                                                    *)
Ask(r, p, k) ==
  /\ At(r, "idle") /\ asked < MaxRequests /\ asked' = asked + 1
  /\ decision[p] # "absent" /\ ~Recorded(p)
  /\ k \in ClientKeys \cup {p}
  /\ req' = [req EXCEPT ![r] = [at |-> "summary", proposal |-> p, key |-> k,
                                blocked |-> decision[p] # "reviewed"]]
  /\ LET with == {q \in Proposals : <<p, q>> \in Overlaps /\
                    \E o \in Requests : ~At(o, "idle") /\ Of(o) = q}
     IN tangled' = tangled \cup with \cup (IF with = {} THEN {} ELSE {p})
  /\ UNCHANGED <<decision, rows, ledger, eligible, decided, faults>>

(* SummarizeAlgorithmSignalProposals: with an unreviewed proposal of the   *)
(* tenant the preflight blocks them all.                                   *)
Summarize(r) ==
  /\ At(r, "summary")
  /\ req' = [req EXCEPT ![r].at = "signals",
       ![r].blocked = @ \/ \E q \in Proposals : decision[q] = "proposed"]
  /\ UNCHANGED <<decision, rows, ledger, eligible, tangled, countersVars>>

(* Wrong variant of duplicateSignalIDsForProposal: the proposal's own      *)
(* signal only.                                                            *)
OwnSignals(p) == {p} \cap ledger

DuplicateSignals(p) == {q \in ledger : <<p, q>> \in Overlaps}

(* ListSignalLedger and the preflight: evidence of a duplicate counts more *)
(* than what blocks.                                                       *)
Preflight(r) ==
  /\ At(r, "signals")
  /\ Step(r, IF DuplicateSignals(Of(r)) # {} THEN "duplicate"
             ELSE IF req[r].blocked THEN "blocked" ELSE "running")
  /\ UNCHANGED <<decision, rows, ledger, eligible, tangled, countersVars>>

(* UpsertAlgorithmSignalMaterialization: on a used idempotency key all but *)
(* the id is overwritten, and another key's row of the same id is a        *)
(* constraint error that ends the request.                                 *)
Upsert(r, status, next) ==
  LET k == req[r].key p == Of(r)
      other == rows[k] # NoRow /\ rows[k].proposal # p
  IN \/ /\ rows[k] # NoRow \/ ~Recorded(p)
        /\ rows' = [rows EXCEPT ![k] =
             [id |-> IF @ = NoRow THEN p ELSE @.id, proposal |-> p, status |-> status]]
        /\ tangled' = tangled \cup (IF other THEN {p, rows[k].id, rows[k].proposal} ELSE {})
        /\ IF next = "idle" THEN End(r) ELSE Step(r, next)
     \/ /\ rows[k] = NoRow /\ Recorded(p)
        /\ End(r)
        /\ UNCHANGED <<rows, tangled>>

Record(r, status, next) ==
  /\ At(r, status)
  /\ Upsert(r, status, next)
  /\ UNCHANGED <<decision, ledger, eligible, countersVars>>

RecordDuplicate(r) == Record(r, "duplicate", "idle")
RecordBlocked(r) == Record(r, "blocked", "idle")
RecordRunning(r) == Record(r, "running", "write")
RecordSucceeded(r) == Record(r, "succeeded", "publish")

WriteSignal(r) ==
  /\ At(r, "write")
  /\ ledger' = ledger \cup {Of(r)}
  /\ Step(r, "succeeded")
  /\ UNCHANGED <<decision, rows, eligible, tangled, countersVars>>

(* Wrong variant: the error is passed over.                                *)
WriteFailsUnseen(r) ==
  /\ At(r, "write") /\ Fault
  /\ ledger' \in {ledger, ledger \cup {Of(r)}}
  /\ Step(r, "succeeded")
  /\ UNCHANGED <<decision, rows, eligible, tangled, asked, decided>>

(* UpsertSignalLedger fails, maybe after the temporal store took the row.  *)
WriteFails(r) ==
  /\ At(r, "write") /\ Fault
  /\ ledger' \in {ledger, ledger \cup {Of(r)}}
  /\ Step(r, "failed")
  /\ UNCHANGED <<decision, rows, eligible, tangled, asked, decided>>

RecordFailed(r) == Record(r, "failed", "idle")

(* publishResearchEligibleFromMaterialization; its failure is only logged. *)
PublishEligible(r) ==
  /\ At(r, "publish")
  /\ \/ eligible' = eligible \cup {Of(r)} /\ UNCHANGED faults
     \/ UNCHANGED eligible /\ Fault
  /\ End(r)
  /\ UNCHANGED <<decision, rows, ledger, tangled, asked, decided>>

(* A query fails, the client goes away or the gateway stops.               *)
Break(r) ==
  /\ ~At(r, "idle") /\ Fault
  /\ End(r)
  /\ UNCHANGED <<decision, rows, ledger, eligible, tangled, asked, decided>>

MaterializationNext ==
  \/ \E p \in Proposals : Propose(p) \/ \E status \in Decisions : Decide(p, status)
  \/ \E r \in Requests :
       \/ \E p \in Proposals, k \in IdempotencyKeys : Ask(r, p, k)
       \/ Summarize(r) \/ Preflight(r)
       \/ RecordDuplicate(r) \/ RecordBlocked(r) \/ RecordRunning(r)
       \/ WriteSignal(r) \/ WriteFails(r) \/ RecordFailed(r) \/ RecordSucceeded(r)
       \/ PublishEligible(r) \/ Break(r)

-----------------------------------------------------------------------------
(* "persists that signal in signal_ledger and emits" the eligible event    *)
(* (SignalOps_Signal_Assurance_Framework_v1.1_Codex_Spec.md:912): neither  *)
(* a succeeded row nor an eligible event is without its signal, whatever   *)
(* fails, races or shares a key.                                           *)
(*   docs/api.md:895: overlapping evidence is written as one signal, and a   *)
(* duplicate or blocked row is about a proposal without a signal.  The     *)
(* check and the write are not one transaction and the upsert looks at no  *)
(* status, so this is so only of proposals whose request overlapped no     *)
(* other at the time and shared no client key.                             *)
MaterializationsAgree ==
  /\ eligible \subseteq ledger
  /\ \A k \in IdempotencyKeys :
       rows[k] # NoRow /\ rows[k].status = "succeeded" => rows[k].proposal \in ledger
  /\ \A p, q \in ledger \ tangled : <<p, q>> \in Overlaps => p = q
  /\ \A k \in IdempotencyKeys :
       rows[k] # NoRow /\ rows[k].status \in {"blocked", "duplicate"} =>
         rows[k].proposal \notin ledger \ tangled
=============================================================================
