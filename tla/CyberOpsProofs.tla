---------------------------- MODULE CyberOpsProofs ----------------------------
(***************************************************************************)
(* TLAPS proofs about ConnectIngress, for any number of ids, payloads,     *)
(* relays and messages, and about CyberOpsLifecycle, for any signals,      *)
(* persisters, redeliveries and policy changes.  The two share no variable *)
(* and no proof uses both.                                                 *)
(***************************************************************************)
EXTENDS ConnectIngress, CyberOpsLifecycle, FiniteSetTheorems, SequenceTheorems, TLAPS

(* The conjuncts of the type invariant, by the variables they are about.   *)
ConsumerType ==
  /\ raw \in Seq(Messages) /\ Len(raw) <= MaxMessages
  /\ cAt \in {"process", "commit", "down"}
  /\ cDone \in 0..Len(raw) /\ cNext \in (cDone + 1)..(Len(raw) + 1)
  /\ cAt = "commit" => cNext <= Len(raw)
  /\ dlq \subseteq 1..Len(raw) /\ lost \subseteq 1..Len(raw)

TableType ==
  /\ stored \in [Ids -> Payloads \cup {None}]
  /\ failures \in [Events -> [count : Nat, status : Statuses \cup {"none", "open"}]]
  /\ audits \in [Events -> Nat]

OutboxType ==
  /\ outbox \in Seq([event : Events, published : BOOLEAN])
  /\ accepted \subseteq Events
  /\ todo \in [Relays -> SUBSET (1..Len(outbox))]
  /\ sent \in [Relays -> 0..Len(outbox)]

FaultType == faults \in 0..MaxFaults

(* Up to here the persister has dealt with the messages, committed or not. *)
Handled == IF cAt = "commit" THEN cNext ELSE cNext - 1

Deliveries(e) == {p \in 1..Handled : raw[p] = e /\ p \notin lost}

(* What a handled message left behind; a stored payload stays, and every   *)
(* delivery of another one that was dealt with has been counted.           *)
Evidence ==
  /\ \A o \in 1..Handled : raw[o] = Invalid => o \in dlq
  /\ \A e \in Events :
       stored[e[1]] = e[2] \/ failures[e].count >= Cardinality(Deliveries(e))

(* A row is marked by a process that has published it.                     *)
SentIsAccepted == \A r \in Relays : sent[r] # 0 => outbox[sent[r]].event \in accepted

Inv ==
  /\ ConsumerType /\ TableType /\ OutboxType /\ FaultType
  /\ Evidence
  /\ AcceptedIsGenuine /\ SentIsAccepted

LEMMA InvTypes == Inv => ConnectTypeOK
  BY DEF Inv, ConsumerType, TableType, OutboxType, FaultType, ConnectTypeOK

-----------------------------------------------------------------------------
LEMMA InitInv == ConnectInit => Inv
<1> SUFFICES ASSUME ConnectInit PROVE Inv
  OBVIOUS
<1> USE DEF ConnectInit
<1>0. MaxMessages \in Nat /\ MaxFaults \in Nat
  BY ConnectAssumption
<1>1. ConsumerType /\ FaultType
  BY <1>0 DEF ConsumerType, FaultType
<1>2. TableType
  BY DEF TableType, NoFailure, Events
<1>3. OutboxType
  BY DEF OutboxType
<1>4. AcceptedIsGenuine /\ SentIsAccepted
  BY DEF AcceptedIsGenuine, SentIsAccepted
<1>5. Evidence
  <2>1. Handled = 0
    BY DEF Handled
  <2>2. \A e \in Events : Deliveries(e) = {}
    BY <2>1 DEF Deliveries
  <2>3. \A e \in Events : failures[e].count = 0
    BY DEF NoFailure
  <2>4. \A e \in Events : Cardinality(Deliveries(e)) = 0
    BY <2>2, FS_EmptySet
  <2>5. \A e \in Events : failures[e].count >= Cardinality(Deliveries(e))
    BY <2>3, <2>4
  <2> QED BY <2>1, <2>5 DEF Evidence
<1> QED BY <1>1, <1>2, <1>3, <1>4, <1>5 DEF Inv

-----------------------------------------------------------------------------
(* What a step that leaves the variables of a part alone does to it.       *)

LEMMA ConsumerKept ==
  ConsumerType /\ UNCHANGED <<raw, consumerVars>> => ConsumerType'
  BY DEF ConsumerType, consumerVars

LEMMA TablesKept == TableType /\ UNCHANGED tableVars => TableType'
  BY DEF TableType, tableVars

LEMMA EvidenceKept ==
  Evidence /\ UNCHANGED <<raw, consumerVars, stored>>
           /\ (\A e \in Events : failures'[e].count = failures[e].count)
    => Evidence'
  BY DEF Evidence, Deliveries, Handled, consumerVars

LEMMA OutboxKept ==
  /\ OutboxType /\ AcceptedIsGenuine /\ SentIsAccepted
  /\ UNCHANGED <<stored, outbox, accepted, relayVars>>
  => OutboxType' /\ AcceptedIsGenuine' /\ SentIsAccepted'
  BY DEF OutboxType, AcceptedIsGenuine, SentIsAccepted, relayVars

LEMMA FaultKept == FaultType /\ (UNCHANGED faults \/ Fault) => FaultType'
  BY ConnectAssumption DEF FaultType, Fault

(* Deliveries are a finite set, and a message added to it adds at most one.*)
LEMMA DeliveriesFinite ==
  ASSUME ConsumerType, NEW e
  PROVE  IsFiniteSet(Deliveries(e)) /\ Handled \in 0..Len(raw)
<1>1. Handled \in 0..Len(raw)
  BY DEF Handled, ConsumerType
<1>2. IsFiniteSet(1..Handled)
  BY <1>1, FS_Interval
<1> QED BY <1>1, <1>2, FS_Subset DEF Deliveries

(* Messages that left as many deliveries, or fewer, leave the count enough.*)
LEMMA FewerDeliveries ==
  ASSUME ConsumerType, NEW e, NEW T, T \subseteq Deliveries(e)
  PROVE  IsFiniteSet(T) /\ Cardinality(T) <= Cardinality(Deliveries(e))
  BY DeliveriesFinite, FS_Subset

-----------------------------------------------------------------------------
(* The topic.                                                              *)
LEMMA HandoffKeeps == ASSUME Inv, NEW m \in Messages, Handoff(m) PROVE Inv'
<1>1. ConsumerType /\ Evidence /\ TableType
  BY DEF Inv
<1>2. /\ Len(raw') = Len(raw) + 1 /\ \A i \in 1..Len(raw) : raw'[i] = raw[i]
      /\ raw' \in Seq(Messages)
  BY <1>1 DEF Handoff, ConsumerType
<1>3. ConsumerType'
  BY <1>1, <1>2, ConnectAssumption DEF ConsumerType, Handoff, consumerVars
<1>4. Handled' = Handled /\ Handled \in 0..Len(raw)
  BY <1>1 DEF Handoff, Handled, consumerVars, ConsumerType
<1>5. \A e : Deliveries(e)' = Deliveries(e)
  BY <1>2, <1>4 DEF Deliveries, Handoff, consumerVars
<1>6. Evidence'
  <2>1. UNCHANGED <<stored, failures, dlq>>
    BY DEF Handoff, consumerVars, tableVars
  <2>2. \A o \in 1..Handled' : raw'[o] = Invalid => o \in dlq'
    BY <1>1, <1>2, <1>4, <2>1 DEF Evidence
  <2>3. \A e \in Events : stored'[e[1]] = e[2] \/ failures'[e].count >= Cardinality(Deliveries(e)')
    BY <1>1, <1>5, <2>1 DEF Evidence
  <2> QED BY <2>2, <2>3 DEF Evidence
<1>7. TableType' /\ FaultType' /\ OutboxType' /\ AcceptedIsGenuine' /\ SentIsAccepted'
  BY TablesKept, FaultKept, OutboxKept DEF Inv, Handoff, tableVars
<1> QED BY <1>3, <1>6, <1>7 DEF Inv

(* The persister's handling of a message.                                  *)

LEMMA HoldingFacts ==
  ASSUME Inv, Holding
  PROVE  /\ cNext \in 1..Len(raw) /\ Handled = cNext - 1
         /\ Event \in Messages
  BY DEF Inv, ConsumerType, Holding, Handled, Event

(* The step from process to commit moves Handled to the message.           *)
LEMMA ToCommit ==
  ASSUME Inv, Holding, cAt' = "commit", UNCHANGED <<raw, cNext, cDone, lost>>
  PROVE  /\ Handled' = cNext
         /\ \A e \in Events :
              Deliveries(e)' = Deliveries(e) \cup (IF Event = e /\ cNext \notin lost
                                                  THEN {cNext} ELSE {})
         /\ dlq' \subseteq 1..Len(raw) => ConsumerType'
<1>1. Handled' = cNext
  BY DEF Handled
<1>2. cNext \in 1..Len(raw) /\ Handled = cNext - 1
  BY HoldingFacts
<1>3. ASSUME NEW e \in Events
      PROVE  Deliveries(e)' = Deliveries(e) \cup (IF Event = e /\ cNext \notin lost
                                                  THEN {cNext} ELSE {})
  <2>1. \A p : p \in 1..cNext <=> p \in 1..Handled \/ p = cNext
    BY <1>2
  <2> QED BY <1>1, <2>1 DEF Deliveries, Event
<1>4. ASSUME dlq' \subseteq 1..Len(raw) PROVE ConsumerType'
  BY <1>2, <1>4 DEF Inv, ConsumerType
<1> QED BY <1>1, <1>3, <1>4

LEMMA IgnoreKeeps == ASSUME Inv, Ignore PROVE Inv'
<1>1. ConsumerType /\ Evidence
  BY DEF Inv
<1>2. /\ Handled' = cNext /\ ConsumerType'
      /\ \A e \in Events : Deliveries(e)' = Deliveries(e)
  <2>1. Holding /\ Event = Foreign /\ UNCHANGED <<raw, cNext, cDone, dlq, lost>>
    BY DEF Ignore
  <2>2. dlq' \subseteq 1..Len(raw)
    BY <1>1, <2>1 DEF ConsumerType
  <2> QED BY <2>1, <2>2, ToCommit, ConnectAssumption DEF Ignore
<1>3. Evidence'
  <2>1. Handled = cNext - 1 /\ cNext \in 1..Len(raw)
    BY HoldingFacts DEF Ignore
  <2>2. raw[cNext] # Invalid
    BY ConnectAssumption DEF Ignore, Event
  <2>3. \A o \in 1..cNext : raw[o] = Invalid => o \in dlq
    BY <1>1, <2>1, <2>2 DEF Evidence
  <2>4. UNCHANGED <<raw, stored, failures, dlq>>
    BY DEF Ignore, tableVars
  <2> QED BY <1>1, <1>2, <2>3, <2>4 DEF Evidence
<1>4. TableType' /\ FaultType' /\ OutboxType' /\ AcceptedIsGenuine' /\ SentIsAccepted'
  BY TablesKept, FaultKept, OutboxKept DEF Inv, Ignore, tableVars
<1> QED BY <1>2, <1>3, <1>4 DEF Inv

LEMMA RejectKeeps == ASSUME Inv, Reject PROVE Inv'
<1>1. ConsumerType /\ Evidence
  BY DEF Inv
<1>2. Handled = cNext - 1 /\ cNext \in 1..Len(raw)
  BY HoldingFacts DEF Reject
<1>3. /\ Handled' = cNext /\ ConsumerType'
      /\ \A e \in Events : Deliveries(e)' = Deliveries(e)
  <2>1. Holding /\ Event = Invalid /\ UNCHANGED <<raw, cNext, cDone, lost>>
    BY DEF Reject
  <2>2. dlq' \subseteq 1..Len(raw)
    BY <1>1, <1>2 DEF ConsumerType, Reject
  <2> QED BY <2>1, <2>2, ToCommit, ConnectAssumption DEF Reject
<1>4. Evidence'
  <2>1. \A o \in 1..cNext : raw[o] = Invalid => o \in dlq'
    BY <1>1, <1>2 DEF Evidence, Reject
  <2>2. UNCHANGED <<raw, stored, failures>>
    BY DEF Reject, tableVars
  <2> QED BY <1>1, <1>3, <2>1, <2>2 DEF Evidence
<1>5. TableType' /\ FaultType' /\ OutboxType' /\ AcceptedIsGenuine' /\ SentIsAccepted'
  BY TablesKept, FaultKept, OutboxKept DEF Inv, Reject, tableVars
<1> QED BY <1>3, <1>4, <1>5 DEF Inv

(* A row appended to the outbox: the processes' places stay where they are.*)
LEMMA RowAppended ==
  ASSUME OutboxType, SentIsAccepted, NEW e \in Events,
         outbox' = Append(outbox, Row(e)), UNCHANGED <<accepted, relayVars>>
  PROVE  OutboxType' /\ SentIsAccepted'
<1>1. /\ outbox' \in Seq([event : Events, published : BOOLEAN])
      /\ Len(outbox') = Len(outbox) + 1 /\ Len(outbox) \in Nat
      /\ \A i \in 1..Len(outbox) : outbox'[i] = outbox[i]
  BY DEF OutboxType, Row
<1>2. OutboxType'
  <2>1. \A S \in SUBSET (1..Len(outbox)) : S \in SUBSET (1..Len(outbox'))
    BY <1>1
  <2>2. \A x \in 0..Len(outbox) : x \in 0..Len(outbox')
    BY <1>1
  <2>3. todo' \in [Relays -> SUBSET (1..Len(outbox'))] /\ sent' \in [Relays -> 0..Len(outbox')]
    BY <2>1, <2>2 DEF OutboxType, relayVars
  <2> QED BY <1>1, <2>3 DEF OutboxType
<1>3. SentIsAccepted'
  BY <1>1 DEF OutboxType, SentIsAccepted, relayVars
<1> QED BY <1>2, <1>3

LEMMA RowFacts ==
  ASSUME OutboxType, NEW i \in 1..Len(outbox)
  PROVE  /\ outbox[i] \in [event : Events, published : BOOLEAN]
         /\ outbox[i].event \in Events
<1> DEFINE R == [event : Events, published : BOOLEAN]
<1>1. outbox \in Seq(R)
  BY DEF OutboxType
<1> HIDE DEF R
<1>2. outbox[i] \in R
  BY <1>1
<1> QED BY <1>2 DEF R

LEMMA PersistRawKeeps == ASSUME Inv, PersistRaw PROVE Inv'
<1>1. ConsumerType /\ Evidence /\ TableType /\ OutboxType /\ AcceptedIsGenuine /\ SentIsAccepted
  BY DEF Inv
<1>0. PICK e0 \in Events : e0 = Event
  BY DEF PersistRaw
<1>2. /\ e0 \in Events /\ e0[1] \in Ids /\ e0[2] \in Payloads /\ e0[2] # None
      /\ stored[e0[1]] = None \/ stored[e0[1]] = e0[2]
      /\ stored' = [stored EXCEPT ![e0[1]] = e0[2]]
      /\ stored \in [Ids -> Payloads \cup {None}]
  BY <1>0, <1>1, ConnectAssumption DEF PersistRaw, Conflicts, Events, TableType
<1>3. TableType'
  BY <1>0, <1>1, <1>2 DEF TableType, PersistRaw
<1>4. \A e \in Events : stored[e[1]] = e[2] => stored'[e[1]] = e[2]
  BY <1>2, ConnectAssumption DEF Events
<1>5. /\ Handled' = cNext /\ Handled = cNext - 1 /\ cNext \in 1..Len(raw)
      /\ ConsumerType'
      /\ \A e \in Events : e # e0 => Deliveries(e)' = Deliveries(e)
  <2>1. dlq' \subseteq 1..Len(raw)
    BY <1>1 DEF ConsumerType, PersistRaw
  <2> QED BY <1>0, <2>1, ToCommit, HoldingFacts DEF PersistRaw
<1>6. Evidence'
  <2>1. raw[cNext] # Invalid
    BY <1>0, <1>2, ConnectAssumption DEF Event
  <2>2. \A o \in 1..cNext : raw[o] = Invalid => o \in dlq
    BY <1>1, <1>5, <2>1 DEF Evidence
  <2>3. stored'[e0[1]] = e0[2]
    BY <1>2
  <2>4. UNCHANGED <<raw, failures, dlq>>
    BY DEF PersistRaw
  <2> QED BY <1>1, <1>4, <1>5, <2>2, <2>3, <2>4 DEF Evidence
<1>7. OutboxType' /\ AcceptedIsGenuine' /\ SentIsAccepted'
  <2>0. accepted \subseteq Events /\ UNCHANGED <<accepted, relayVars>>
        /\ outbox \in Seq([event : Events, published : BOOLEAN])
    BY <1>1 DEF OutboxType, PersistRaw
  <2>1. \A e \in accepted : stored'[e[1]] = e[2]
    BY <1>1, <1>4, <2>0 DEF AcceptedIsGenuine
  <2>2. \A i \in 1..Len(outbox) : stored'[outbox[i].event[1]] = outbox[i].event[2]
    BY <1>1, <1>4, RowFacts DEF AcceptedIsGenuine
  <2>3. CASE stored[e0[1]] = None
    <3>1. outbox' = Append(outbox, Row(e0))
      BY <1>0, <2>3 DEF PersistRaw
    <3>2. OutboxType' /\ SentIsAccepted'
      BY <1>1, <1>2, <2>0, <3>1, RowAppended
    <3>3. \A i \in 1..Len(outbox) : outbox[i].event[1] # e0[1]
      <4>1. \A i \in 1..Len(outbox) : outbox[i].event \in Events
        BY <1>1, RowFacts
      <4> QED BY <1>1, <2>3, <4>1, ConnectAssumption DEF AcceptedIsGenuine, Events
    <3>4. /\ Len(outbox') = Len(outbox) + 1 /\ outbox'[Len(outbox) + 1].event = e0
          /\ \A i \in 1..Len(outbox) : outbox'[i] = outbox[i]
          /\ Len(outbox) \in Nat
      BY <2>0, <3>1 DEF Row
    <3>5. \A i \in 1..Len(outbox') : i \in 1..Len(outbox) \/ i = Len(outbox) + 1
      BY <3>4
    <3>6. stored'[e0[1]] = e0[2]
      BY <1>2
    <3>7. \A i \in 1..Len(outbox') : stored'[outbox'[i].event[1]] = outbox'[i].event[2]
      BY <2>2, <3>4, <3>5, <3>6
    <3>8. \A i, j \in 1..Len(outbox') : outbox'[j].event[1] = outbox'[i].event[1] => j = i
      BY <1>1, <3>3, <3>4, <3>5 DEF AcceptedIsGenuine
    <3> QED BY <2>0, <2>1, <3>2, <3>7, <3>8 DEF AcceptedIsGenuine
  <2>4. CASE stored[e0[1]] # None
    <3>1. UNCHANGED outbox
      BY <1>0, <2>4 DEF PersistRaw
    <3> QED BY <1>1, <2>0, <2>1, <2>2, <3>1
            DEF AcceptedIsGenuine, SentIsAccepted, OutboxType, relayVars
  <2> QED BY <2>3, <2>4
<1>8. FaultType'
  BY FaultKept DEF Inv, PersistRaw
<1> QED BY <1>3, <1>5, <1>6, <1>7, <1>8 DEF Inv

LEMMA PersistConflictKeeps == ASSUME Inv, PersistConflict PROVE Inv'
<1>1. ConsumerType /\ Evidence /\ TableType
  BY DEF Inv
<1>0. PICK e0 \in Events : e0 = Event
  BY DEF PersistConflict
<1>2. e0 \in Events /\ failures' = [failures EXCEPT ![e0] = Counted(@)]
  BY <1>0 DEF PersistConflict
<1>3. /\ failures[e0] \in [count : Nat, status : Statuses \cup {"none", "open"}]
      /\ Counted(failures[e0]) \in [count : Nat, status : Statuses \cup {"none", "open"}]
      /\ Counted(failures[e0]).count = failures[e0].count + 1
      /\ failures'[e0] = Counted(failures[e0])
      /\ \A e \in Events : e # e0 => failures'[e] = failures[e]
  BY <1>1, <1>2 DEF TableType, Counted
<1>4. TableType'
  BY <1>1, <1>2, <1>3 DEF TableType, PersistConflict
<1>5. /\ Handled' = cNext /\ Handled = cNext - 1 /\ cNext \in 1..Len(raw)
      /\ ConsumerType'
      /\ \A e \in Events :
           Deliveries(e)' = Deliveries(e) \cup (IF e0 = e /\ cNext \notin lost
                                               THEN {cNext} ELSE {})
  <2>1. dlq' \subseteq 1..Len(raw)
    BY <1>1 DEF ConsumerType, PersistConflict
  <2> QED BY <1>0, <2>1, ToCommit, HoldingFacts DEF PersistConflict
<1>6. Evidence'
  <2>1. raw[cNext] # Invalid
    BY <1>0, <1>2, ConnectAssumption DEF Event
  <2>2. \A o \in 1..cNext : raw[o] = Invalid => o \in dlq
    BY <1>1, <1>5, <2>1 DEF Evidence
  <2>3. UNCHANGED <<raw, stored, dlq>>
    BY DEF PersistConflict
  <2>4. \A e \in Events : e # e0 => Deliveries(e)' = Deliveries(e)
    BY <1>5
  <2>5. Cardinality(Deliveries(e0)') <= Cardinality(Deliveries(e0)) + 1
    <3>1. IsFiniteSet(Deliveries(e0)) /\ Cardinality(Deliveries(e0)) \in Nat
      BY <1>1, DeliveriesFinite, FS_CardinalityType
    <3>2. Deliveries(e0)' = Deliveries(e0) \/ Deliveries(e0)' = Deliveries(e0) \cup {cNext}
      BY <1>2, <1>5
    <3> QED BY <3>1, <3>2, FS_AddElement
  <2>6. stored[e0[1]] = e0[2] \/ failures'[e0].count >= Cardinality(Deliveries(e0)')
    <3>1. IsFiniteSet(Deliveries(e0)') /\ Cardinality(Deliveries(e0)') \in Nat
      <4>1. IsFiniteSet(Deliveries(e0))
        BY <1>1, DeliveriesFinite
      <4>2. Deliveries(e0)' = Deliveries(e0) \/ Deliveries(e0)' = Deliveries(e0) \cup {cNext}
        BY <1>2, <1>5
      <4> QED BY <4>1, <4>2, FS_AddElement, FS_CardinalityType
    <3>2. Cardinality(Deliveries(e0)) \in Nat /\ failures[e0].count \in Nat
      BY <1>1, <1>3, DeliveriesFinite, FS_CardinalityType
    <3>3. failures'[e0].count = failures[e0].count + 1
      BY <1>3
    <3>4. stored[e0[1]] = e0[2] \/ failures[e0].count >= Cardinality(Deliveries(e0))
      BY <1>1, <1>2 DEF Evidence
    <3> QED BY <2>5, <3>1, <3>2, <3>3, <3>4
  <2>7. \A e \in Events : stored'[e[1]] = e[2] \/ failures'[e].count >= Cardinality(Deliveries(e)')
    BY <1>1, <1>3, <2>3, <2>4, <2>6 DEF Evidence
  <2> QED BY <1>5, <2>2, <2>3, <2>7 DEF Evidence
<1>7. FaultType' /\ OutboxType' /\ AcceptedIsGenuine' /\ SentIsAccepted'
  BY FaultKept, OutboxKept DEF Inv, PersistConflict
<1> QED BY <1>4, <1>5, <1>6, <1>7 DEF Inv

(* The offset commit, failures, stops and restarts: Handled stays or goes  *)
(* back, or the message it takes in is lost.                               *)
LEMMA MoveKeeps ==
  ASSUME Inv, ConsumerType', UNCHANGED <<raw, tableVars, dlq>>,
         lost \subseteq lost',
         \A o \in 1..Handled' : o \in 1..Handled \/ (o \in lost' /\ raw[o] # Invalid)
  PROVE  Evidence'
<1>1. ConsumerType /\ Evidence /\ TableType
  BY DEF Inv
<1>2. \A o \in 1..Handled' : raw'[o] = Invalid => o \in dlq'
  BY <1>1 DEF Evidence
<1>3. ASSUME NEW e \in Events
      PROVE  stored'[e[1]] = e[2] \/ failures'[e].count >= Cardinality(Deliveries(e)')
  <2>1. Deliveries(e)' \subseteq Deliveries(e)
    BY DEF Deliveries
  <2>2. /\ IsFiniteSet(Deliveries(e)') /\ IsFiniteSet(Deliveries(e))
        /\ Cardinality(Deliveries(e)') <= Cardinality(Deliveries(e))
    BY <1>1, <2>1, DeliveriesFinite, FS_Subset
  <2>3. Cardinality(Deliveries(e)') \in Nat /\ Cardinality(Deliveries(e)) \in Nat
    BY <2>2, FS_CardinalityType
  <2>4. failures[e].count \in Nat
    BY <1>1 DEF TableType
  <2>5. stored[e[1]] = e[2] \/ failures[e].count >= Cardinality(Deliveries(e))
    BY <1>1 DEF Evidence
  <2> QED BY <2>2, <2>3, <2>4, <2>5 DEF tableVars
<1> QED BY <1>2, <1>3 DEF Evidence

LEMMA LoopKeeps ==
  ASSUME Inv, CommitRaw \/ PersistFails \/ PersisterStops \/ PersisterStarts
  PROVE  Inv'
<1>1. ConsumerType
  BY DEF Inv
<1>2. CASE CommitRaw
  <2>1. ConsumerType'
    BY <1>1, <1>2 DEF ConsumerType, CommitRaw
  <2>2. Handled' = Handled
    BY <1>1, <1>2 DEF Handled, CommitRaw, ConsumerType
  <2>3. UNCHANGED <<raw, tableVars, dlq, lost>>
    BY <1>2 DEF CommitRaw
  <2> QED BY <2>1, <2>2, <2>3, MoveKeeps, TablesKept, FaultKept, OutboxKept, <1>2
          DEF Inv, CommitRaw, tableVars
<1>3. CASE PersistFails
  <2>1. cNext \in 1..Len(raw) /\ Handled = cNext - 1 /\ cAt = "process"
    BY <1>3, HoldingFacts DEF PersistFails, Holding
  <2>2. ConsumerType'
    BY <1>1, <1>3, <2>1 DEF ConsumerType, PersistFails
  <2>3. Handled' = cNext
    BY <1>1, <1>3, <2>1 DEF Handled, PersistFails, ConsumerType
  <2>4. raw[cNext] # Invalid /\ cNext \in lost' /\ lost \subseteq lost'
    BY <1>3, ConnectAssumption DEF PersistFails, Event
  <2>5. \A o \in 1..Handled' : o \in 1..Handled \/ o = cNext
    BY <2>1, <2>3
  <2>6. UNCHANGED <<raw, tableVars, dlq>>
    BY <1>3 DEF PersistFails
  <2>7. Evidence'
    BY <2>2, <2>4, <2>5, <2>6, MoveKeeps
  <2> QED BY <2>2, <2>7, TablesKept, FaultKept, OutboxKept, <1>3
          DEF Inv, PersistFails, tableVars
<1>4. CASE PersisterStops
  <2>1. ConsumerType'
    BY <1>1, <1>4 DEF ConsumerType, PersisterStops
  <2>2. Handled' <= Handled /\ Handled \in 0..Len(raw) /\ Handled' \in Nat
    BY <1>1, <1>4 DEF Handled, PersisterStops, ConsumerType
  <2>3. \A o \in 1..Handled' : o \in 1..Handled
    BY <2>2
  <2>4. UNCHANGED <<raw, tableVars, dlq, lost>>
    BY <1>4 DEF PersisterStops
  <2>5. Evidence'
    BY <2>1, <2>3, <2>4, MoveKeeps
  <2> QED BY <2>1, <2>5, TablesKept, FaultKept, OutboxKept, <1>4
          DEF Inv, PersisterStops, tableVars
<1>5. CASE PersisterStarts
  <2>1. ConsumerType'
    BY <1>1, <1>5 DEF ConsumerType, PersisterStarts
  <2>2. Handled' = Handled
    BY <1>5 DEF Handled, PersisterStarts
  <2>3. UNCHANGED <<raw, tableVars, dlq, lost>>
    BY <1>5 DEF PersisterStarts
  <2>4. Evidence'
    BY <2>1, <2>2, <2>3, MoveKeeps
  <2> QED BY <2>1, <2>4, TablesKept, FaultKept, OutboxKept, <1>5
          DEF Inv, PersisterStarts, tableVars
<1> QED BY <1>2, <1>3, <1>4, <1>5

(* The operators.                                                          *)
LEMMA ResolveKeeps ==
  ASSUME Inv, NEW e \in Events, NEW status \in Statuses, Resolve(e, status)
  PROVE  Inv'
<1>1. TableType /\ Evidence
  BY DEF Inv
<1>2. TableType'
  BY <1>1 DEF TableType, Resolve
<1>3. \A x \in Events : failures'[x].count = failures[x].count
  BY <1>1 DEF TableType, Resolve
<1>4. Evidence' /\ ConsumerType'
  BY <1>1, <1>3, EvidenceKept, ConsumerKept DEF Resolve, Inv
<1>5. FaultType' /\ OutboxType' /\ AcceptedIsGenuine' /\ SentIsAccepted'
  BY FaultKept, OutboxKept DEF Inv, Resolve
<1> QED BY <1>2, <1>4, <1>5 DEF Inv

-----------------------------------------------------------------------------
(* The outbox processes.                                                   *)

(* A step of an outbox process leaves the consumer and the tables alone.   *)
LEMMA RelayKeeps ==
  ASSUME Inv, UNCHANGED <<raw, consumerVars, tableVars>>, UNCHANGED faults \/ Fault,
         OutboxType', AcceptedIsGenuine', SentIsAccepted'
  PROVE  Inv'
<1>1. ConsumerType' /\ TableType' /\ FaultType'
  BY ConsumerKept, TablesKept, FaultKept DEF Inv
<1>2. Evidence'
  BY EvidenceKept DEF Inv, tableVars
<1> QED BY <1>1, <1>2 DEF Inv

LEMMA ListKeeps == ASSUME Inv, NEW r \in Relays, ListPending(r) PROVE Inv'
<1>1. OutboxType /\ AcceptedIsGenuine /\ SentIsAccepted
  BY DEF Inv
<1>2. Page \subseteq 1..Len(outbox)
  BY DEF Page, Pending
<1>3. OutboxType' /\ AcceptedIsGenuine' /\ SentIsAccepted'
  BY <1>1, <1>2 DEF OutboxType, AcceptedIsGenuine, SentIsAccepted, ListPending, tableVars
<1> QED BY <1>3, RelayKeeps DEF ListPending

LEMMA PublishKeeps ==
  ASSUME Inv, NEW r \in Relays, NEW i \in 1..Len(outbox),
         PublishRow(r, i) \/ PublishFails(r, i)
  PROVE  Inv'
<1>1. OutboxType /\ AcceptedIsGenuine /\ SentIsAccepted
  BY DEF Inv
<1> DEFINE e == outbox[i].event
<1>2. e \in Events
  BY <1>1, RowFacts
<1>3. /\ UNCHANGED <<raw, consumerVars, tableVars, outbox>>
      /\ UNCHANGED faults \/ Fault
      /\ accepted' = accepted \/ accepted' = accepted \cup {e}
      /\ todo' = [todo EXCEPT ![r] = @ \ {i}]
      /\ UNCHANGED sent \/ (sent' = [sent EXCEPT ![r] = i] /\ accepted' = accepted \cup {e})
  BY DEF PublishRow, PublishFails, Leave
<1>4. OutboxType'
  BY <1>1, <1>2, <1>3 DEF OutboxType
<1>5. AcceptedIsGenuine'
  BY <1>1, <1>3 DEF AcceptedIsGenuine, tableVars
<1>6. SentIsAccepted'
  BY <1>1, <1>3 DEF SentIsAccepted, OutboxType
<1> QED BY <1>3, <1>4, <1>5, <1>6, RelayKeeps

LEMMA MarkKeeps ==
  ASSUME Inv, NEW r \in Relays, MarkPublished(r) \/ FlushEnds(r)
  PROVE  Inv'
<1>1. OutboxType /\ AcceptedIsGenuine /\ SentIsAccepted
  BY DEF Inv
<1>2. CASE MarkPublished(r)
  <2>1. sent[r] \in 1..Len(outbox)
    BY <1>1, <1>2 DEF OutboxType, MarkPublished
  <2>2. /\ outbox' \in Seq([event : Events, published : BOOLEAN])
        /\ Len(outbox') = Len(outbox)
        /\ \A i \in 1..Len(outbox) : outbox'[i].event = outbox[i].event
    <3>1. PICK n \in 1..Len(outbox) : n = sent[r]
      BY <2>1
    <3>2. outbox[n] \in [event : Events, published : BOOLEAN]
      BY <1>1, RowFacts
    <3>3. [outbox[n] EXCEPT !.published = TRUE] \in [event : Events, published : BOOLEAN]
      BY <3>2
    <3>4. outbox' = [outbox EXCEPT ![n] = [outbox[n] EXCEPT !.published = TRUE]]
      BY <1>2, <3>1 DEF MarkPublished
    <3>5. /\ outbox' \in Seq([event : Events, published : BOOLEAN])
          /\ Len(outbox') = Len(outbox)
      BY <1>1, <3>3, <3>4 DEF OutboxType
    <3>6. \A i \in 1..Len(outbox) : outbox'[i].event = outbox[i].event
      BY <1>1, <3>2, <3>4 DEF OutboxType
    <3> QED BY <3>5, <3>6
  <2>3. OutboxType' /\ AcceptedIsGenuine' /\ SentIsAccepted'
    BY <1>1, <1>2, <2>2
       DEF OutboxType, AcceptedIsGenuine, SentIsAccepted, MarkPublished, tableVars
  <2> QED BY <1>2, <2>3, RelayKeeps DEF MarkPublished
<1>3. CASE FlushEnds(r)
  <2>1. OutboxType' /\ AcceptedIsGenuine' /\ SentIsAccepted'
    BY <1>1, <1>3 DEF OutboxType, AcceptedIsGenuine, SentIsAccepted, FlushEnds, tableVars
  <2> QED BY <1>3, <2>1, RelayKeeps DEF FlushEnds
<1> QED BY <1>2, <1>3

LEMMA NextInv == Inv /\ [ConnectNext]_connectVars => Inv'
<1> SUFFICES ASSUME Inv, [ConnectNext]_connectVars PROVE Inv'
  OBVIOUS
<1>1. CASE \E m \in Messages : Handoff(m)
  BY <1>1, HandoffKeeps
<1>2. CASE Persister
  BY <1>2, IgnoreKeeps, RejectKeeps, PersistRawKeeps, PersistConflictKeeps, LoopKeeps DEF Persister
<1>3. CASE PersistFails \/ PersisterStops \/ PersisterStarts
  BY <1>3, LoopKeeps
<1>4. CASE \E e \in Events, status \in Statuses : Resolve(e, status)
  BY <1>4, ResolveKeeps
<1>5. CASE \E r \in Relays : Flush(r) \/ FlushEnds(r)
  BY <1>5, ListKeeps, PublishKeeps, MarkKeeps DEF Flush
<1>6. CASE UNCHANGED connectVars
  <2>1. UNCHANGED <<raw, consumerVars, tableVars, outbox, accepted, relayVars, faults, stored>>
    BY <1>6 DEF connectVars, tableVars
  <2> QED BY <2>1, RelayKeeps, OutboxKept DEF Inv
<1> QED BY <1>1, <1>2, <1>3, <1>4, <1>5, <1>6 DEF ConnectNext

LEMMA Invariance == ConnectSpec => []Inv
<1>1. ConnectInit => Inv
  BY InitInv
<1>2. Inv /\ [ConnectNext]_connectVars => Inv'
  BY NextInv
<1> QED BY <1>1, <1>2, PTL DEF ConnectSpec

-----------------------------------------------------------------------------
(* Every variable keeps its type (cmd/cyberops-connect-persister,          *)
(* cyberops_connect.go).                                                   *)
THEOREM TypeCorrect == ConnectSpec => []ConnectTypeOK
<1>1. Inv => ConnectTypeOK
  BY InvTypes
<1> QED BY <1>1, Invariance, PTL

(* The accepted topic and the outbox hold exactly stored events, one row   *)
(* each: PersistCyberOpsConnectRaw writes the outbox row with the raw row  *)
(* only, and a changed payload of a stored id goes to neither.             *)
THEOREM AcceptedSafety == ConnectSpec => []AcceptedIsGenuine
<1>1. Inv => AcceptedIsGenuine
  BY DEF Inv
<1> QED BY <1>1, Invariance, PTL

(* What the persister's loop leaves behind at every offset it has passed   *)
(* whose persistence did not fail, over crashes and redeliveries.  The     *)
(* failed ones it passes too, which contradicts the integration document   *)
(* (FailedEventIsRetried).                                                 *)
THEOREM EvidenceSafety == ConnectSpec => []PassedIsEvident
<1>1. Inv => PassedIsEvident
  <2> SUFFICES ASSUME Inv, NEW o \in 1..cDone, raw[o] \in Events,
                      o \notin lost, stored[raw[o][1]] # raw[o][2]
               PROVE  failures[raw[o]].count >=
                        Cardinality({p \in 1..cDone : raw[p] = raw[o] /\ p \notin lost})
    <3>1. ASSUME Inv, NEW o \in 1..cDone
          PROVE  /\ raw[o] \in Messages
                 /\ raw[o] = Invalid => o \in dlq
      <4>1. o \in 1..Len(raw) /\ o \in 1..Handled
        BY <3>1 DEF Inv, ConsumerType, Handled
      <4> QED BY <3>1, <4>1 DEF Inv, ConsumerType, Evidence
    <3> QED BY <3>1, ConnectAssumption DEF PassedIsEvident, Evident, Messages
  <2> DEFINE T == {p \in 1..cDone : raw[p] = raw[o] /\ p \notin lost}
  <2>1. T \subseteq Deliveries(raw[o])
    <3>1. \A p \in 1..cDone : p \in 1..Handled
      BY DEF Inv, ConsumerType, Handled
    <3> QED BY <3>1 DEF Deliveries
  <2>2. IsFiniteSet(T) /\ Cardinality(T) <= Cardinality(Deliveries(raw[o]))
    BY <2>1, FewerDeliveries DEF Inv
  <2>3. Cardinality(T) \in Nat /\ Cardinality(Deliveries(raw[o])) \in Nat
    BY <2>2, DeliveriesFinite, FS_CardinalityType DEF Inv
  <2>4. failures[raw[o]].count \in Nat
    BY DEF Inv, TableType
  <2>5. failures[raw[o]].count >= Cardinality(Deliveries(raw[o]))
    BY DEF Inv, Evidence
  <2> QED BY <2>2, <2>3, <2>4, <2>5
<1> QED BY <1>1, Invariance, PTL

-----------------------------------------------------------------------------
(* The refinement of TransactionalOutbox, step by step.                    *)

Written == {outbox[i].event : i \in 1..Len(outbox)}
Marked == {outbox[i].event : i \in {j \in 1..Len(outbox) : outbox[j].published}}

LEMMA PersistRawMaps ==
  ASSUME Inv, PersistRaw
  PROVE  /\ Marked' = Marked /\ UNCHANGED accepted
         /\ Written' = Written \/ \E e \in Events : Written' = Written \cup {e}
<1>1. outbox \in Seq([event : Events, published : BOOLEAN])
  BY DEF Inv, OutboxType
<1>2. CASE UNCHANGED outbox
  BY <1>2 DEF Written, Marked, PersistRaw
<1>3. CASE ~UNCHANGED outbox
  <2>0. PICK e \in Events : e = Event
    BY DEF PersistRaw
  <2>1. outbox' = Append(outbox, Row(e))
    BY <1>3, <2>0 DEF PersistRaw
  <2>2. /\ Len(outbox') = Len(outbox) + 1 /\ Len(outbox) \in Nat
        /\ outbox'[Len(outbox) + 1] = Row(e)
        /\ \A i \in 1..Len(outbox) : outbox'[i] = outbox[i]
    BY <1>1, <2>1 DEF Row
  <2>3. \A i : i \in 1..Len(outbox') <=> i \in 1..Len(outbox) \/ i = Len(outbox) + 1
    BY <2>2
  <2>4. Written' = Written \cup {e}
    BY <2>2, <2>3 DEF Written, Row
  <2>5. Marked' = Marked
    BY <2>2, <2>3 DEF Marked, Row
  <2> QED BY <2>4, <2>5 DEF PersistRaw
<1> QED BY <1>2, <1>3

LEMMA MarkMaps ==
  ASSUME Inv, NEW r \in Relays, MarkPublished(r)
  PROVE  /\ Written' = Written /\ UNCHANGED accepted
         /\ \E e \in accepted : Marked' = Marked \cup {e}
<1>1. outbox \in Seq([event : Events, published : BOOLEAN]) /\ sent[r] \in 1..Len(outbox)
  BY DEF Inv, OutboxType, MarkPublished
<1>2. PICK n \in 1..Len(outbox) : n = sent[r]
  BY <1>1
<1>3. /\ Len(outbox') = Len(outbox)
      /\ \A i \in 1..Len(outbox) : outbox'[i].event = outbox[i].event
      /\ outbox'[n].published
      /\ \A i \in 1..Len(outbox) : i # n => outbox'[i] = outbox[i]
  BY <1>1, <1>2 DEF MarkPublished
<1>4. Written' = Written
  BY <1>3 DEF Written
<1>5. Marked' = Marked \cup {outbox[n].event}
  BY <1>3 DEF Marked
<1>6. outbox[n].event \in accepted
  BY <1>2, <1>1 DEF Inv, SentIsAccepted
<1> QED BY <1>4, <1>5, <1>6 DEF MarkPublished

LEMMA StepMaps ==
  ASSUME Inv, [ConnectNext]_connectVars
  PROVE  [ConnectOutbox!Next]_<<Written, accepted, Marked>>
<1> USE DEF ConnectOutbox!Next, ConnectOutbox!Write, ConnectOutbox!Deliver, ConnectOutbox!Mark
<1>0. Written \subseteq Events /\ accepted \subseteq Events
  BY RowFacts DEF Inv, OutboxType, Written
<1>1. CASE PersistRaw
  BY <1>1, PersistRawMaps DEF Written, Marked
<1>2. CASE \E r \in Relays : MarkPublished(r)
  BY <1>0, <1>2, MarkMaps DEF Written, Marked
<1>3. CASE \E r \in Relays, i \in 1..Len(outbox) : PublishRow(r, i) \/ PublishFails(r, i)
  <2>1. PICK r \in Relays, i \in 1..Len(outbox) : PublishRow(r, i) \/ PublishFails(r, i)
    BY <1>3
  <2>2. outbox[i].event \in Written
    BY DEF Written
  <2>3. UNCHANGED outbox /\ (accepted' = accepted \/ accepted' = accepted \cup {outbox[i].event})
    BY <2>1 DEF PublishRow, PublishFails
  <2>4. Written' = Written /\ Marked' = Marked
    BY <2>3 DEF Written, Marked
  <2> QED BY <1>0, <2>2, <2>3, <2>4 DEF Written, Marked
<1>4. CASE UNCHANGED <<outbox, accepted>>
  BY <1>4 DEF Written, Marked
<1>5. \/ PersistRaw
      \/ \E r \in Relays : MarkPublished(r)
      \/ \E r \in Relays, i \in 1..Len(outbox) : PublishRow(r, i) \/ PublishFails(r, i)
      \/ UNCHANGED <<outbox, accepted>>
  BY DEF ConnectNext, connectVars, Handoff, Persister, Ignore, Reject, PersistConflict, CommitRaw,
         PersistFails, PersisterStops, PersisterStarts, Resolve, Flush, ListPending, FlushEnds
<1> QED BY <1>1, <1>2, <1>3, <1>4, <1>5

(* The tables, the accepted topic and the outbox processes implement the   *)
(* outbox: a message is on the topic after its row is committed and is     *)
(* marked after that, whatever fails (cmd/cyberops-connect-outbox).        *)
THEOREM OutboxRefinement == ConnectSpec => ImplementsOutbox
<1>1. ConnectInit => ConnectOutbox!Init
  BY DEF ConnectInit, ConnectOutbox!Init
<1>2. Inv /\ [ConnectNext]_connectVars => [ConnectOutbox!Next]_ConnectOutbox!outboxVars
  BY StepMaps DEF ConnectOutbox!outboxVars, Written, Marked
<1> QED BY <1>1, <1>2, Invariance, PTL DEF ConnectSpec, ImplementsOutbox, ConnectOutbox!Spec

-----------------------------------------------------------------------------
(* The decisions a transaction is about to commit are about its signal,    *)
(* at most one per policy.                                                 *)
DraftsAreOwn ==
  \A w \in Persisters :
    tx[w].at = "evaluated" =>
      /\ \A d \in tx[w].new : d.sig = tx[w].sig
      /\ \A d, e \in tx[w].new : d.policy = e.policy => d = e

PolicyInv == PolicyTypeOK /\ DraftsAreOwn /\ EpisodesAreBacked

EpisodeRow(ep) ==
  ep.count \in Nat /\ ep.last \in Nat /\ ep.signals \subseteq Signals /\ ep.work \in BOOLEAN

LEMMA SignalType ==
  ASSUME NEW s \in Signals
  PROVE  s.port \in Ports /\ s.at \in Nat
BY PolicyAssumption DEF Signals

LEMMA KeyType ==
  ASSUME NEW p \in Policies, NEW s \in Signals
  PROVE  Key(p, s) \in Keys /\ Key(p, s)[1] = p
<1>1. s.port \in Ports
  BY SignalType
<1>2. Key(p, s)[2] \in Ports \cup {x.at \div Window : x \in Signals} /\ Key(p, s)[1] = p
      /\ Key(p, s) = <<Key(p, s)[1], Key(p, s)[2]>>
  BY <1>1 DEF Key
<1> QED BY <1>2 DEF Keys

(* What an episode holds of the signals a key has decisions about.         *)
Keeps(sigs, all) ==
  /\ sigs \subseteq all
  /\ Cardinality(sigs) <= MaxEpisodeSignals
  /\ \A s \in all \ sigs :
       /\ Cardinality(sigs) = MaxEpisodeSignals
       /\ \A x \in sigs : Rank[x] > Rank[s]

LEMMA BackedParts ==
  EpisodesAreBacked <=>
    /\ \A d \in decisions :
         /\ d.sig \in Stored
         /\ \A x \in decisions : x.policy = d.policy /\ x.sig = d.sig => x = d
         /\ episodes[Key(d.policy, d.sig)].last >= d.sig.at
         /\ d.work => Key(d.policy, d.sig) \in work
    /\ \A k \in Keys :
         /\ Keeps(episodes[k].signals, Backing(k))
         /\ episodes[k].count >= Cardinality(Backing(k))
         /\ k \in work <=> episodes[k].work
BY DEF EpisodesAreBacked, Keeps

LEMMA FiniteSignals ==
  ASSUME NEW T \in SUBSET Signals
  PROVE  IsFiniteSet(T) /\ Cardinality(T) \in Nat
BY PolicyAssumption, FS_Subset, FS_CardinalityType

LEMMA LowestSignal ==
  ASSUME NEW T \in SUBSET Signals, T # {}
  PROVE  \E m \in T : \A x \in T : x # m => Rank[x] > Rank[m]
<1> DEFINE Below(t) == {x \in T : Rank[x] < Rank[t]}
           Sets == {Below(t) : t \in T}
<1>1. Sets \subseteq FiniteSubsetsOf(T) /\ Sets # {}
  <2>1. \A t \in T : Below(t) \in SUBSET T
    OBVIOUS
  <2> QED BY <2>1, FiniteSignals DEF FiniteSubsetsOf
<1>2. PICK m \in T : \A t \in T : <<Below(t), Below(m)>> \notin StrictSubsetOrdering(T)
  <2>1. IsWellFoundedOn(StrictSubsetOrdering(T), FiniteSubsetsOf(T))
    BY FS_StrictSubsetOrderingWellFounded
  <2>2. \E b \in Sets : \A c \in Sets : <<c, b>> \notin StrictSubsetOrdering(T)
    <3> HIDE DEF Sets
    <3> QED BY <1>1, <2>1, WFMin
  <2> QED BY <2>2
<1>3. \A t \in T : Rank[t] \in Nat
  BY PolicyAssumption
<1>4. ASSUME NEW t \in T PROVE ~(Rank[t] < Rank[m])
  <2>1. Below(t) \subseteq Below(m) => Below(t) = Below(m)
    BY <1>2 DEF StrictSubsetOrdering
  <2>2. Rank[t] < Rank[m] => Below(t) \subseteq Below(m) /\ t \in Below(m) /\ t \notin Below(t)
    BY <1>3
  <2> QED BY <2>1, <2>2
<1>5. \A x \in T : x # m => Rank[x] # Rank[m]
  BY PolicyAssumption
<1> QED BY <1>3, <1>4, <1>5

(* An episode keeps every signal there is room for; with one too many it   *)
(* loses the one with the lowest id.                                       *)
LEMMA KeptFacts ==
  ASSUME NEW T \in SUBSET Signals, Cardinality(T) <= MaxEpisodeSignals + 1
  PROVE  \/ Cardinality(T) <= MaxEpisodeSignals /\ Kept(T) = T
         \/ \E m \in T : /\ Kept(T) = T \ {m} /\ Cardinality(Kept(T)) = MaxEpisodeSignals
                         /\ \A x \in Kept(T) : Rank[x] > Rank[m]
<1> DEFINE Over(t) == {x \in T : Rank[x] > Rank[t]}
<1>1. IsFiniteSet(T) /\ Cardinality(T) \in Nat /\ MaxEpisodeSignals \in Nat \ {0}
  BY FiniteSignals, PolicyAssumption
<1>2. \A t \in T : Rank[t] \in Nat
  BY PolicyAssumption
<1>3. Kept(T) = {t \in T : Cardinality(Over(t)) < MaxEpisodeSignals}
  BY DEF Kept
<1>4. ASSUME NEW t \in T PROVE Cardinality(Over(t)) <= Cardinality(T) - 1 /\ Cardinality(Over(t)) \in Nat
  <2>1. Over(t) \subseteq T \ {t} /\ Over(t) \in SUBSET Signals
    BY <1>2
  <2>2. IsFiniteSet(T \ {t}) /\ Cardinality(T \ {t}) = Cardinality(T) - 1
    BY <1>1, FS_RemoveElement
  <2>3. Cardinality(Over(t)) <= Cardinality(T \ {t})
    BY <2>1, <2>2, FS_Subset
  <2>4. Cardinality(Over(t)) \in Nat
    BY <2>1, FiniteSignals
  <2> QED BY <2>2, <2>3, <2>4
<1>5. CASE Cardinality(T) <= MaxEpisodeSignals
  <2>1. ASSUME NEW t \in T PROVE Cardinality(Over(t)) < MaxEpisodeSignals
    <3> HIDE DEF Over
    <3> QED BY <1>1, <1>4, <1>5
  <2> QED BY <1>3, <1>5, <2>1
<1>6. CASE Cardinality(T) = MaxEpisodeSignals + 1
  <2>1. T # {}
    BY <1>1, <1>6, FS_EmptySet
  <2>2. PICK m \in T : \A x \in T : x # m => Rank[x] > Rank[m]
    BY <2>1, LowestSignal
  <2>3. IsFiniteSet(T \ {m}) /\ Cardinality(T \ {m}) = MaxEpisodeSignals
    BY <1>1, <1>6, FS_RemoveElement
  <2>4. Over(m) = T \ {m}
    BY <1>2, <2>2
  <2>5. ASSUME NEW t \in T, t # m PROVE Cardinality(Over(t)) < MaxEpisodeSignals
    <3>1. Over(t) \subseteq (T \ {m}) \ {t}
      BY <1>2, <2>2, <2>5
    <3>2. t \in T \ {m}
      BY <2>5
    <3>3. /\ IsFiniteSet((T \ {m}) \ {t})
          /\ Cardinality((T \ {m}) \ {t}) = MaxEpisodeSignals - 1
      BY <2>3, <3>2, FS_RemoveElement
    <3>4. Cardinality(Over(t)) <= Cardinality((T \ {m}) \ {t})
      BY <3>1, <3>3, FS_Subset
    <3>5. Cardinality(Over(t)) \in Nat
      BY <1>4
    <3>6. Cardinality(Over(t)) <= MaxEpisodeSignals - 1
      BY <3>3, <3>4, Zenon
    <3> HIDE DEF Over
    <3> QED BY <1>1, <3>5, <3>6
  <2>6. ~(Cardinality(Over(m)) < MaxEpisodeSignals)
    <3>1. Cardinality(Over(m)) = MaxEpisodeSignals
      BY <2>3, <2>4, Zenon
    <3> HIDE DEF Over
    <3> QED BY <1>1, <3>1
  <2>7. Kept(T) = T \ {m}
    <3> HIDE DEF Over
    <3> QED BY <1>3, <2>5, <2>6
  <2> QED BY <2>2, <2>3, <2>7
<1>7. Cardinality(T) <= MaxEpisodeSignals \/ Cardinality(T) = MaxEpisodeSignals + 1
  BY <1>1
<1> QED BY <1>5, <1>6, <1>7

(* The signals with the highest ids stay the ones an episode holds.        *)
LEMMA KeepsOn ==
  ASSUME NEW all \in SUBSET Signals, NEW sigs, Keeps(sigs, all), NEW s \in Signals
  PROVE  Keeps(Kept(sigs \cup {s}), all \cup {s})
<1> DEFINE T == sigs \cup {s}
<1>1. T \in SUBSET Signals /\ sigs \in SUBSET Signals
  BY DEF Keeps
<1>2. /\ IsFiniteSet(sigs) /\ Cardinality(sigs) \in Nat /\ MaxEpisodeSignals \in Nat
      /\ Cardinality(T) = IF s \in sigs THEN Cardinality(sigs) ELSE Cardinality(sigs) + 1
  BY <1>1, FiniteSignals, FS_AddElement, PolicyAssumption
<1>3. Cardinality(T) <= MaxEpisodeSignals + 1
  BY <1>2 DEF Keeps
<1>4. \A x \in Signals : Rank[x] \in Nat
  BY PolicyAssumption
<1>5. CASE Cardinality(T) <= MaxEpisodeSignals /\ Kept(T) = T
  <2>1. ASSUME NEW x \in all \ T PROVE Cardinality(T) = MaxEpisodeSignals /\ \A y \in T : Rank[y] > Rank[x]
    <3>1. Cardinality(sigs) = MaxEpisodeSignals /\ \A y \in sigs : Rank[y] > Rank[x]
      BY <2>1 DEF Keeps
    <3>2. s \in sigs
      BY <1>2, <1>5, <3>1
    <3> QED BY <1>2, <3>1, <3>2
  <2>2. T \subseteq all \cup {s}
    BY DEF Keeps
  <2>3. (all \cup {s}) \ T = all \ T
    OBVIOUS
  <2> HIDE DEF T
  <2>4. Keeps(T, all \cup {s})
    BY <1>5, <2>1, <2>2, <2>3 DEF Keeps
  <2> QED BY <1>5, <2>4 DEF T
<1>6. ASSUME NEW m \in T, Kept(T) = T \ {m}, Cardinality(Kept(T)) = MaxEpisodeSignals,
             \A x \in Kept(T) : Rank[x] > Rank[m]
      PROVE  Keeps(Kept(T), all \cup {s})
  <2>1. ASSUME NEW x \in (all \cup {s}) \ Kept(T), NEW y \in Kept(T) PROVE Rank[y] > Rank[x]
    <3>1. CASE x = m
      BY <1>6, <3>1
    <3>2. CASE x # m
      <4>1. x \in all \ sigs
        BY <1>6, <3>2
      <4>2. \A z \in sigs : Rank[z] > Rank[x]
        BY <4>1 DEF Keeps
      <4>3. CASE y \in sigs
        BY <4>2, <4>3
      <4>4. CASE y \notin sigs
        <5>1. y = s /\ m \in sigs
          BY <1>6, <4>4
        <5>2. Rank[y] > Rank[m] /\ Rank[m] > Rank[x]
          BY <1>6, <4>2, <5>1
        <5>3. Rank[y] \in Nat /\ Rank[m] \in Nat /\ Rank[x] \in Nat
          BY <1>1, <1>4, <1>6, <4>1
        <5> QED BY <5>2, <5>3
      <4> QED BY <4>3, <4>4
    <3> QED BY <3>1, <3>2
  <2>2. Kept(T) \subseteq all \cup {s}
    BY <1>6 DEF Keeps
  <2> HIDE DEF T
  <2> QED BY <1>2, <1>6, <2>1, <2>2 DEF Keeps
<1> QED BY <1>1, <1>3, <1>5, <1>6, KeptFacts

LEMMA PolicyInitInv == PolicyInit => PolicyInv
<1> SUFFICES ASSUME PolicyInit PROVE PolicyInv
  OBVIOUS
<1>1. \A w \in Persisters : tx[w] = Idle
  BY DEF PolicyInit
<1>2. \A k \in Keys : episodes[k] = NoEpisode
  BY DEF PolicyInit
<1>3. PolicyTypeOK
  <2>1. mode \in [Policies -> Modes]
    BY DEF PolicyInit, Modes
  <2>2. \A k \in Keys :
          /\ episodes[k].count \in Nat /\ episodes[k].last \in Nat
          /\ episodes[k].signals \subseteq Signals /\ episodes[k].work \in BOOLEAN
    <3>1. NoEpisode.count = 0 /\ NoEpisode.last = 0 /\ NoEpisode.signals = {} /\ NoEpisode.work = FALSE
      BY DEF NoEpisode
    <3>2. NoEpisode.work \in BOOLEAN
      BY <3>1
    <3> QED BY <1>2, <3>1, <3>2
  <2>3. DOMAIN tx = Persisters /\ DOMAIN episodes = Keys
    BY DEF PolicyInit
  <2>4. /\ team \subseteq Persisters /\ approved \subseteq Ports /\ ledger \in Seq(Signals)
        /\ decisions \subseteq Decision /\ work \subseteq Keys
        /\ deliveries \in 0..MaxDeliveries /\ changes \in 0..MaxChanges
    BY PolicyAssumption, EmptySeq DEF PolicyInit
  <2> QED BY <1>1, <2>1, <2>2, <2>3, <2>4 DEF PolicyTypeOK
<1>4. DraftsAreOwn
  <2>1. Idle.at = "idle"
    BY DEF Idle
  <2> QED BY <1>1, <2>1 DEF DraftsAreOwn
<1>5. EpisodesAreBacked
  <2>1. decisions = {} /\ work = {}
    BY DEF PolicyInit
  <2>2. NoEpisode.signals = {} /\ NoEpisode.count = 0 /\ ~NoEpisode.work
    BY DEF NoEpisode
  <2>3. Cardinality({}) = 0 /\ MaxEpisodeSignals \in Nat
    BY FS_EmptySet, PolicyAssumption
  <2>4. \A k \in Keys : Backing(k) = {}
    BY <2>1 DEF Backing
  <2>5. ASSUME NEW k \in Keys
        PROVE  /\ Keeps(episodes[k].signals, Backing(k))
               /\ episodes[k].count >= Cardinality(Backing(k))
               /\ k \in work <=> episodes[k].work
    BY <1>2, <2>1, <2>2, <2>3, <2>4 DEF Keeps
  <2> QED BY <2>1, <2>5, BackedParts
<1> QED BY <1>3, <1>4, <1>5 DEF PolicyInv

(* A step that only moves one transaction.                                 *)
LEMMA TxChange ==
  ASSUME PolicyInv, NEW w \in Persisters, NEW new, tx' = [tx EXCEPT ![w] = new],
         DOMAIN tx = Persisters, UNCHANGED <<team, mode, approved, ledger, decisions, episodes, work, changes>>,
         deliveries' \in 0..MaxDeliveries,
         \/ new = Idle
         \/ new.at = "loaded" /\ new.sig \in Signals /\ new.modes \in [Policies -> Modes]
         \/ new.at = "evaluated" /\ new.sig \in Signals /\ new.new \subseteq Decision,
         new.at = "evaluated" => \A d \in new.new : d.sig = new.sig,
         new.at = "evaluated" => \A d, e \in new.new : d.policy = e.policy => d = e
  PROVE  PolicyInv'
<1>1. tx'[w] = new /\ \A v \in Persisters : v # w => tx'[v] = tx[v]
  OBVIOUS
<1>2. PolicyTypeOK'
  BY <1>1 DEF PolicyInv, PolicyTypeOK
<1>3. DraftsAreOwn'
  BY <1>1 DEF PolicyInv, DraftsAreOwn
<1>4. EpisodesAreBacked'
  BY DEF PolicyInv, EpisodesAreBacked, Backing, Stored
<1> QED BY <1>2, <1>3, <1>4 DEF PolicyInv

LEMMA LoadStep ==
  ASSUME PolicyInv, NEW w \in Persisters, NEW s \in Signals, LoadPolicies(w, s)
  PROVE  PolicyInv'
<1> DEFINE new == [at |-> "loaded", sig |-> s, modes |-> mode]
<1>1. /\ tx' = [tx EXCEPT ![w] = new] /\ DOMAIN tx = Persisters
      /\ mode \in [Policies -> Modes] /\ deliveries' \in 0..MaxDeliveries
      /\ UNCHANGED <<team, mode, approved, ledger, decisions, episodes, work, changes>>
  BY PolicyAssumption DEF LoadPolicies, PolicyInv, PolicyTypeOK, policyVars, storeVars
<1>2. new.at = "loaded" /\ new.sig \in Signals /\ new.modes \in [Policies -> Modes]
  BY <1>1
<1> HIDE DEF new
<1> QED BY <1>1, <1>2, TxChange

(* What Evaluate puts into the transaction.                                *)
Draft(w, modes, s) ==
  {[policy |-> p, sig |-> s, disposition |-> Disposition(p, s),
    work |-> modes[p] = "enforced" /\ Disposition(p, s) # "record_only"] :
     p \in {q \in Policies : modes[q] # "disabled" /\ Matches(q, s)}}

LEMMA DraftFacts ==
  ASSUME NEW w, NEW modes, NEW s \in Signals
  PROVE  /\ Draft(w, modes, s) \subseteq Decision
         /\ \A d \in Draft(w, modes, s) : d.sig = s
         /\ \A d, e \in Draft(w, modes, s) : d.policy = e.policy => d = e
         /\ modes["port-scan"] # "disabled" /\ Matches("port-scan", s) =>
              \E d \in Draft(w, modes, s) : d.policy = "port-scan"
<1>1. \A p \in Policies : Disposition(p, s) \in Dispositions
  BY DEF Policies, Disposition, Dispositions
<1>2. "port-scan" \in Policies
  BY DEF Policies
<1>3. ASSUME NEW p \in Policies
      PROVE  [policy |-> p, sig |-> s, disposition |-> Disposition(p, s),
              work |-> modes[p] = "enforced" /\ Disposition(p, s) # "record_only"] \in Decision
  <2>1. (modes[p] = "enforced" /\ Disposition(p, s) # "record_only") \in BOOLEAN
    OBVIOUS
  <2> QED BY <1>1, <2>1, Zenon DEF Decision
<1>4. Draft(w, modes, s) \subseteq Decision
  BY <1>3 DEF Draft
<1>5. /\ \A d \in Draft(w, modes, s) : d.sig = s
      /\ \A d, e \in Draft(w, modes, s) : d.policy = e.policy => d = e
  BY DEF Draft
<1>6. modes["port-scan"] # "disabled" /\ Matches("port-scan", s) =>
        \E d \in Draft(w, modes, s) : d.policy = "port-scan"
  <2> DEFINE d == [policy |-> "port-scan", sig |-> s, disposition |-> Disposition("port-scan", s),
                   work |-> modes["port-scan"] = "enforced" /\ Disposition("port-scan", s) # "record_only"]
  <2>1. modes["port-scan"] # "disabled" /\ Matches("port-scan", s) => d \in Draft(w, modes, s)
    BY <1>2, Zenon DEF Draft
  <2>2. d.policy = "port-scan"
    OBVIOUS
  <2> QED BY <2>1, <2>2
<1> QED BY <1>4, <1>5, <1>6

LEMMA EvaluateStep ==
  ASSUME PolicyInv, NEW w \in Persisters, Evaluate(w)
  PROVE  PolicyInv'
<1> DEFINE s == tx[w].sig
           new == [at |-> "evaluated", sig |-> s, new |-> Draft(w, tx[w].modes, s)]
<1>1. /\ tx' = [tx EXCEPT ![w] = new] /\ DOMAIN tx = Persisters /\ tx[w].at = "loaded"
      /\ UNCHANGED <<team, mode, approved, ledger, decisions, episodes, work, deliveries, changes>>
  BY DEF Evaluate, PolicyInv, PolicyTypeOK, policyVars, storeVars, Draft
<1>2. s \in Signals /\ deliveries \in 0..MaxDeliveries
  BY <1>1 DEF PolicyInv, PolicyTypeOK, Idle
<1>3. /\ new.at = "evaluated" /\ new.sig = s /\ new.new = Draft(w, tx[w].modes, s)
  OBVIOUS
<1>4. /\ new.new \subseteq Decision
      /\ \A d \in new.new : d.sig = new.sig
      /\ \A d, e \in new.new : d.policy = e.policy => d = e
  BY <1>2, <1>3, DraftFacts
<1> HIDE DEF new, s
<1> QED BY <1>1, <1>2, <1>3, <1>4, TxChange

LEMMA RollbackStep ==
  ASSUME PolicyInv, NEW w \in Persisters, Rollback(w)
  PROVE  PolicyInv'
<1>1. /\ tx' = [tx EXCEPT ![w] = Idle] /\ DOMAIN tx = Persisters
      /\ deliveries' \in 0..MaxDeliveries
      /\ UNCHANGED <<team, mode, approved, ledger, decisions, episodes, work, changes>>
  BY DEF Rollback, PolicyInv, PolicyTypeOK, policyVars, storeVars
<1>2. Idle.at = "idle"
  BY DEF Idle
<1> QED BY <1>1, <1>2, TxChange

-----------------------------------------------------------------------------
LEMMA StoredAfterCommit ==
  ASSUME PolicyInv, NEW w \in Persisters, Commit(w)
  PROVE  /\ ledger' \in Seq(Signals) /\ Stored' = Stored \cup {tx[w].sig}
         /\ tx[w].sig \in Signals /\ tx[w].new \subseteq Decision
         /\ ledger' = ledger \/ (Len(ledger') = Len(ledger) + 1 /\ ledger'[Len(ledger) + 1] = tx[w].sig)
         /\ \A i \in 1..Len(ledger) : ledger'[i] = ledger[i]
<1> DEFINE s == tx[w].sig
<1>1. /\ tx[w].at = "evaluated" /\ ledger \in Seq(Signals)
      /\ ledger' = IF s \in Stored THEN ledger ELSE Append(ledger, s)
  BY DEF Commit, PolicyInv, PolicyTypeOK
<1>2. s \in Signals /\ tx[w].new \subseteq Decision
  BY <1>1 DEF PolicyInv, PolicyTypeOK, Idle
<1>3. CASE s \in Stored
  BY <1>1, <1>2, <1>3 DEF Stored
<1>4. CASE s \notin Stored
  <2>1. ledger' = Append(ledger, s)
    BY <1>1, <1>4
  <2> HIDE DEF s
  <2>2. /\ ledger' \in Seq(Signals) /\ Len(ledger') = Len(ledger) + 1 /\ Len(ledger) \in Nat
        /\ \A i \in 1..Len(ledger) : ledger'[i] = ledger[i]
        /\ ledger'[Len(ledger) + 1] = s
    BY <1>1, <1>2, <2>1, AppendProperties, LenProperties
  <2>3. Stored' = Stored \cup {s}
    <3>1. 1..Len(ledger') = 1..Len(ledger) \cup {Len(ledger) + 1}
      BY <2>2
    <3> QED BY <2>2, <3>1 DEF Stored
  <2> QED BY <1>2, <2>2, <2>3 DEF s
<1> QED BY <1>3, <1>4

(* What a commit does to the decisions and to the episode of each key.     *)
LEMMA CommitFacts ==
  ASSUME PolicyInv, NEW w \in Persisters, Commit(w)
  PROVE  /\ decisions \subseteq decisions' /\ decisions' \subseteq decisions \cup tx[w].new
         /\ \A d \in tx[w].new : d.sig = tx[w].sig /\ Key(d.policy, d.sig) \in Keys
         /\ \A d \in tx[w].new : d \in decisions' \/ \E x \in decisions : x.policy = d.policy /\ x.sig = d.sig
         /\ \A d \in decisions' \ decisions : ~Decided(d.policy, d.sig)
         /\ \A d \in tx[w].new :
              episodes'[Key(d.policy, d.sig)] = Observed(episodes[Key(d.policy, d.sig)], d)
         /\ \A k \in Keys : (\A d \in tx[w].new : Key(d.policy, d.sig) # k) => episodes'[k] = episodes[k]
         /\ \A d, e \in tx[w].new : Key(d.policy, d.sig) = Key(e.policy, e.sig) => d = e
         /\ DOMAIN episodes' = Keys
         /\ work' = work \cup {Key(d.policy, d.sig) : d \in {n \in tx[w].new : n.work}}
<1> DEFINE new == tx[w].new  s == tx[w].sig  KeyOf(d) == Key(d.policy, d.sig)
<1>1. /\ tx[w].at = "evaluated"
      /\ decisions' = decisions \cup {d \in new : ~Decided(d.policy, d.sig)}
      /\ episodes' = [k \in Keys |->
            IF \E d \in new : KeyOf(d) = k
            THEN Observed(episodes[k], CHOOSE d \in new : KeyOf(d) = k) ELSE episodes[k]]
      /\ work' = work \cup {KeyOf(d) : d \in {n \in new : n.work}}
  BY DEF Commit, Recorded
<1>2. s \in Signals /\ new \subseteq Decision
  BY StoredAfterCommit
<1>3. /\ \A d \in new : d.sig = s
      /\ \A d, e \in new : d.policy = e.policy => d = e
  BY <1>1 DEF PolicyInv, DraftsAreOwn
<1>4. \A d \in new : d.policy \in Policies /\ KeyOf(d) \in Keys /\ KeyOf(d)[1] = d.policy
  <2> SUFFICES ASSUME NEW d \in new
               PROVE  d.policy \in Policies /\ KeyOf(d) \in Keys /\ KeyOf(d)[1] = d.policy
    OBVIOUS
  <2>1. d.policy \in Policies /\ d.sig \in Signals
    BY <1>2 DEF Decision
  <2> QED BY <2>1, KeyType
<1>5. \A d, e \in new : KeyOf(d) = KeyOf(e) => d = e
  BY <1>3, <1>4
<1> HIDE DEF KeyOf, new, s
<1>6. ASSUME NEW d \in new PROVE episodes'[KeyOf(d)] = Observed(episodes[KeyOf(d)], d)
  <2>1. (CHOOSE e \in new : KeyOf(e) = KeyOf(d)) = d
    BY <1>5
  <2> QED BY <1>1, <1>4, <2>1
<1>7. ASSUME NEW k \in Keys, \A d \in new : KeyOf(d) # k PROVE episodes'[k] = episodes[k]
  BY <1>1, <1>7
<1>8. \A d \in new : d \in decisions' \/ \E x \in decisions : x.policy = d.policy /\ x.sig = d.sig
  BY <1>1 DEF Decided
<1>9. DOMAIN episodes' = Keys
  BY <1>1
<1>10. /\ decisions \subseteq decisions' /\ decisions' \subseteq decisions \cup new
       /\ \A d \in decisions' \ decisions : ~Decided(d.policy, d.sig)
  BY <1>1
<1> QED BY <1>1, <1>3, <1>4, <1>5, <1>6, <1>7, <1>8, <1>9, <1>10 DEF KeyOf, new, s

LEMMA ObservedFacts ==
  ASSUME NEW ep, EpisodeRow(ep), NEW d, d.sig \in Signals, d.work \in BOOLEAN,
         NEW all \in SUBSET Signals, Keeps(ep.signals, all), ep.count >= Cardinality(all)
  PROVE  /\ EpisodeRow(Observed(ep, d))
         /\ Keeps(Observed(ep, d).signals, all \cup {d.sig})
         /\ Observed(ep, d).last >= ep.last /\ Observed(ep, d).last >= d.sig.at
         /\ Observed(ep, d).count >= Cardinality(all \cup {d.sig})
         /\ Observed(ep, d).work <=> ep.work \/ d.work
<1>1. d.sig.at \in Nat /\ ep.count \in Nat /\ ep.last \in Nat
  BY SignalType DEF EpisodeRow
<1>2. /\ Observed(ep, d).signals = Kept(ep.signals \cup {d.sig})
      /\ Observed(ep, d).count = ep.count + 1
      /\ Observed(ep, d).last = Later(ep.last, d.sig.at)
      /\ Observed(ep, d).work = (ep.work \/ d.work)
  BY DEF Observed
<1>3. /\ Later(ep.last, d.sig.at) \in Nat
      /\ Later(ep.last, d.sig.at) >= ep.last /\ Later(ep.last, d.sig.at) >= d.sig.at
  BY <1>1 DEF Later
<1>4. Keeps(Kept(ep.signals \cup {d.sig}), all \cup {d.sig})
  BY KeepsOn
<1>5. EpisodeRow(Observed(ep, d))
  <2>1. (ep.work \/ d.work) \in BOOLEAN /\ Kept(ep.signals \cup {d.sig}) \subseteq Signals
    BY <1>4 DEF Keeps, EpisodeRow
  <2> QED BY <1>1, <1>2, <1>3, <2>1 DEF EpisodeRow
<1>6. Cardinality(all \cup {d.sig}) <= Cardinality(all) + 1
      /\ Cardinality(all) \in Nat /\ Cardinality(all \cup {d.sig}) \in Nat
  <2>1. IsFiniteSet(all) /\ Cardinality(all) \in Nat
    BY FiniteSignals
  <2>2. Cardinality(all \cup {d.sig}) =
          IF d.sig \in all THEN Cardinality(all) ELSE Cardinality(all) + 1
    BY <2>1, FS_AddElement
  <2> QED BY <2>1, <2>2
<1>7. Observed(ep, d).count >= Cardinality(all \cup {d.sig})
  BY <1>1, <1>2, <1>6
<1> QED BY <1>2, <1>3, <1>4, <1>5, <1>7

LEMMA CommitStep ==
  ASSUME PolicyInv, NEW w \in Persisters, Commit(w)
  PROVE  PolicyInv'
<1> DEFINE new == tx[w].new
           s == tx[w].sig
           KeyOf(d) == Key(d.policy, d.sig)
<1>1. /\ ledger' \in Seq(Signals) /\ Stored' = Stored \cup {s}
      /\ s \in Signals /\ new \subseteq Decision
  BY StoredAfterCommit
<1>2. /\ decisions \subseteq decisions' /\ decisions' \subseteq decisions \cup new
      /\ \A d \in new : d.sig = s /\ KeyOf(d) \in Keys
      /\ \A d \in new : d \in decisions' \/ \E x \in decisions : x.policy = d.policy /\ x.sig = d.sig
      /\ \A d \in decisions' \ decisions : ~Decided(d.policy, d.sig)
      /\ \A d \in new : episodes'[KeyOf(d)] = Observed(episodes[KeyOf(d)], d)
      /\ \A k \in Keys : (\A d \in new : KeyOf(d) # k) => episodes'[k] = episodes[k]
      /\ \A d, e \in new : KeyOf(d) = KeyOf(e) => d = e
      /\ DOMAIN episodes' = Keys
      /\ work' = work \cup {KeyOf(d) : d \in {n \in new : n.work}}
  BY CommitFacts
<1>3. /\ tx' = [tx EXCEPT ![w] = Idle] /\ DOMAIN tx = Persisters
      /\ UNCHANGED <<team, mode, approved, deliveries, changes>>
      /\ \A d, e \in new : d.policy = e.policy => d = e
  BY DEF Commit, PolicyInv, PolicyTypeOK, policyVars, DraftsAreOwn
<1>4. /\ \A k \in Keys :
           /\ EpisodeRow(episodes[k]) /\ Keeps(episodes[k].signals, Backing(k))
           /\ episodes[k].count >= Cardinality(Backing(k))
           /\ k \in work <=> episodes[k].work
      /\ \A k : Backing(k) \in SUBSET Signals
  <2>1. \A k \in Keys :
          /\ EpisodeRow(episodes[k]) /\ Keeps(episodes[k].signals, Backing(k))
          /\ episodes[k].count >= Cardinality(Backing(k))
          /\ k \in work <=> episodes[k].work
    BY BackedParts DEF PolicyInv, PolicyTypeOK, EpisodeRow
  <2>2. \A d \in decisions : d.sig \in Signals
    BY DEF PolicyInv, PolicyTypeOK, Decision
  <2> QED BY <2>1, <2>2 DEF Backing
<1>5. \A d \in new : d.sig \in Signals /\ d.work \in BOOLEAN
  BY <1>1 DEF Decision
<1> HIDE DEF new, s
<1>6. ASSUME NEW d \in new
      PROVE  /\ EpisodeRow(episodes'[KeyOf(d)])
             /\ Keeps(episodes'[KeyOf(d)].signals, Backing(KeyOf(d)) \cup {d.sig})
             /\ episodes'[KeyOf(d)].last >= episodes[KeyOf(d)].last
             /\ episodes'[KeyOf(d)].last >= d.sig.at
             /\ episodes'[KeyOf(d)].count >= Cardinality(Backing(KeyOf(d)) \cup {d.sig})
             /\ episodes'[KeyOf(d)].work <=> episodes[KeyOf(d)].work \/ d.work
  <2> DEFINE ep == episodes[KeyOf(d)]
             all == Backing(KeyOf(d))
  <2>1. KeyOf(d) \in Keys /\ episodes'[KeyOf(d)] = Observed(ep, d)
    BY <1>2
  <2>2. EpisodeRow(ep) /\ Keeps(ep.signals, all) /\ ep.count >= Cardinality(all)
        /\ all \in SUBSET Signals
    BY <1>4, <2>1
  <2>3. d.sig \in Signals /\ d.work \in BOOLEAN
    BY <1>5
  <2> HIDE DEF KeyOf, ep, all
  <2>4. /\ EpisodeRow(Observed(ep, d))
        /\ Keeps(Observed(ep, d).signals, all \cup {d.sig})
        /\ Observed(ep, d).last >= ep.last /\ Observed(ep, d).last >= d.sig.at
        /\ Observed(ep, d).count >= Cardinality(all \cup {d.sig})
        /\ Observed(ep, d).work <=> ep.work \/ d.work
    BY <2>2, <2>3, ObservedFacts
  <2> QED BY <2>1, <2>4 DEF ep, all
<1>7. PolicyTypeOK'
  <2>1. \A k \in Keys : EpisodeRow(episodes'[k])
    BY <1>2, <1>4, <1>6
  <2>2. decisions' \subseteq Decision /\ work' \subseteq Keys
    BY <1>1, <1>2 DEF PolicyInv, PolicyTypeOK
  <2>3. /\ DOMAIN tx' = Persisters /\ tx'[w] = Idle
        /\ \A v \in Persisters : v # w => tx'[v] = tx[v]
    BY <1>3
  <2>4. \A k \in Keys :
          /\ episodes'[k].count \in Nat /\ episodes'[k].last \in Nat
          /\ episodes'[k].signals \subseteq Signals /\ episodes'[k].work \in BOOLEAN
    BY <2>1 DEF EpisodeRow
  <2> QED BY <1>1, <1>2, <1>3, <2>2, <2>3, <2>4 DEF PolicyInv, PolicyTypeOK
<1>8. DraftsAreOwn'
  <2>1. Idle.at = "idle"
    BY DEF Idle
  <2> QED BY <1>3, <2>1 DEF PolicyInv, DraftsAreOwn
<1>9. ASSUME NEW d \in decisions'
      PROVE  /\ d.sig \in Stored'
             /\ \A x \in decisions' : x.policy = d.policy /\ x.sig = d.sig => x = d
             /\ episodes'[KeyOf(d)].last >= d.sig.at
             /\ d.work => KeyOf(d) \in work'
  <2>1. CASE d \in decisions
    <3>1. /\ d.sig \in Stored /\ episodes[KeyOf(d)].last >= d.sig.at
          /\ d.work => KeyOf(d) \in work
          /\ \A x \in decisions : x.policy = d.policy /\ x.sig = d.sig => x = d
      BY <2>1 DEF PolicyInv, EpisodesAreBacked
    <3>2. \A x \in decisions' : x.policy = d.policy /\ x.sig = d.sig => x = d
      BY <1>2, <2>1, <3>1 DEF Decided
    <3>3. KeyOf(d) \in Keys /\ d.sig.at \in Nat
      BY <2>1, KeyType, SignalType DEF PolicyInv, PolicyTypeOK, Decision
    <3>4. episodes'[KeyOf(d)].last >= d.sig.at
      <4>1. CASE \A e \in new : KeyOf(e) # KeyOf(d)
        BY <1>2, <3>1, <3>3, <4>1
      <4>2. ASSUME NEW e \in new, KeyOf(e) = KeyOf(d) PROVE episodes'[KeyOf(d)].last >= d.sig.at
        <5>1. episodes'[KeyOf(d)].last >= episodes[KeyOf(d)].last
          BY <1>6, <4>2
        <5>2. episodes'[KeyOf(d)].last \in Nat /\ episodes[KeyOf(d)].last \in Nat
          BY <1>4, <1>6, <3>3, <4>2 DEF EpisodeRow
        <5> QED BY <3>1, <3>3, <5>1, <5>2
      <4> QED BY <4>1, <4>2
    <3> QED BY <1>1, <1>2, <3>1, <3>2, <3>4
  <2>2. CASE d \notin decisions
    <3>1. d \in new /\ d.sig = s /\ ~Decided(d.policy, d.sig)
      BY <1>2, <2>2
    <3>2. \A x \in decisions' : x.policy = d.policy /\ x.sig = d.sig => x = d
      BY <1>2, <1>3, <3>1 DEF Decided
    <3>3. d.work => KeyOf(d) \in work'
      BY <1>2, <3>1
    <3> QED BY <1>1, <1>6, <3>1, <3>2, <3>3
  <2> QED BY <2>1, <2>2
<1>10. ASSUME NEW k \in Keys
       PROVE  /\ Keeps(episodes'[k].signals, Backing(k)')
              /\ episodes'[k].count >= Cardinality(Backing(k)')
              /\ k \in work' <=> episodes'[k].work
  <2>1. CASE \A d \in new : KeyOf(d) # k
    <3>1. episodes'[k] = episodes[k]
      BY <1>2, <2>1
    <3>2. Backing(k)' = Backing(k)
      <4>1. {x \in decisions' : KeyOf(x) = k} = {x \in decisions : KeyOf(x) = k}
        BY <1>2, <2>1
      <4> QED BY <4>1, Zenon DEF Backing, KeyOf
    <3>3. k \in work' <=> k \in work
      BY <1>2, <2>1
    <3> HIDE DEF KeyOf
    <3> QED BY <1>4, <3>1, <3>2, <3>3
  <2>2. ASSUME NEW d \in new, KeyOf(d) = k
        PROVE  /\ Keeps(episodes'[k].signals, Backing(k)')
               /\ episodes'[k].count >= Cardinality(Backing(k)')
               /\ k \in work' <=> episodes'[k].work
    <3>1. /\ Keeps(episodes'[k].signals, Backing(k) \cup {d.sig})
          /\ episodes'[k].count >= Cardinality(Backing(k) \cup {d.sig})
          /\ episodes'[k].work <=> episodes[k].work \/ d.work
      BY <1>6, <2>2
    <3>2. \A e \in new : KeyOf(e) = k => e = d
      BY <1>2, <2>2
    <3>3. Backing(k)' = Backing(k) \cup {d.sig}
      <4>1. /\ \A t : t \in Backing(k)' <=> \E x \in decisions' : KeyOf(x) = k /\ x.sig = t
            /\ \A t : t \in Backing(k) <=> \E x \in decisions : KeyOf(x) = k /\ x.sig = t
        BY DEF Backing
      <4>2. ASSUME NEW x \in decisions', KeyOf(x) = k PROVE x.sig \in Backing(k) \cup {d.sig}
        BY <1>2, <3>2, <4>1, <4>2
      <4>3. d.sig \in Backing(k)'
        <5>1. CASE d \in decisions'
          BY <2>2, <4>1, <5>1
        <5>2. ASSUME NEW x \in decisions, x.policy = d.policy, x.sig = d.sig
              PROVE  d.sig \in Backing(k)'
          <6>1. KeyOf(x) = k /\ x \in decisions'
            BY <1>2, <2>2, <5>2
          <6> QED BY <4>1, <5>2, <6>1
        <5> QED BY <1>2, <5>1, <5>2
      <4>4. Backing(k) \subseteq Backing(k)'
        BY <1>2, <4>1
      <4> QED BY <4>1, <4>2, <4>3, <4>4
    <3>4. k \in work' <=> k \in work \/ d.work
      BY <1>2, <2>2, <3>2
    <3> QED BY <1>4, <3>1, <3>3, <3>4
  <2>3. (\A d \in new : KeyOf(d) # k) \/ \E d \in new : KeyOf(d) = k
    BY Zenon
  <2> QED BY <2>1, <2>2, <2>3, Zenon
<1>11. EpisodesAreBacked'
  BY <1>9, <1>10 DEF EpisodesAreBacked, Keeps, KeyOf
<1> QED BY <1>7, <1>8, <1>11 DEF PolicyInv

LEMMA PolicyStep == PolicyInv /\ [PolicyNext]_lifecyclePolicyVars => PolicyInv'
<1> SUFFICES ASSUME PolicyInv, [PolicyNext]_lifecyclePolicyVars PROVE PolicyInv'
  OBVIOUS
<1>1. team \subseteq Persisters
  BY DEF PolicyInv, PolicyTypeOK
<1>2. ASSUME NEW port \in Ports, ChangeApproval(port) PROVE PolicyInv'
  <2>1. /\ UNCHANGED <<team, mode, ledger, decisions, episodes, work, tx, deliveries>>
        /\ approved' \in {approved \cup {port}, approved \ {port}}
    BY <1>2 DEF ChangeApproval, storeVars
  <2>2. approved' \subseteq Ports
    BY <2>1 DEF PolicyInv, PolicyTypeOK
  <2>3. changes' \in 0..MaxChanges
    BY <1>2, PolicyAssumption DEF ChangeApproval, PolicyInv, PolicyTypeOK
  <2>4. PolicyTypeOK'
    BY <2>1, <2>2, <2>3 DEF PolicyInv, PolicyTypeOK
  <2>5. EpisodesAreBacked'
    BY <2>1 DEF PolicyInv, EpisodesAreBacked, Backing, Stored
  <2> QED BY <2>1, <2>4, <2>5 DEF PolicyInv, DraftsAreOwn
<1>3. ASSUME NEW p \in Policies, NEW m \in Modes, ChangeMode(p, m) PROVE PolicyInv'
  <2>1. /\ UNCHANGED <<team, approved, ledger, decisions, episodes, work, tx, deliveries>>
        /\ mode' = [mode EXCEPT ![p] = m]
    BY <1>3 DEF ChangeMode, storeVars
  <2>2. mode' \in [Policies -> Modes]
    BY <2>1 DEF PolicyInv, PolicyTypeOK
  <2>3. changes' \in 0..MaxChanges
    BY <1>3, PolicyAssumption DEF ChangeMode, PolicyInv, PolicyTypeOK
  <2>4. PolicyTypeOK'
    BY <2>1, <2>2, <2>3 DEF PolicyInv, PolicyTypeOK
  <2>5. EpisodesAreBacked'
    BY <2>1 DEF PolicyInv, EpisodesAreBacked, Backing, Stored
  <2> QED BY <2>1, <2>4, <2>5 DEF PolicyInv, DraftsAreOwn
<1>4. CASE UNCHANGED lifecyclePolicyVars
  <2>1. UNCHANGED <<team, mode, approved, ledger, decisions, episodes, work, tx, deliveries, changes>>
    BY <1>4 DEF lifecyclePolicyVars, policyVars, storeVars
  <2>2. PolicyTypeOK'
    BY <2>1 DEF PolicyInv, PolicyTypeOK
  <2>3. EpisodesAreBacked'
    BY <2>1 DEF PolicyInv, EpisodesAreBacked, Backing, Stored
  <2> QED BY <2>1, <2>2, <2>3 DEF PolicyInv, DraftsAreOwn
<1> QED BY <1>1, <1>2, <1>3, <1>4, LoadStep, EvaluateStep, CommitStep, RollbackStep DEF PolicyNext

LEMMA PolicyAlways == PolicySpec => []PolicyInv
BY PolicyInitInv, PolicyStep, PTL DEF PolicySpec

(* Every field of the policy tables and transactions keeps its type.       *)
THEOREM PolicyTypes == PolicySpec => []PolicyTypeOK
<1>1. PolicyInv => PolicyTypeOK
  BY DEF PolicyInv
<1> QED BY <1>1, PolicyAlways, PTL

(* Decisions, episodes and work items explain each other, for any signals, *)
(* persisters, redeliveries, rollbacks and changes of policy, and an       *)
(* episode holds the decided signals with the highest ids.                 *)
THEOREM EpisodeSafety == PolicySpec => []EpisodesAreBacked
<1>1. PolicyInv => EpisodesAreBacked
  BY DEF PolicyInv
<1> QED BY <1>1, PolicyAlways, PTL

-----------------------------------------------------------------------------
(* While one persister runs and no operator has changed anything, its      *)
(* transaction counts the ports of what is stored, and nothing is stored   *)
(* between the count and the commit.                                       *)
SoleInForce == Cardinality(team) = 1 /\ changes = 0

PortScanIn(ds) == \E d \in ds : d.policy = "port-scan"

ScanReady ==
  /\ \A w \in Persisters : tx[w].at # "idle" => w \in team
  /\ changes = 0 => mode["port-scan"] # "disabled"
  /\ \A w \in Persisters :
       changes = 0 /\ tx[w].at = "loaded" => tx[w].modes["port-scan"] # "disabled"
  /\ \A w \in Persisters :
       SoleInForce /\ tx[w].at = "evaluated" /\ Matches("port-scan", tx[w].sig) =>
         PortScanIn(tx[w].new)

ScanInv == ScanReady /\ ScanIsRaised

LEMMA SoleTeam ==
  ASSUME PolicyInv, SoleInForce, NEW v \in team, NEW w \in team
  PROVE  v = w
<1>1. IsFiniteSet(team)
  BY PolicyAssumption, FS_Subset DEF PolicyInv, PolicyTypeOK
<1>2. PICK x : team = {x}
  BY <1>1, FS_Singleton DEF SoleInForce
<1> QED BY <1>2

LEMMA ScanInit == PolicyInit => ScanInv
<1> SUFFICES ASSUME PolicyInit PROVE ScanInv
  OBVIOUS
<1>1. \A w \in Persisters : tx[w].at = "idle"
  BY DEF PolicyInit, Idle
<1>2. mode["port-scan"] # "disabled"
  BY DEF PolicyInit, Policies
<1>3. Len(ledger) = 0
  BY EmptySeq DEF PolicyInit
<1> QED BY <1>1, <1>2, <1>3 DEF ScanInv, ScanReady, ScanIsRaised

(* A step that leaves the stored signals and the decisions alone.          *)
LEMMA ScanUnmoved ==
  ASSUME ScanInv, UNCHANGED <<team, ledger, decisions>>, changes = 0 \/ changes' # 0
  PROVE  ScanIsRaised'
BY DEF ScanInv, ScanIsRaised, Decided

(* A step of one transaction before its commit.                            *)
LEMMA ScanTx ==
  ASSUME PolicyInv, ScanInv, NEW w \in team, NEW new, tx' = [tx EXCEPT ![w] = new],
         UNCHANGED <<team, mode, ledger, decisions, changes>>,
         changes = 0 /\ new.at = "loaded" => new.modes["port-scan"] # "disabled",
         SoleInForce /\ new.at = "evaluated" /\ Matches("port-scan", new.sig) => PortScanIn(new.new)
  PROVE  ScanInv'
<1>1. w \in Persisters /\ DOMAIN tx = Persisters
  BY DEF PolicyInv, PolicyTypeOK
<1>2. tx'[w] = new /\ \A v \in Persisters : v # w => tx'[v] = tx[v]
  BY <1>1
<1>3. \A p, s : Matches(p, s)' <=> Matches(p, s)
  BY DEF Matches, DeniedPorts, Stored, InWindow
<1>4. SoleInForce' <=> SoleInForce
  BY DEF SoleInForce
<1>5. ScanReady'
  <2>1. \A v \in Persisters : tx'[v].at # "idle" => v \in team'
    BY <1>2 DEF ScanInv, ScanReady
  <2>2. changes' = 0 => mode'["port-scan"] # "disabled"
    BY DEF ScanInv, ScanReady
  <2>3. \A v \in Persisters :
          changes' = 0 /\ tx'[v].at = "loaded" => tx'[v].modes["port-scan"] # "disabled"
    BY <1>2 DEF ScanInv, ScanReady
  <2>4. ASSUME NEW v \in Persisters, SoleInForce', tx'[v].at = "evaluated",
               Matches("port-scan", tx[v].sig)'
        PROVE  PortScanIn(tx'[v].new)
    <3>1. Matches("port-scan", tx'[v].sig)
      BY <2>4 DEF Matches, DeniedPorts, Stored, InWindow
    <3> QED BY <1>2, <1>4, <2>4, <3>1 DEF ScanInv, ScanReady
  <2> QED BY <2>1, <2>2, <2>3, <2>4 DEF ScanReady, PortScanIn
<1>6. ScanIsRaised'
  BY ScanUnmoved
<1> QED BY <1>5, <1>6 DEF ScanInv

LEMMA ScanEvaluate ==
  ASSUME PolicyInv, ScanInv, NEW w \in team, Evaluate(w)
  PROVE  ScanInv'
<1> DEFINE s == tx[w].sig
           new == [at |-> "evaluated", sig |-> s, new |-> Draft(w, tx[w].modes, s)]
<1>1. /\ tx' = [tx EXCEPT ![w] = new] /\ w \in Persisters /\ tx[w].at = "loaded"
      /\ UNCHANGED <<team, mode, ledger, decisions, changes>>
  BY DEF Evaluate, PolicyInv, PolicyTypeOK, policyVars, storeVars, Draft
<1>2. s \in Signals
  BY <1>1 DEF PolicyInv, PolicyTypeOK, Idle
<1>3. new.at = "evaluated" /\ new.sig = s /\ new.new = Draft(w, tx[w].modes, s)
  OBVIOUS
<1>4. changes = 0 => tx[w].modes["port-scan"] # "disabled"
  BY <1>1 DEF ScanInv, ScanReady
<1>5. changes = 0 /\ Matches("port-scan", s) => PortScanIn(Draft(w, tx[w].modes, s))
  BY <1>2, <1>4, DraftFacts DEF PortScanIn
<1> HIDE DEF new, s
<1> QED BY <1>1, <1>3, <1>5, ScanTx DEF SoleInForce

(* The deny that completes a scan is committed with its decision.          *)
LEMMA ScanCommit ==
  ASSUME PolicyInv, ScanInv, NEW w \in team, Commit(w)
  PROVE  ScanInv'
<1> DEFINE s == tx[w].sig
           Before(led, i) == {x \in {led[j] : j \in 1..i} \cap Denies :
                                x.at \in (led[i].at - Window)..led[i].at}
<1>1. /\ w \in Persisters /\ tx[w].at = "evaluated" /\ tx' = [tx EXCEPT ![w] = Idle]
      /\ DOMAIN tx = Persisters /\ UNCHANGED <<team, mode, changes>>
  BY DEF Commit, PolicyInv, PolicyTypeOK, policyVars
<1>2. /\ ledger' \in Seq(Signals) /\ Stored' = Stored \cup {s}
      /\ ledger' = ledger \/ (Len(ledger') = Len(ledger) + 1 /\ ledger'[Len(ledger) + 1] = s)
      /\ \A i \in 1..Len(ledger) : ledger'[i] = ledger[i]
  BY <1>1, StoredAfterCommit
<1>3. /\ decisions \subseteq decisions'
      /\ \A d \in tx[w].new : d.sig = s
      /\ \A d \in tx[w].new : d \in decisions' \/ \E x \in decisions : x.policy = d.policy /\ x.sig = d.sig
  BY <1>1, CommitFacts
<1>4. tx'[w] = Idle /\ Idle.at = "idle" /\ \A v \in Persisters : v # w => tx'[v] = tx[v]
  BY <1>1 DEF Idle
<1>5. ScanReady'
  <2>1. ASSUME SoleInForce', NEW v \in Persisters PROVE tx'[v].at # "evaluated"
    <3>1. SoleInForce
      BY <1>1, <2>1 DEF SoleInForce
    <3>2. tx[v].at # "idle" => v = w
      BY <3>1, SoleTeam DEF ScanInv, ScanReady
    <3> QED BY <1>4, <3>2
  <2> QED BY <1>1, <1>4, <2>1 DEF ScanInv, ScanReady
<1>7. ASSUME SoleInForce, NEW i \in 1..Len(ledger'), ledger'[i] \in Denies,
             Cardinality({x.port : x \in Before(ledger', i)}) >= Threshold
      PROVE  \E d \in decisions' : d.policy = "port-scan" /\ d.sig = ledger'[i]
  <2>0. Len(ledger) \in Nat
    BY LenProperties DEF PolicyInv, PolicyTypeOK
  <2>1. CASE i \in 1..Len(ledger)
    <3>1. ledger'[i] = ledger[i] /\ \A j \in 1..i : ledger'[j] = ledger[j]
      BY <1>2, <2>0, <2>1
    <3>2. Before(ledger', i) = Before(ledger, i)
      <4>1. {ledger'[j] : j \in 1..i} = {ledger[j] : j \in 1..i}
        BY <3>1
      <4> QED BY <3>1, <4>1
    <3>3. Decided("port-scan", ledger[i])
      BY <1>7, <2>1, <3>1, <3>2 DEF ScanInv, ScanIsRaised, SoleInForce
    <3> QED BY <1>3, <3>1, <3>3 DEF Decided
  <2>2. CASE i \notin 1..Len(ledger)
    <3>1. i = Len(ledger) + 1 /\ ledger'[i] = s /\ Len(ledger') = i
      BY <1>2, <2>0, <2>2
    <3>2. {ledger'[j] : j \in 1..i} = Stored \cup {s}
      BY <1>2, <3>1 DEF Stored
    <3>3. {x.port : x \in Before(ledger', i)} = DeniedPorts(s)
      <4>1. Before(ledger', i) = {x \in (Stored \cup {s}) \cap Denies : x.at \in InWindow(s)}
        BY <3>1, <3>2 DEF InWindow
      <4> QED BY <4>1 DEF DeniedPorts
    <3>4. Matches("port-scan", s)
      BY <1>7, <3>1, <3>3 DEF Matches
    <3>5. PortScanIn(tx[w].new)
      BY <1>1, <1>7, <3>4 DEF ScanInv, ScanReady
    <3> QED BY <1>3, <3>1, <3>5 DEF PortScanIn, Decided
  <2> QED BY <2>1, <2>2
<1>8. ScanIsRaised'
  BY <1>1, <1>7 DEF ScanIsRaised, SoleInForce, Decided
<1> QED BY <1>5, <1>8 DEF ScanInv

LEMMA ScanStep == PolicyInv /\ ScanInv /\ [PolicyNext]_lifecyclePolicyVars => ScanInv'
<1> SUFFICES ASSUME PolicyInv, ScanInv, [PolicyNext]_lifecyclePolicyVars PROVE ScanInv'
  OBVIOUS
<1>1. ASSUME NEW w \in team, NEW s \in Signals, LoadPolicies(w, s) PROVE ScanInv'
  <2> DEFINE new == [at |-> "loaded", sig |-> s, modes |-> mode]
  <2>1. tx' = [tx EXCEPT ![w] = new] /\ UNCHANGED <<team, mode, ledger, decisions, changes>>
    BY <1>1 DEF LoadPolicies, policyVars, storeVars
  <2>2. new.at = "loaded" /\ new.modes = mode
    OBVIOUS
  <2>3. changes = 0 => mode["port-scan"] # "disabled"
    BY DEF ScanInv, ScanReady
  <2> HIDE DEF new
  <2> QED BY <2>1, <2>2, <2>3, ScanTx
<1>2. ASSUME NEW w \in team, Rollback(w) PROVE ScanInv'
  <2>1. tx' = [tx EXCEPT ![w] = Idle] /\ UNCHANGED <<team, mode, ledger, decisions, changes>>
    BY <1>2 DEF Rollback, policyVars, storeVars
  <2>2. Idle.at = "idle"
    BY DEF Idle
  <2> QED BY <2>1, <2>2, ScanTx
<1>3. CASE (\E port \in Ports : ChangeApproval(port)) \/ (\E p \in Policies, m \in Modes : ChangeMode(p, m))
  <2>1. changes' = changes + 1 /\ changes \in Nat /\ UNCHANGED <<team, ledger, decisions, tx>>
    BY <1>3, PolicyAssumption DEF ChangeApproval, ChangeMode, storeVars, PolicyInv, PolicyTypeOK
  <2>2. changes' # 0
    BY <2>1
  <2> QED BY <2>1, <2>2 DEF ScanInv, ScanReady, ScanIsRaised, SoleInForce
<1>4. CASE UNCHANGED lifecyclePolicyVars
  <2>1. UNCHANGED <<team, mode, approved, ledger, decisions, episodes, work, tx, deliveries, changes>>
    BY <1>4 DEF lifecyclePolicyVars, policyVars, storeVars
  <2> QED BY <2>1 DEF ScanInv, ScanReady, ScanIsRaised, SoleInForce, Matches, DeniedPorts,
      Stored, InWindow, Decided
<1> QED BY <1>1, <1>2, <1>3, <1>4, ScanEvaluate, ScanCommit DEF PolicyNext

(* With one persister and the policy in force throughout, no scan is       *)
(* missed, for any signals, order, redeliveries and rollbacks.             *)
THEOREM ScanSafety == PolicySpec => []ScanIsRaised
<1>1. ScanInv => ScanIsRaised
  BY DEF ScanInv
<1> QED BY <1>1, ScanInit, ScanStep, PolicyAlways, PTL DEF PolicySpec
=============================================================================
