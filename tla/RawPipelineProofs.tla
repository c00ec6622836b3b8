-------------------------- MODULE RawPipelineProofs --------------------------
(***************************************************************************)
(* TLAPS proofs about RawPipeline, for any number of requests, events,     *)
(* group members, messages and faults.                                     *)
(***************************************************************************)
EXTENDS RawPipeline, TLAPS

(* What ties the variables' ranges to the length of the raw partition.     *)
OffsetsBounded ==
  /\ committed <= Len(raw)
  /\ dlq \subseteq 1..Len(raw)
  /\ failed \subseteq 1..Len(raw)

RequestsBounded == \A c \in Clients : pc[c] # "idle" => at[c] \in 1..Len(raw)

MembersBounded ==
  \A n \in Normalizers :
    /\ stage[n] = "poll" => cur[n] = 0
    /\ stage[n] # "poll" => cur[n] \in 1..Len(raw)
    /\ lo[n] >= 1 /\ hi[n] <= Len(raw)
    /\ fetch[n] \in 1..(Len(raw) + 1)

Shape == OffsetsBounded /\ RequestsBounded /\ MembersBounded

LEMMA InitShape == Init => TypeOK /\ Shape
<1> SUFFICES ASSUME Init PROVE TypeOK /\ Shape
  OBVIOUS
<1>1. TypeOK
  BY BoundsAssumption DEF Init, TypeOK, TopicsOK, GatewayOK, NormLedgerOK, GroupOK, NoRow, Stages
<1>2. Shape
  BY BoundsAssumption DEF Init, Shape, OffsetsBounded, RequestsBounded, MembersBounded
<1> QED BY <1>1, <1>2

LEMMA BusyMember ==
  ASSUME TypeOK, Shape, NEW n \in Normalizers, stage[n] # "poll"
  PROVE  cur[n] \in 1..Len(raw) /\ cur[n] \in 1..MaxRaw /\ raw[cur[n]] \in Events
<1>1. cur[n] \in 1..Len(raw)
  BY DEF Shape, MembersBounded
<1>2. Len(raw) \in Nat /\ Len(raw) <= MaxRaw /\ raw \in Seq(Events)
  BY DEF TypeOK, TopicsOK
<1> QED BY <1>1, <1>2, BoundsAssumption

LEMMA PendingRequest ==
  ASSUME TypeOK, Shape, NEW c \in Clients, pc[c] # "idle"
  PROVE  at[c] \in 1..Len(raw) /\ at[c] \in 1..MaxRaw /\ raw[at[c]] \in Events
<1>1. at[c] \in 1..Len(raw)
  BY DEF Shape, RequestsBounded
<1>2. Len(raw) \in Nat /\ Len(raw) <= MaxRaw /\ raw \in Seq(Events)
  BY DEF TypeOK, TopicsOK
<1> QED BY <1>1, <1>2, BoundsAssumption

LEMMA GatewayType ==
  ASSUME TypeOK, Shape, NEW c \in Clients, Gateway(c)
  PROVE  TypeOK' /\ Shape'
<1> USE BoundsAssumption
<1>1. ASSUME NEW e \in Events, PublishRaw(c, e) PROVE TypeOK' /\ Shape'
  <2>1. TopicsOK'
    BY <1>1
      DEF TypeOK, TopicsOK, effectVars, PublishRaw
  <2>2. GatewayOK'
    BY <1>1
      DEF TypeOK, TopicsOK, GatewayOK, gatewayVars, PublishRaw
  <2>3. NormLedgerOK'
    BY <1>1
      DEF TypeOK, TopicsOK, NormLedgerOK, GroupOK, effectVars, PublishRaw
  <2>4. GroupOK'
    BY <1>1
      DEF TypeOK, TopicsOK, GroupOK, Stages, memberVars, PublishRaw
  <2>5. Shape'
    <3>1. OffsetsBounded'
      BY <1>1
        DEF TypeOK, TopicsOK, GroupOK, Shape, OffsetsBounded, effectVars, PublishRaw
    <3>2. RequestsBounded'
      BY <1>1
        DEF TypeOK, TopicsOK, GatewayOK, Shape, RequestsBounded, gatewayVars, PublishRaw
    <3>3. MembersBounded'
      BY <1>1
        DEF TypeOK, TopicsOK, GroupOK, Shape, MembersBounded, Stages, memberVars, PublishRaw
    <3> QED BY <3>1, <3>2, <3>3 DEF Shape
  <2> QED BY <2>1, <2>2, <2>3, <2>4, <2>5 DEF TypeOK
<1>2. ASSUME NEW e \in Events, PublishRawFails(c, e) PROVE TypeOK' /\ Shape'
  <2>1. TopicsOK'
    BY <1>2
      DEF TypeOK, TopicsOK, effectVars, PublishRawFails, Fault
  <2>2. GatewayOK'
    BY <1>2
      DEF TypeOK, TopicsOK, GatewayOK, gatewayVars, PublishRawFails, Fault
  <2>3. NormLedgerOK'
    BY <1>2
      DEF TypeOK, TopicsOK, NormLedgerOK, GroupOK, effectVars, PublishRawFails, Fault
  <2>4. GroupOK'
    BY <1>2
      DEF TypeOK, TopicsOK, GroupOK, Stages, memberVars, PublishRawFails, Fault
  <2>5. Shape'
    <3>1. OffsetsBounded'
      BY <1>2
        DEF TypeOK, TopicsOK, GroupOK, Shape, OffsetsBounded, effectVars, PublishRawFails, Fault
    <3>2. RequestsBounded'
      BY <1>2
        DEF TypeOK, TopicsOK, GatewayOK, Shape, RequestsBounded, gatewayVars, PublishRawFails, Fault
    <3>3. MembersBounded'
      BY <1>2
        DEF TypeOK, TopicsOK, GroupOK, Shape, MembersBounded, Stages, memberVars, PublishRawFails, Fault
    <3> QED BY <3>1, <3>2, <3>3 DEF Shape
  <2> QED BY <2>1, <2>2, <2>3, <2>4, <2>5 DEF TypeOK
<1>3. CASE PersistAtomic(c)
  <2>0. at[c] \in 1..Len(raw) /\ at[c] \in 1..MaxRaw /\ raw[at[c]] \in Events
    BY <1>3, PendingRequest DEF PersistAtomic
  <2>1. TopicsOK'
    BY <1>3, FunctionsAssumption, <2>0
      DEF TypeOK, TopicsOK, effectVars, PersistAtomic, UpsertRawEventLedger, UpsertIdempotencyRecord, Answer202
  <2>2. GatewayOK'
    BY <1>3, FunctionsAssumption, <2>0
      DEF TypeOK, TopicsOK, GatewayOK, gatewayVars, PersistAtomic, UpsertRawEventLedger, UpsertIdempotencyRecord, Answer202
  <2>3. NormLedgerOK'
    BY <1>3, FunctionsAssumption, <2>0
      DEF TypeOK, TopicsOK, NormLedgerOK, GroupOK, effectVars, PersistAtomic, UpsertRawEventLedger, UpsertIdempotencyRecord, Answer202
  <2>4. GroupOK'
    BY <1>3, FunctionsAssumption, <2>0
      DEF TypeOK, TopicsOK, GroupOK, Stages, memberVars, PersistAtomic, UpsertRawEventLedger, UpsertIdempotencyRecord, Answer202
  <2>5. Shape'
    <3>1. OffsetsBounded'
      BY <1>3, <2>0
        DEF TypeOK, TopicsOK, GroupOK, Shape, OffsetsBounded, effectVars, PersistAtomic, UpsertRawEventLedger, UpsertIdempotencyRecord, Answer202
    <3>2. RequestsBounded'
      BY <1>3, <2>0
        DEF TypeOK, TopicsOK, GatewayOK, Shape, RequestsBounded, gatewayVars, PersistAtomic, UpsertRawEventLedger, UpsertIdempotencyRecord, Answer202
    <3>3. MembersBounded'
      BY <1>3, <2>0
        DEF TypeOK, TopicsOK, GroupOK, Shape, MembersBounded, Stages, memberVars, PersistAtomic, UpsertRawEventLedger, UpsertIdempotencyRecord, Answer202
    <3> QED BY <3>1, <3>2, <3>3 DEF Shape
  <2> QED BY <2>1, <2>2, <2>3, <2>4, <2>5 DEF TypeOK
<1>4. CASE PersistTemporalLedger(c)
  <2>1. TopicsOK'
    BY <1>4, FunctionsAssumption
      DEF TypeOK, TopicsOK, effectVars, PersistTemporalLedger, UpsertRawEventLedger
  <2>2. GatewayOK'
    BY <1>4, FunctionsAssumption
      DEF TypeOK, TopicsOK, GatewayOK, gatewayVars, PersistTemporalLedger, UpsertRawEventLedger
  <2>3. NormLedgerOK'
    BY <1>4, FunctionsAssumption
      DEF TypeOK, TopicsOK, NormLedgerOK, GroupOK, effectVars, PersistTemporalLedger, UpsertRawEventLedger
  <2>4. GroupOK'
    BY <1>4, FunctionsAssumption
      DEF TypeOK, TopicsOK, GroupOK, Stages, memberVars, PersistTemporalLedger, UpsertRawEventLedger
  <2>5. Shape'
    <3>1. OffsetsBounded'
      BY <1>4
        DEF TypeOK, TopicsOK, GroupOK, Shape, OffsetsBounded, effectVars, PersistTemporalLedger, UpsertRawEventLedger
    <3>2. RequestsBounded'
      BY <1>4
        DEF TypeOK, TopicsOK, GatewayOK, Shape, RequestsBounded, gatewayVars, PersistTemporalLedger, UpsertRawEventLedger
    <3>3. MembersBounded'
      BY <1>4
        DEF TypeOK, TopicsOK, GroupOK, Shape, MembersBounded, Stages, memberVars, PersistTemporalLedger, UpsertRawEventLedger
    <3> QED BY <3>1, <3>2, <3>3 DEF Shape
  <2> QED BY <2>1, <2>2, <2>3, <2>4, <2>5 DEF TypeOK
<1>5. CASE PersistIdempotency(c)
  <2>0. at[c] \in 1..Len(raw) /\ at[c] \in 1..MaxRaw /\ raw[at[c]] \in Events
    BY <1>5, PendingRequest DEF PersistIdempotency
  <2>1. TopicsOK'
    BY <1>5, FunctionsAssumption, <2>0
      DEF TypeOK, TopicsOK, effectVars, PersistIdempotency, UpsertIdempotencyRecord, Answer202
  <2>2. GatewayOK'
    BY <1>5, FunctionsAssumption, <2>0
      DEF TypeOK, TopicsOK, GatewayOK, gatewayVars, PersistIdempotency, UpsertIdempotencyRecord, Answer202
  <2>3. NormLedgerOK'
    BY <1>5, FunctionsAssumption, <2>0
      DEF TypeOK, TopicsOK, NormLedgerOK, GroupOK, effectVars, PersistIdempotency, UpsertIdempotencyRecord, Answer202
  <2>4. GroupOK'
    BY <1>5, FunctionsAssumption, <2>0
      DEF TypeOK, TopicsOK, GroupOK, Stages, memberVars, PersistIdempotency, UpsertIdempotencyRecord, Answer202
  <2>5. Shape'
    <3>1. OffsetsBounded'
      BY <1>5, <2>0
        DEF TypeOK, TopicsOK, GroupOK, Shape, OffsetsBounded, effectVars, PersistIdempotency, UpsertIdempotencyRecord, Answer202
    <3>2. RequestsBounded'
      BY <1>5, <2>0
        DEF TypeOK, TopicsOK, GatewayOK, Shape, RequestsBounded, gatewayVars, PersistIdempotency, UpsertIdempotencyRecord, Answer202
    <3>3. MembersBounded'
      BY <1>5, <2>0
        DEF TypeOK, TopicsOK, GroupOK, Shape, MembersBounded, Stages, memberVars, PersistIdempotency, UpsertIdempotencyRecord, Answer202
    <3> QED BY <3>1, <3>2, <3>3 DEF Shape
  <2> QED BY <2>1, <2>2, <2>3, <2>4, <2>5 DEF TypeOK
<1>6. CASE AbandonRequest(c)
  <2>1. TopicsOK'
    BY <1>6
      DEF TypeOK, TopicsOK, effectVars, AbandonRequest, Fault
  <2>2. GatewayOK'
    BY <1>6
      DEF TypeOK, TopicsOK, GatewayOK, gatewayVars, AbandonRequest, Fault
  <2>3. NormLedgerOK'
    BY <1>6
      DEF TypeOK, TopicsOK, NormLedgerOK, GroupOK, effectVars, AbandonRequest, Fault
  <2>4. GroupOK'
    BY <1>6
      DEF TypeOK, TopicsOK, GroupOK, Stages, memberVars, AbandonRequest, Fault
  <2>5. Shape'
    <3>1. OffsetsBounded'
      BY <1>6
        DEF TypeOK, TopicsOK, GroupOK, Shape, OffsetsBounded, effectVars, AbandonRequest, Fault
    <3>2. RequestsBounded'
      BY <1>6
        DEF TypeOK, TopicsOK, GatewayOK, Shape, RequestsBounded, gatewayVars, AbandonRequest, Fault
    <3>3. MembersBounded'
      BY <1>6
        DEF TypeOK, TopicsOK, GroupOK, Shape, MembersBounded, Stages, memberVars, AbandonRequest, Fault
    <3> QED BY <3>1, <3>2, <3>3 DEF Shape
  <2> QED BY <2>1, <2>2, <2>3, <2>4, <2>5 DEF TypeOK
<1> QED BY <1>1, <1>2, <1>3, <1>4, <1>5, <1>6 DEF Gateway

LEMMA ConsumeFacts ==
  ASSUME TypeOK, Shape, NEW n \in Normalizers, Consume(n)
  PROVE  \E o \in 1..Len(raw) :
           /\ Deliver(n, o)
           /\ hi' \in [Normalizers -> 0..Len(raw)]
           /\ fetch' \in [Normalizers -> Nat]
           /\ \A m \in Normalizers : fetch'[m] \in 1..(Len(raw) + 1)
<1> USE DEF TypeOK, TopicsOK, GroupOK, Shape, MembersBounded
<1>0. hi \in [Normalizers -> 0..Len(raw)]
  BY BoundsAssumption
<1>1. CASE FromBuffer(n)
  <2>1. lo[n] \in 1..Len(raw)
    BY <1>0, <1>1 DEF FromBuffer
  <2> QED BY <1>0, <1>1, <2>1 DEF FromBuffer
<1>2. CASE FromPoll(n)
  <2>1. PICK last \in fetch[n]..Len(raw) :
          /\ hi' = [hi EXCEPT ![n] = last]
          /\ fetch' = [fetch EXCEPT ![n] = last + 1]
    BY <1>2 DEF FromPoll
  <2>2. fetch[n] \in 1..Len(raw) /\ last \in 1..Len(raw)
    BY <2>1
  <2>3. hi' \in [Normalizers -> 0..Len(raw)]
    BY <1>0, <2>1, <2>2
  <2>4. fetch' \in [Normalizers -> Nat]
    BY <2>1, <2>2
  <2>5. last + 1 \in 1..(Len(raw) + 1) /\ Len(raw) \in Nat
    BY <2>2
  <2>6. fetch \in [Normalizers -> 1..(Len(raw) + 1)]
    OBVIOUS
  <2>7. fetch' \in [Normalizers -> 1..(Len(raw) + 1)]
    BY ONLY <2>1, <2>5, <2>6
  <2> QED BY <1>2, <2>2, <2>3, <2>4, <2>7 DEF FromPoll
<1> QED BY <1>1, <1>2 DEF Consume

LEMMA ConsumeType ==
  ASSUME TypeOK, Shape, NEW n \in Normalizers, Consume(n)
  PROVE  GroupOK' /\ Shape'
<1>1. PICK o \in 1..Len(raw) :
        /\ Deliver(n, o)
        /\ hi' \in [Normalizers -> 0..Len(raw)]
        /\ fetch' \in [Normalizers -> Nat]
        /\ \A m \in Normalizers : fetch'[m] \in 1..(Len(raw) + 1)
  BY ConsumeFacts
<1>2. Len(raw) \in Nat /\ Len(raw) <= MaxRaw /\ MaxRaw \in Nat
  BY BoundsAssumption DEF TypeOK, TopicsOK
<1>3. /\ cur' = [cur EXCEPT ![n] = o]
      /\ lo' = [lo EXCEPT ![n] = o + 1]
  BY <1>1 DEF Deliver
<1>4. /\ stage' \in [Normalizers -> Stages] /\ stage'[n] # "poll"
      /\ \A m \in Normalizers : m # n => stage'[m] = stage[m]
  BY <1>1 DEF Deliver, TypeOK, GroupOK, Stages
<1>5. hi' \in [Normalizers -> 0..MaxRaw]
  BY <1>1, <1>2
<1>6. cur' \in [Normalizers -> 0..MaxRaw] /\ lo' \in [Normalizers -> Nat]
  BY <1>1, <1>2, <1>3 DEF TypeOK, GroupOK
<1>7. UNCHANGED <<raw, owner, committed, up, out, faults, dlq, failed, pc, at>>
  BY DEF Consume, gatewayVars, effectVars
<1>8. GroupOK'
  BY <1>1, <1>4, <1>5, <1>6, <1>7 DEF TypeOK, GroupOK
<1>9. ASSUME NEW m \in Normalizers
      PROVE  /\ stage'[m] = "poll" => cur'[m] = 0
             /\ stage'[m] # "poll" => cur'[m] \in 1..Len(raw)
             /\ lo'[m] >= 1
  BY <1>1, <1>2, <1>3, <1>4, SMTT(30) DEF TypeOK, GroupOK, Shape, MembersBounded
<1>10. Shape'
  BY <1>1, <1>2, <1>7, <1>9 DEF Shape, OffsetsBounded, RequestsBounded, MembersBounded
<1> QED BY <1>8, <1>10

LEMMA NormalizerType ==
  ASSUME TypeOK, Shape, NEW n \in Normalizers, Normalizer(n)
  PROVE  TypeOK' /\ Shape'
<1> USE BoundsAssumption
<1>1. CASE Assign(n)
  <2>1. TopicsOK'
    BY <1>1
      DEF TypeOK, TopicsOK, effectVars, Assign, Fault
  <2>2. GatewayOK'
    BY <1>1
      DEF TypeOK, TopicsOK, GatewayOK, gatewayVars, Assign, Fault
  <2>3. NormLedgerOK'
    BY <1>1
      DEF TypeOK, TopicsOK, NormLedgerOK, GroupOK, effectVars, Assign, Fault
  <2>4. GroupOK'
    <3>1. faults' \in 0..MaxFaults
      BY <1>1
        DEF TypeOK, TopicsOK, GroupOK, Stages, memberVars, Assign, Fault
    <3> QED BY <1>1, <3>1
      DEF TypeOK, TopicsOK, GroupOK, Stages, memberVars, Assign
  <2>5. Shape'
    <3>1. OffsetsBounded'
      BY <1>1
        DEF TypeOK, TopicsOK, GroupOK, Shape, OffsetsBounded, effectVars, Assign, Fault
    <3>2. RequestsBounded'
      BY <1>1
        DEF TypeOK, TopicsOK, GatewayOK, Shape, RequestsBounded, gatewayVars, Assign, Fault
    <3>3. MembersBounded'
      <4>1. committed + 1 \in 1..(Len(raw) + 1)
        BY DEF TypeOK, TopicsOK, GroupOK, Shape, OffsetsBounded
      <4>2. UNCHANGED <<raw, stage, cur, lo, hi>> /\ fetch' = [fetch EXCEPT ![n] = committed + 1]
        BY <1>1 DEF Assign
      <4> QED BY <4>1, <4>2 DEF TypeOK, GroupOK, Shape, MembersBounded
    <3> QED BY <3>1, <3>2, <3>3 DEF Shape
  <2> QED BY <2>1, <2>2, <2>3, <2>4, <2>5 DEF TypeOK
<1>2. CASE Consume(n)
  <2>1. TopicsOK' /\ GatewayOK' /\ NormLedgerOK'
    BY <1>2 DEF Consume, TypeOK, TopicsOK, GatewayOK, NormLedgerOK, gatewayVars, effectVars
  <2> QED BY <1>2, <2>1, ConsumeType DEF TypeOK
<1>3. CASE RejectInvalid(n)
  <2>1. TopicsOK'
    BY <1>3
      DEF TypeOK, TopicsOK, effectVars, RejectInvalid, At, Goto
  <2>2. GatewayOK'
    BY <1>3
      DEF TypeOK, TopicsOK, GatewayOK, gatewayVars, RejectInvalid, At, Goto
  <2>3. NormLedgerOK'
    BY <1>3
      DEF TypeOK, TopicsOK, NormLedgerOK, GroupOK, effectVars, RejectInvalid, At, Goto
  <2>4. GroupOK'
    BY <1>3
      DEF TypeOK, TopicsOK, GroupOK, Stages, memberVars, RejectInvalid, At, Goto
  <2>5. Shape'
    <3>1. OffsetsBounded'
      BY <1>3
        DEF TypeOK, TopicsOK, GroupOK, Shape, OffsetsBounded, effectVars, RejectInvalid, At, Goto
    <3>2. RequestsBounded'
      BY <1>3
        DEF TypeOK, TopicsOK, GatewayOK, Shape, RequestsBounded, gatewayVars, RejectInvalid, At, Goto
    <3>3. MembersBounded'
      BY <1>3
        DEF TypeOK, TopicsOK, GroupOK, Shape, MembersBounded, Stages, memberVars, RejectInvalid, At, Goto
    <3> QED BY <3>1, <3>2, <3>3 DEF Shape
  <2> QED BY <2>1, <2>2, <2>3, <2>4, <2>5 DEF TypeOK
<1>4. CASE PublishInvalidEvent(n)
  <2>0. cur[n] \in 1..Len(raw) /\ cur[n] \in 1..MaxRaw /\ raw[cur[n]] \in Events
    BY <1>4, BusyMember DEF PublishInvalidEvent, At
  <2>1. TopicsOK'
    <3>1. failed' \subseteq 1..MaxRaw /\ dlq' \subseteq 1..MaxRaw
      BY <1>4, <2>0
        DEF TypeOK, TopicsOK, effectVars, PublishInvalidEvent, At, Goto
    <3>2. norm' \in Seq(1..MaxRaw)
      BY <1>4, <2>0
        DEF TypeOK, TopicsOK, effectVars, PublishInvalidEvent, At, Goto
    <3> QED BY <1>4, <3>1, <3>2
      DEF TypeOK, TopicsOK, effectVars, PublishInvalidEvent, At, Goto
  <2>2. GatewayOK'
    BY <1>4, <2>0
      DEF TypeOK, TopicsOK, GatewayOK, gatewayVars, PublishInvalidEvent, At, Goto
  <2>3. NormLedgerOK'
    BY <1>4, <2>0
      DEF TypeOK, TopicsOK, NormLedgerOK, GroupOK, effectVars, PublishInvalidEvent, At, Goto
  <2>4. GroupOK'
    BY <1>4, <2>0
      DEF TypeOK, TopicsOK, GroupOK, Stages, memberVars, PublishInvalidEvent, At, Goto
  <2>5. Shape'
    <3>1. OffsetsBounded'
      BY <1>4, <2>0
        DEF TypeOK, TopicsOK, GroupOK, Shape, OffsetsBounded, effectVars, PublishInvalidEvent, At, Goto
    <3>2. RequestsBounded'
      BY <1>4, <2>0
        DEF TypeOK, TopicsOK, GatewayOK, Shape, RequestsBounded, gatewayVars, PublishInvalidEvent, At, Goto
    <3>3. MembersBounded'
      BY <1>4, <2>0
        DEF TypeOK, TopicsOK, GroupOK, Shape, MembersBounded, Stages, memberVars, PublishInvalidEvent, At, Goto
    <3> QED BY <3>1, <3>2, <3>3 DEF Shape
  <2> QED BY <2>1, <2>2, <2>3, <2>4, <2>5 DEF TypeOK
<1>5. CASE PublishNormalized(n)
  <2>0. cur[n] \in 1..Len(raw) /\ cur[n] \in 1..MaxRaw /\ raw[cur[n]] \in Events
    BY <1>5, BusyMember DEF PublishNormalized, At
  <2>1. TopicsOK'
    BY <1>5, <2>0
      DEF TypeOK, TopicsOK, effectVars, PublishNormalized, At, Goto
  <2>2. GatewayOK'
    BY <1>5, <2>0
      DEF TypeOK, TopicsOK, GatewayOK, gatewayVars, PublishNormalized, At, Goto
  <2>3. NormLedgerOK'
    BY <1>5, <2>0
      DEF TypeOK, TopicsOK, NormLedgerOK, GroupOK, effectVars, PublishNormalized, At, Goto
  <2>4. GroupOK'
    BY <1>5, <2>0
      DEF TypeOK, TopicsOK, GroupOK, Stages, memberVars, PublishNormalized, At, Goto
  <2>5. Shape'
    <3>1. OffsetsBounded'
      BY <1>5, <2>0
        DEF TypeOK, TopicsOK, GroupOK, Shape, OffsetsBounded, effectVars, PublishNormalized, At, Goto
    <3>2. RequestsBounded'
      BY <1>5, <2>0
        DEF TypeOK, TopicsOK, GatewayOK, Shape, RequestsBounded, gatewayVars, PublishNormalized, At, Goto
    <3>3. MembersBounded'
      BY <1>5, <2>0
        DEF TypeOK, TopicsOK, GroupOK, Shape, MembersBounded, Stages, memberVars, PublishNormalized, At, Goto
    <3> QED BY <3>1, <3>2, <3>3 DEF Shape
  <2> QED BY <2>1, <2>2, <2>3, <2>4, <2>5 DEF TypeOK
<1>6. CASE UpsertNormalizedEventLedger(n)
  <2>0. cur[n] \in 1..Len(raw) /\ cur[n] \in 1..MaxRaw /\ raw[cur[n]] \in Events
    BY <1>6, BusyMember DEF UpsertNormalizedEventLedger, At
  <2>1. TopicsOK'
    BY <1>6, FunctionsAssumption, <2>0
      DEF TypeOK, TopicsOK, effectVars, UpsertNormalizedEventLedger, WithLedgerRow, At, Goto
  <2>2. GatewayOK'
    BY <1>6, FunctionsAssumption, <2>0
      DEF TypeOK, TopicsOK, GatewayOK, gatewayVars, UpsertNormalizedEventLedger, WithLedgerRow, At, Goto
  <2>3. NormLedgerOK'
    BY <1>6, FunctionsAssumption, <2>0
      DEF TypeOK, TopicsOK, NormLedgerOK, GroupOK, effectVars, UpsertNormalizedEventLedger, WithLedgerRow, At, Goto
  <2>4. GroupOK'
    BY <1>6, FunctionsAssumption, <2>0
      DEF TypeOK, TopicsOK, GroupOK, Stages, memberVars, UpsertNormalizedEventLedger, WithLedgerRow, At, Goto
  <2>5. Shape'
    <3>1. OffsetsBounded'
      BY <1>6, <2>0
        DEF TypeOK, TopicsOK, GroupOK, Shape, OffsetsBounded, effectVars, UpsertNormalizedEventLedger, WithLedgerRow, At, Goto
    <3>2. RequestsBounded'
      BY <1>6, <2>0
        DEF TypeOK, TopicsOK, GatewayOK, Shape, RequestsBounded, gatewayVars, UpsertNormalizedEventLedger, WithLedgerRow, At, Goto
    <3>3. MembersBounded'
      BY <1>6, <2>0
        DEF TypeOK, TopicsOK, GroupOK, Shape, MembersBounded, Stages, memberVars, UpsertNormalizedEventLedger, WithLedgerRow, At, Goto
    <3> QED BY <3>1, <3>2, <3>3 DEF Shape
  <2> QED BY <2>1, <2>2, <2>3, <2>4, <2>5 DEF TypeOK
<1>7. CASE LedgerConflict(n)
  <2>0. cur[n] \in 1..Len(raw) /\ cur[n] \in 1..MaxRaw /\ raw[cur[n]] \in Events
    BY <1>7, BusyMember DEF LedgerConflict, At
  <2>1. TopicsOK'
    <3>1. failed' \subseteq 1..MaxRaw /\ dlq' \subseteq 1..MaxRaw
      BY <1>7, <2>0
        DEF TypeOK, TopicsOK, effectVars, LedgerConflict, GiveUp, At, Goto
    <3>2. norm' \in Seq(1..MaxRaw)
      BY <1>7, <2>0
        DEF TypeOK, TopicsOK, effectVars, LedgerConflict, GiveUp, At, Goto
    <3> QED BY <1>7, <3>1, <3>2
      DEF TypeOK, TopicsOK, effectVars, LedgerConflict, GiveUp, At, Goto
  <2>2. GatewayOK'
    BY <1>7, <2>0
      DEF TypeOK, TopicsOK, GatewayOK, gatewayVars, LedgerConflict, GiveUp, At, Goto
  <2>3. NormLedgerOK'
    BY <1>7, <2>0
      DEF TypeOK, TopicsOK, NormLedgerOK, GroupOK, effectVars, LedgerConflict, GiveUp, At, Goto
  <2>4. GroupOK'
    BY <1>7, <2>0
      DEF TypeOK, TopicsOK, GroupOK, Stages, memberVars, LedgerConflict, GiveUp, At, Goto
  <2>5. Shape'
    <3>1. OffsetsBounded'
      BY <1>7, <2>0
        DEF TypeOK, TopicsOK, GroupOK, Shape, OffsetsBounded, effectVars, LedgerConflict, GiveUp, At, Goto
    <3>2. RequestsBounded'
      BY <1>7, <2>0
        DEF TypeOK, TopicsOK, GatewayOK, Shape, RequestsBounded, gatewayVars, LedgerConflict, GiveUp, At, Goto
    <3>3. MembersBounded'
      BY <1>7, <2>0
        DEF TypeOK, TopicsOK, GroupOK, Shape, MembersBounded, Stages, memberVars, LedgerConflict, GiveUp, At, Goto
    <3> QED BY <3>1, <3>2, <3>3 DEF Shape
  <2> QED BY <2>1, <2>2, <2>3, <2>4, <2>5 DEF TypeOK
<1>8. CASE Commit(n)
  <2>0. cur[n] \in 1..Len(raw) /\ cur[n] \in 1..MaxRaw /\ raw[cur[n]] \in Events
    BY <1>8, BusyMember DEF Commit, At
  <2>1. TopicsOK'
    BY <1>8, <2>0
      DEF TypeOK, TopicsOK, effectVars, Commit, At, Goto
  <2>2. GatewayOK'
    BY <1>8, <2>0
      DEF TypeOK, TopicsOK, GatewayOK, gatewayVars, Commit, At, Goto
  <2>3. NormLedgerOK'
    BY <1>8, <2>0
      DEF TypeOK, TopicsOK, NormLedgerOK, GroupOK, effectVars, Commit, At, Goto
  <2>4. GroupOK'
    BY <1>8, <2>0
      DEF TypeOK, TopicsOK, GroupOK, Stages, memberVars, Commit, At, Goto
  <2>5. Shape'
    <3>1. OffsetsBounded'
      BY <1>8, <2>0
        DEF TypeOK, TopicsOK, GroupOK, Shape, OffsetsBounded, effectVars, Commit, At, Goto
    <3>2. RequestsBounded'
      BY <1>8, <2>0
        DEF TypeOK, TopicsOK, GatewayOK, Shape, RequestsBounded, gatewayVars, Commit, At, Goto
    <3>3. MembersBounded'
      BY <1>8, <2>0
        DEF TypeOK, TopicsOK, GroupOK, Shape, MembersBounded, Stages, memberVars, Commit, At, Goto
    <3> QED BY <3>1, <3>2, <3>3 DEF Shape
  <2> QED BY <2>1, <2>2, <2>3, <2>4, <2>5 DEF TypeOK
<1>9. CASE ProcessFails(n)
  <2>0. cur[n] \in 1..Len(raw) /\ cur[n] \in 1..MaxRaw /\ raw[cur[n]] \in Events
    BY <1>9, BusyMember DEF ProcessFails, At
  <2>1. TopicsOK'
    <3>1. failed' \subseteq 1..MaxRaw /\ dlq' \subseteq 1..MaxRaw
      BY <1>9, <2>0
        DEF TypeOK, TopicsOK, effectVars, ProcessFails, GiveUp, Fault, At, Goto
    <3>2. norm' = norm \/ norm' = Append(norm, cur[n])
      BY <1>9
        DEF TypeOK, TopicsOK, effectVars, ProcessFails
    <3>3. norm \in Seq(1..MaxRaw) /\ Append(norm, cur[n]) \in Seq(1..MaxRaw)
      BY <2>0 DEF TypeOK, TopicsOK, effectVars
    <3>4. norm' \in Seq(1..MaxRaw)
      BY ONLY <3>2, <3>3
    <3> QED BY <1>9, <3>1, <3>4
      DEF TypeOK, TopicsOK, effectVars, ProcessFails, GiveUp
  <2>2. GatewayOK'
    BY <1>9, <2>0
      DEF TypeOK, TopicsOK, GatewayOK, gatewayVars, ProcessFails, GiveUp, Fault, At, Goto
  <2>3. NormLedgerOK'
    BY <1>9, <2>0
      DEF TypeOK, TopicsOK, NormLedgerOK, GroupOK, effectVars, ProcessFails, GiveUp, Fault, At, Goto
  <2>4. GroupOK'
    BY <1>9, <2>0
      DEF TypeOK, TopicsOK, GroupOK, Stages, memberVars, ProcessFails, GiveUp, Fault, At, Goto
  <2>5. Shape'
    <3>1. OffsetsBounded'
      BY <1>9, <2>0
        DEF TypeOK, TopicsOK, GroupOK, Shape, OffsetsBounded, effectVars, ProcessFails, GiveUp, Fault, At, Goto
    <3>2. RequestsBounded'
      BY <1>9, <2>0
        DEF TypeOK, TopicsOK, GatewayOK, Shape, RequestsBounded, gatewayVars, ProcessFails, GiveUp, Fault, At, Goto
    <3>3. MembersBounded'
      BY <1>9, <2>0
        DEF TypeOK, TopicsOK, GroupOK, Shape, MembersBounded, Stages, memberVars, ProcessFails, GiveUp, Fault, At, Goto
    <3> QED BY <3>1, <3>2, <3>3 DEF Shape
  <2> QED BY <2>1, <2>2, <2>3, <2>4, <2>5 DEF TypeOK
<1>10. CASE LedgerFails(n)
  <2>0. cur[n] \in 1..Len(raw) /\ cur[n] \in 1..MaxRaw /\ raw[cur[n]] \in Events
    BY <1>10, BusyMember DEF LedgerFails, At
  <2>1. TopicsOK'
    <3>1. failed' \subseteq 1..MaxRaw /\ dlq' \subseteq 1..MaxRaw
      BY <1>10, <2>0
        DEF TypeOK, TopicsOK, effectVars, LedgerFails, GiveUp, WithLedgerRow, Fault, At, Goto
    <3>2. norm' \in Seq(1..MaxRaw)
      BY <1>10, <2>0
        DEF TypeOK, TopicsOK, effectVars, LedgerFails, GiveUp, WithLedgerRow, Fault, At, Goto
    <3> QED BY <1>10, <3>1, <3>2
      DEF TypeOK, TopicsOK, effectVars, LedgerFails, GiveUp, WithLedgerRow, Fault, At, Goto
  <2>2. GatewayOK'
    BY <1>10, FunctionsAssumption, <2>0
      DEF TypeOK, TopicsOK, GatewayOK, gatewayVars, LedgerFails, GiveUp, WithLedgerRow, Fault, At, Goto
  <2>3. NormLedgerOK'
    <3>1. WithLedgerRow(n) \in [Ids -> [raw : 0..MaxRaw, norm : Nat]]
      BY <2>0, FunctionsAssumption
        DEF TypeOK, TopicsOK, NormLedgerOK, GroupOK, effectVars, WithLedgerRow
    <3> QED BY <1>10, <3>1
      DEF TypeOK, TopicsOK, NormLedgerOK, GroupOK, effectVars, LedgerFails
  <2>4. GroupOK'
    BY <1>10
      DEF TypeOK, TopicsOK, GroupOK, Stages, memberVars, LedgerFails, GiveUp, Fault, Goto
  <2>5. Shape'
    <3>1. OffsetsBounded'
      BY <1>10, <2>0
        DEF TypeOK, TopicsOK, GroupOK, Shape, OffsetsBounded, effectVars, LedgerFails, GiveUp, WithLedgerRow, Fault, At, Goto
    <3>2. RequestsBounded'
      BY <1>10, <2>0
        DEF TypeOK, TopicsOK, GatewayOK, Shape, RequestsBounded, gatewayVars, LedgerFails, GiveUp, WithLedgerRow, Fault, At, Goto
    <3>3. MembersBounded'
      BY <1>10, <2>0
        DEF TypeOK, TopicsOK, GroupOK, Shape, MembersBounded, Stages, memberVars, LedgerFails, GiveUp, WithLedgerRow, Fault, At, Goto
    <3> QED BY <3>1, <3>2, <3>3 DEF Shape
  <2> QED BY <2>1, <2>2, <2>3, <2>4, <2>5 DEF TypeOK
<1>11. CASE Exit(n)
  <2>1. TopicsOK'
    BY <1>11
      DEF TypeOK, TopicsOK, effectVars, Exit, Fault
  <2>2. GatewayOK'
    BY <1>11
      DEF TypeOK, TopicsOK, GatewayOK, gatewayVars, Exit, Fault
  <2>3. NormLedgerOK'
    BY <1>11
      DEF TypeOK, TopicsOK, NormLedgerOK, GroupOK, effectVars, Exit, Fault
  <2>4. GroupOK'
    BY <1>11
      DEF TypeOK, TopicsOK, GroupOK, Stages, memberVars, Exit, Fault
  <2>5. Shape'
    <3>1. OffsetsBounded'
      BY <1>11
        DEF TypeOK, TopicsOK, GroupOK, Shape, OffsetsBounded, effectVars, Exit, Fault
    <3>2. RequestsBounded'
      BY <1>11
        DEF TypeOK, TopicsOK, GatewayOK, Shape, RequestsBounded, gatewayVars, Exit, Fault
    <3>3. MembersBounded'
      BY <1>11
        DEF TypeOK, TopicsOK, GroupOK, Shape, MembersBounded, Stages, memberVars, Exit, Fault
    <3> QED BY <3>1, <3>2, <3>3 DEF Shape
  <2> QED BY <2>1, <2>2, <2>3, <2>4, <2>5 DEF TypeOK
<1>12. CASE Restart(n)
  <2>1. TopicsOK'
    BY <1>12
      DEF TypeOK, TopicsOK, effectVars, Restart
  <2>2. GatewayOK'
    BY <1>12
      DEF TypeOK, TopicsOK, GatewayOK, gatewayVars, Restart
  <2>3. NormLedgerOK'
    BY <1>12
      DEF TypeOK, TopicsOK, NormLedgerOK, GroupOK, effectVars, Restart
  <2>4. GroupOK'
    BY <1>12
      DEF TypeOK, TopicsOK, GroupOK, Stages, memberVars, Restart
  <2>5. Shape'
    <3>1. OffsetsBounded'
      BY <1>12
        DEF TypeOK, TopicsOK, GroupOK, Shape, OffsetsBounded, effectVars, Restart
    <3>2. RequestsBounded'
      BY <1>12
        DEF TypeOK, TopicsOK, GatewayOK, Shape, RequestsBounded, gatewayVars, Restart
    <3>3. MembersBounded'
      BY <1>12
        DEF TypeOK, TopicsOK, GroupOK, Shape, MembersBounded, Stages, memberVars, Restart
    <3> QED BY <3>1, <3>2, <3>3 DEF Shape
  <2> QED BY <2>1, <2>2, <2>3, <2>4, <2>5 DEF TypeOK
<1> QED
  BY <1>1, <1>2, <1>3, <1>4, <1>5, <1>6, <1>7, <1>8, <1>9, <1>10, <1>11, <1>12
  DEF Normalizer, Loop

LEMMA StutterType == TypeOK /\ Shape /\ UNCHANGED vars => TypeOK' /\ Shape'
<1> SUFFICES ASSUME TypeOK, Shape, UNCHANGED vars PROVE TypeOK' /\ Shape'
  OBVIOUS
<1> USE DEF vars, gatewayVars, effectVars, memberVars
<1>1. TopicsOK' /\ GatewayOK' /\ NormLedgerOK' /\ GroupOK'
  BY DEF TypeOK, TopicsOK, GatewayOK, NormLedgerOK, GroupOK
<1>2. OffsetsBounded' /\ RequestsBounded' /\ MembersBounded'
  BY DEF Shape, OffsetsBounded, RequestsBounded, MembersBounded
<1> QED BY <1>1, <1>2 DEF TypeOK, Shape

LEMMA NextType == TypeOK /\ Shape /\ [Next]_vars => TypeOK' /\ Shape'
  BY GatewayType, NormalizerType, StutterType DEF Next

(* Every variable keeps its type, and every offset a request or a group    *)
(* member holds is one the raw partition has, in every behaviour of the    *)
(* gateway and the normalizer group.                                       *)
THEOREM TypeCorrect == Spec => [](TypeOK /\ Shape)
<1>1. TypeOK /\ Shape /\ [Next]_vars => TypeOK' /\ Shape'
  BY NextType
<1> QED BY InitShape, <1>1, PTL DEF Spec

-----------------------------------------------------------------------------
(* The inductive invariant behind CommittedIsAccountedFor.  A member that  *)
(* polls again after a rebalance starts at the group offset, so what lies  *)
(* below its message, below its buffer, and below its fetch position and   *)
(* outside the buffer has been accounted for; what it is about to commit   *)
(* is settled.                                                             *)
Accounted(o) == Settled(o) \/ o \in failed

MemberAccounts(n) ==
  /\ \A o \in 1..Len(raw) : o < cur[n] => Accounted(o)
  /\ lo[n] <= hi[n] =>
       \A o \in 1..Len(raw) : o < lo[n] /\ o # cur[n] => Accounted(o)
  /\ owner = n =>
       \A o \in 1..Len(raw) :
         o < fetch[n] /\ o # cur[n] /\ ~(lo[n] <= o /\ o <= hi[n]) => Accounted(o)
  /\ stage[n] = "commit" => Settled(cur[n])

(* What a member holds between publishing a record and its ledger row.     *)
PublishedIsHeld ==
  \A n \in Normalizers :
    stage[n] = "ledger" => out[n] \in 1..Len(norm) /\ norm[out[n]] = cur[n]

Inv ==
  /\ TypeOK /\ Shape
  /\ PublishedIsHeld /\ Lineage
  /\ CommittedIsAccountedFor
  /\ \A n \in Normalizers : MemberAccounts(n)

(* Topics and ledgers only grow: records keep their offsets and a ledger   *)
(* row, once there, is overwritten but never removed.                      *)
Grows ==
  /\ Len(raw) <= Len(raw') /\ \A o \in 1..Len(raw) : raw'[o] = raw[o]
  /\ Len(norm) <= Len(norm') /\ \A i \in 1..Len(norm) : norm'[i] = norm[i]
  /\ dlq \subseteq dlq' /\ failed \subseteq failed'
  /\ \A i \in Ids : normLedger[i].raw # 0 => normLedger'[i].raw # 0

LEMMA LedgerRowStays ==
  ASSUME TypeOK, Shape, NEW n \in Normalizers, stage[n] # "poll"
  PROVE  /\ normLedger[BodyID[raw[cur[n]]]] \in [raw : 0..MaxRaw, norm : Nat]
         /\ WithLedgerRow(n)[BodyID[raw[cur[n]]]] = [raw |-> cur[n], norm |-> out[n]]
         /\ \A i \in Ids : i # BodyID[raw[cur[n]]] => WithLedgerRow(n)[i] = normLedger[i]
         /\ \A i \in Ids : normLedger[i].raw # 0 => WithLedgerRow(n)[i].raw # 0
<1>1. BodyID[raw[cur[n]]] \in Ids /\ cur[n] # 0
  BY BusyMember, FunctionsAssumption
<1> QED BY <1>1 DEF WithLedgerRow, TypeOK, NormLedgerOK

LEMMA NextGrows == TypeOK /\ Shape /\ [Next]_vars => Grows
<1> SUFFICES ASSUME TypeOK, Shape, [Next]_vars PROVE Grows
  OBVIOUS
<1>0. raw \in Seq(Events) /\ norm \in Seq(1..MaxRaw)
  BY DEF TypeOK, TopicsOK
<1>1. ASSUME NEW c \in Clients, Gateway(c) PROVE Grows
  <2>1. UNCHANGED effectVars
    BY <1>1 DEF Gateway, PublishRaw, PublishRawFails, PersistAtomic, PersistTemporalLedger,
                PersistIdempotency, AbandonRequest
  <2>2. raw' = raw \/ \E e \in Events : raw' = Append(raw, e)
    BY <1>1 DEF Gateway, PublishRaw, PublishRawFails, PersistAtomic, PersistTemporalLedger,
                PersistIdempotency, AbandonRequest
  <2> QED BY <1>0, <2>1, <2>2 DEF Grows, effectVars
<1>2. ASSUME NEW n \in Normalizers, Normalizer(n) PROVE Grows
  <2>1. CASE UNCHANGED <<raw, effectVars>>
    BY <1>0, <2>1 DEF Grows, effectVars
  <2>2. CASE PublishInvalidEvent(n)
    BY <1>0, <2>2 DEF PublishInvalidEvent, Grows
  <2>3. CASE PublishNormalized(n)
    BY <1>0, <2>3, BusyMember DEF PublishNormalized, At, Grows
  <2>4. CASE UpsertNormalizedEventLedger(n)
    <3>1. stage[n] # "poll"
      BY <2>4 DEF UpsertNormalizedEventLedger, At
    <3>2. \A i \in Ids : normLedger[i].raw # 0 => WithLedgerRow(n)[i].raw # 0
      BY <3>1, LedgerRowStays
    <3>3. \A i \in Ids : normLedger[i].raw # 0 => normLedger'[i].raw # 0
      BY <2>4, <3>2 DEF UpsertNormalizedEventLedger
    <3> QED BY <1>0, <2>4, <3>3 DEF UpsertNormalizedEventLedger, Grows
  <2>5. CASE LedgerConflict(n)
    BY <1>0, <2>5 DEF LedgerConflict, GiveUp, Grows
  <2>6. CASE ProcessFails(n)
    <3>1. norm' = norm \/ norm' = Append(norm, cur[n])
      BY <2>6 DEF ProcessFails
    <3>2. cur[n] \in 1..MaxRaw
      BY <2>6, BusyMember DEF ProcessFails, At
    <3>3. Len(norm) <= Len(norm') /\ \A i \in 1..Len(norm) : norm'[i] = norm[i]
      BY ONLY <1>0, <3>1, <3>2
    <3> QED BY <1>0, <2>6, <3>3 DEF ProcessFails, GiveUp, Grows
  <2>7. CASE LedgerFails(n)
    <3>1. stage[n] # "poll"
      BY <2>7 DEF LedgerFails, At
    <3>2. \A i \in Ids : normLedger[i].raw # 0 => WithLedgerRow(n)[i].raw # 0
      BY <3>1, LedgerRowStays
    <3>3. \A i \in Ids : normLedger[i].raw # 0 => normLedger'[i].raw # 0
      BY <2>7, <3>2 DEF LedgerFails
    <3> QED BY <1>0, <2>7, <3>3 DEF LedgerFails, GiveUp, Grows
  <2>8. Assign(n) \/ Consume(n) \/ RejectInvalid(n) \/ Commit(n) \/ Exit(n) \/ Restart(n)
        => UNCHANGED <<raw, effectVars>>
    BY DEF Assign, Consume, RejectInvalid, Commit, Exit, Restart
  <2> QED BY <1>2, <2>1, <2>2, <2>3, <2>4, <2>5, <2>6, <2>7, <2>8 DEF Normalizer, Loop
<1>3. CASE UNCHANGED vars
  BY <1>0, <1>3 DEF Grows, vars, effectVars
<1> QED BY <1>1, <1>2, <1>3 DEF Next

LEMMA SettledGrows ==
  ASSUME TypeOK, Grows, NEW o \in 1..Len(raw)
  PROVE  /\ Settled(o) => Settled(o)'
         /\ Accounted(o) => Accounted(o)'
<1>0. /\ raw \in Seq(Events) /\ norm \in Seq(1..MaxRaw)
      /\ raw[o] \in Events /\ BodyID[raw[o]] \in Ids
  BY FunctionsAssumption DEF TypeOK, TopicsOK
<1>1. raw'[o] = raw[o] /\ dlq \subseteq dlq' /\ failed \subseteq failed'
  BY DEF Grows
<1>2. ASSUME NEW i \in DOMAIN norm PROVE i \in DOMAIN norm' /\ norm'[i] = norm[i]
  BY <1>0 DEF Grows
<1>3. normLedger[BodyID[raw[o]]].raw # 0 => normLedger'[BodyID[raw[o]]].raw # 0
  BY <1>0 DEF Grows
<1> QED BY <1>1, <1>2, <1>3 DEF Settled, Accounted
-----------------------------------------------------------------------------
(* Lineage.                                                                *)

LEMMA LineageKeeps ==
  ASSUME TypeOK, TypeOK', Grows, Lineage, UNCHANGED normLedger
  PROVE  Lineage'
<1> SUFFICES ASSUME NEW i \in Ids, normLedger[i].raw # 0
             PROVE  /\ normLedger[i].raw \in 1..Len(raw')
                    /\ BodyID[raw'[normLedger[i].raw]] = i
                    /\ normLedger[i].norm \in 1..Len(norm')
                    /\ norm'[normLedger[i].norm] = normLedger[i].raw
  BY DEF Lineage
<1>1. /\ normLedger[i].raw \in 1..Len(raw) /\ BodyID[raw[normLedger[i].raw]] = i
      /\ normLedger[i].norm \in 1..Len(norm) /\ norm[normLedger[i].norm] = normLedger[i].raw
  BY DEF Lineage
<1>2. /\ Len(raw) \in Nat /\ Len(raw') \in Nat /\ Len(raw) <= Len(raw')
      /\ Len(norm) \in Nat /\ Len(norm') \in Nat /\ Len(norm) <= Len(norm')
  BY DEF Grows, TypeOK, TopicsOK
<1>3. raw'[normLedger[i].raw] = raw[normLedger[i].raw]
  BY <1>1 DEF Grows
<1>4. norm'[normLedger[i].norm] = norm[normLedger[i].norm]
  BY <1>1 DEF Grows
<1> QED BY <1>1, <1>2, <1>3, <1>4

LEMMA RowKeepsLineage ==
  ASSUME TypeOK, Shape, Grows, Lineage, PublishedIsHeld, UNCHANGED <<raw, norm>>,
         NEW n \in Normalizers, stage[n] = "ledger",
         normLedger' = WithLedgerRow(n)
  PROVE  Lineage'
<1> DEFINE id == BodyID[raw[cur[n]]]
<1>1. cur[n] \in 1..Len(raw) /\ out[n] \in 1..Len(norm) /\ norm[out[n]] = cur[n]
  BY BusyMember DEF PublishedIsHeld
<1>2. WithLedgerRow(n)[id] = [raw |-> cur[n], norm |-> out[n]]
      /\ \A i \in Ids : i # id => WithLedgerRow(n)[i] = normLedger[i]
  BY LedgerRowStays
<1>3. ASSUME NEW i \in Ids, normLedger'[i].raw # 0
      PROVE  /\ normLedger'[i].raw \in 1..Len(raw)
             /\ BodyID[raw[normLedger'[i].raw]] = i
             /\ normLedger'[i].norm \in 1..Len(norm)
             /\ norm[normLedger'[i].norm] = normLedger'[i].raw
  <2>1. CASE i = id
    <3>1. normLedger'[i] = [raw |-> cur[n], norm |-> out[n]]
      BY <1>2, <2>1
    <3>2. normLedger'[i].raw = cur[n] /\ normLedger'[i].norm = out[n]
      BY <3>1
    <3> QED BY ONLY <1>1, <2>1, <3>2
  <2>2. CASE i # id
    BY <1>2, <1>3, <2>2 DEF Lineage
  <2> QED BY <2>1, <2>2
<1> QED BY <1>3 DEF Lineage

LEMMA HeldKeeps ==
  ASSUME TypeOK, TypeOK', Grows, PublishedIsHeld, NEW m \in Normalizers,
         stage'[m] = "ledger" => stage[m] = "ledger" /\ out'[m] = out[m] /\ cur'[m] = cur[m],
         stage'[m] = "ledger"
  PROVE  out'[m] \in 1..Len(norm') /\ norm'[out'[m]] = cur'[m]
<1>1. out[m] \in 1..Len(norm) /\ norm[out[m]] = cur[m] /\ out'[m] = out[m] /\ cur'[m] = cur[m]
  BY DEF PublishedIsHeld
<1> QED BY <1>1 DEF Grows, TypeOK, TopicsOK

LEMMA LineageNext ==
  ASSUME TypeOK, Shape, PublishedIsHeld, Lineage, [Next]_vars, TypeOK', Grows
  PROVE  PublishedIsHeld' /\ Lineage'
<1>1. ASSUME NEW c \in Clients, Gateway(c) PROVE PublishedIsHeld' /\ Lineage'
  <2>1. UNCHANGED <<effectVars, memberVars>>
    BY <1>1 DEF Gateway, PublishRaw, PublishRawFails, PersistAtomic, PersistTemporalLedger,
                PersistIdempotency, AbandonRequest
  <2>2. UNCHANGED <<normLedger, stage, out, cur>>
    BY <2>1 DEF effectVars, memberVars
  <2> QED BY <2>2, LineageKeeps, HeldKeeps DEF PublishedIsHeld
<1>2. ASSUME NEW n \in Normalizers, Normalizer(n) PROVE PublishedIsHeld' /\ Lineage'
  <2>0. /\ norm \in Seq(1..MaxRaw) /\ stage \in [Normalizers -> Stages]
        /\ cur \in [Normalizers -> 0..MaxRaw] /\ out \in [Normalizers -> Nat]
    BY DEF TypeOK, TopicsOK, GroupOK
  <2>1. CASE Assign(n) \/ Restart(n)
    <3>1. UNCHANGED <<normLedger, stage, out, cur>>
      BY <2>1 DEF Assign, Restart, effectVars
    <3> QED BY <3>1, LineageKeeps, HeldKeeps DEF PublishedIsHeld
  <2>2. CASE Consume(n) \/ RejectInvalid(n) \/ PublishInvalidEvent(n) \/ Commit(n) \/ Exit(n)
             \/ LedgerConflict(n) \/ ProcessFails(n)
    <3>1. UNCHANGED <<normLedger, out>>
      BY <2>2 DEF Consume, RejectInvalid, PublishInvalidEvent, Commit, Exit, LedgerConflict,
                  ProcessFails, GiveUp, effectVars
    <3>2. stage'[n] # "ledger"
      BY <2>0, <2>2 DEF Consume, FromBuffer, FromPoll, Deliver, RejectInvalid, PublishInvalidEvent,
                  Commit, Exit, LedgerConflict, ProcessFails, GiveUp, Goto
    <3>3. ASSUME NEW m \in Normalizers, m # n PROVE stage'[m] = stage[m] /\ cur'[m] = cur[m]
      BY <2>0, <2>2, <3>3 DEF Consume, FromBuffer, FromPoll, Deliver, RejectInvalid, PublishInvalidEvent,
                  Commit, Exit, LedgerConflict, ProcessFails, GiveUp, Goto
    <3> QED BY <3>1, <3>2, <3>3, LineageKeeps, HeldKeeps DEF PublishedIsHeld
  <2>3. CASE PublishNormalized(n)
    <3>1. cur[n] \in 1..MaxRaw
      BY <2>3, BusyMember DEF PublishNormalized, At
    <3>2. /\ norm' = Append(norm, cur[n]) /\ cur' = cur /\ normLedger' = normLedger
          /\ out' = [out EXCEPT ![n] = Len(norm) + 1]
          /\ stage' = [stage EXCEPT ![n] = "ledger"]
      BY <2>3 DEF PublishNormalized, Goto
    <3>3. out'[n] \in 1..Len(norm') /\ norm'[out'[n]] = cur'[n]
      BY <2>0, <3>1, <3>2
    <3>4. ASSUME NEW m \in Normalizers, m # n
          PROVE  stage'[m] = stage[m] /\ cur'[m] = cur[m] /\ out'[m] = out[m]
      BY <2>0, <3>2, <3>4
    <3> QED BY <3>2, <3>3, <3>4, LineageKeeps, HeldKeeps DEF PublishedIsHeld
  <2>4. CASE UpsertNormalizedEventLedger(n) \/ LedgerFails(n)
    <3>1. /\ UNCHANGED <<raw, norm, out>> /\ stage[n] = "ledger"
          /\ normLedger' = normLedger \/ normLedger' = WithLedgerRow(n)
      BY <2>4 DEF UpsertNormalizedEventLedger, LedgerFails, GiveUp, At
    <3>2. stage'[n] # "ledger"
      BY <2>0, <2>4 DEF UpsertNormalizedEventLedger, LedgerFails, GiveUp, Goto
    <3>3. ASSUME NEW m \in Normalizers, m # n PROVE stage'[m] = stage[m] /\ cur'[m] = cur[m]
      BY <2>0, <2>4, <3>3 DEF UpsertNormalizedEventLedger, LedgerFails, GiveUp, Goto
    <3>4. Lineage'
      BY <3>1, LineageKeeps, RowKeepsLineage
    <3> QED BY <3>1, <3>2, <3>3, <3>4, HeldKeeps DEF PublishedIsHeld
  <2> QED BY <1>2, <2>1, <2>2, <2>3, <2>4 DEF Normalizer, Loop
<1>3. CASE UNCHANGED vars
  <2>1. UNCHANGED <<normLedger, stage, out, cur>>
    BY <1>3 DEF vars, effectVars, memberVars
  <2> QED BY <2>1, LineageKeeps, HeldKeeps DEF PublishedIsHeld
<1> QED BY <1>1, <1>2, <1>3 DEF Next
-----------------------------------------------------------------------------
(* The group offset.                                                       *)

Held(m) == UNCHANGED <<cur[m], lo[m], hi[m], fetch[m]>>

LEMMA MemberRange ==
  ASSUME TypeOK, Shape, NEW m \in Normalizers
  PROVE  /\ Len(raw) \in Nat /\ committed \in 0..Len(raw)
         /\ cur[m] \in 0..Len(raw) /\ lo[m] \in Nat
         /\ hi[m] \in 0..Len(raw) /\ fetch[m] \in 1..(Len(raw) + 1)
<1>1. Len(raw) \in Nat
  BY DEF TypeOK, TopicsOK
<1>2. committed \in 0..Len(raw)
  BY <1>1 DEF TypeOK, GroupOK, Shape, OffsetsBounded
<1>3. cur[m] \in 0..Len(raw)
  BY <1>1 DEF Shape, MembersBounded
<1>4. lo[m] \in Nat /\ hi[m] \in 0..Len(raw) /\ fetch[m] \in 1..(Len(raw) + 1)
  BY <1>1 DEF TypeOK, GroupOK, Shape, MembersBounded
<1> QED BY <1>1, <1>2, <1>3, <1>4

(* A member that keeps its message, buffer and fetch position.             *)
LEMMA KeepsAccounts ==
  ASSUME TypeOK, Shape, Grows, TypeOK', NEW m \in Normalizers, MemberAccounts(m),
         Held(m), owner' = m => owner = m,
         stage'[m] = "commit" => Settled(cur[m])'
  PROVE  MemberAccounts(m)'
<1>0. /\ Len(raw) \in Nat /\ Len(raw') \in Nat /\ cur[m] \in 0..Len(raw) /\ lo[m] \in Nat
      /\ hi[m] \in 0..Len(raw) /\ fetch[m] \in 1..(Len(raw) + 1)
  BY MemberRange DEF TypeOK, TopicsOK
<1>1. cur'[m] = cur[m] /\ lo'[m] = lo[m] /\ hi'[m] = hi[m] /\ fetch'[m] = fetch[m]
  BY DEF Held
<1>2. ASSUME NEW o \in 1..Len(raw'), o < cur[m] PROVE Accounted(o)'
  BY <1>0, <1>2, SettledGrows DEF MemberAccounts
<1>3. ASSUME NEW o \in 1..Len(raw'), lo[m] <= hi[m], o < lo[m], o # cur[m] PROVE Accounted(o)'
  BY <1>0, <1>3, SettledGrows DEF MemberAccounts
<1>4. ASSUME NEW o \in 1..Len(raw'), owner' = m, o < fetch[m], o # cur[m],
             ~(lo[m] <= o /\ o <= hi[m])
      PROVE  Accounted(o)'
  BY <1>0, <1>4, SettledGrows DEF MemberAccounts
<1> QED BY <1>1, <1>2, <1>3, <1>4 DEF MemberAccounts

(* A member that is done with its message, which is accounted for.         *)
LEMMA DoneAccounts ==
  ASSUME TypeOK, Shape, Grows, TypeOK', NEW n \in Normalizers, MemberAccounts(n),
         UNCHANGED <<raw, lo[n], hi[n], fetch[n], owner>>,
         cur'[n] = 0, stage'[n] = "poll",
         \A o \in 1..Len(raw) : o = cur[n] => Accounted(o)'
  PROVE  MemberAccounts(n)'
<1>1. /\ lo'[n] = lo[n] /\ hi'[n] = hi[n] /\ fetch'[n] = fetch[n] /\ Len(raw') = Len(raw)
      /\ Len(raw) \in Nat
  BY DEF TypeOK, TopicsOK
<1>2. ASSUME NEW o \in 1..Len(raw), lo[n] <= hi[n], o < lo[n] PROVE Accounted(o)'
  BY <1>2, SettledGrows DEF MemberAccounts
<1>3. ASSUME NEW o \in 1..Len(raw), owner = n, o < fetch[n], ~(lo[n] <= o /\ o <= hi[n])
      PROVE  Accounted(o)'
  BY <1>3, SettledGrows DEF MemberAccounts
<1> QED BY <1>1, <1>2, <1>3 DEF MemberAccounts

LEMMA ConsumeAccounts ==
  ASSUME TypeOK, Shape, Grows, NEW n \in Normalizers, MemberAccounts(n), Consume(n), TypeOK', Shape'
  PROVE  MemberAccounts(n)'
<1>0. /\ Len(raw) \in Nat /\ cur[n] = 0 /\ lo[n] \in Nat /\ lo[n] >= 1
      /\ hi[n] \in 0..Len(raw) /\ fetch[n] \in 1..(Len(raw) + 1)
  BY MemberRange DEF Consume, Shape, MembersBounded
<1>1. raw' = raw /\ owner' = owner
  BY DEF Consume
<1>2. ASSUME NEW o \in 1..Len(raw), Deliver(n, o)
      PROVE  /\ cur'[n] = o /\ lo'[n] = o + 1
             /\ stage'[n] = "commit" => Settled(o)'
  <2>1. cur'[n] = o /\ lo'[n] = o + 1
    BY <1>2 DEF Deliver, TypeOK, GroupOK
  <2>2. stage'[n] = "commit" => raw[o] \in Candidates
    BY <1>2 DEF Deliver, TypeOK, GroupOK
  <2> QED BY <1>1, <2>1, <2>2 DEF Settled
<1>3. CASE FromBuffer(n)
  <2>1. /\ cur'[n] = lo[n] /\ lo'[n] = lo[n] + 1 /\ hi'[n] = hi[n] /\ fetch'[n] = fetch[n]
        /\ stage'[n] = "commit" => Settled(cur[n])'
    BY <1>0, <1>2, <1>3 DEF FromBuffer
  <2>2. ASSUME NEW o \in 1..Len(raw), o < lo[n] PROVE Accounted(o)'
    BY <1>0, <1>3, <2>2, SettledGrows DEF MemberAccounts, FromBuffer
  <2>3. ASSUME NEW o \in 1..Len(raw), owner = n, o < fetch[n], ~(lo[n] <= o /\ o <= hi[n])
        PROVE  Accounted(o)'
    BY <1>0, <2>3, SettledGrows DEF MemberAccounts
  <2> QED BY <1>0, <1>1, <2>1, <2>2, <2>3 DEF MemberAccounts
<1>4. CASE FromPoll(n)
  <2>1. PICK last \in fetch[n]..Len(raw) :
          /\ hi' = [hi EXCEPT ![n] = last]
          /\ fetch' = [fetch EXCEPT ![n] = last + 1]
    BY <1>4 DEF FromPoll
  <2>2. hi'[n] = last /\ fetch'[n] = last + 1 /\ fetch[n] \in 1..Len(raw) /\ last \in Nat
    BY <1>0, <2>1 DEF TypeOK, GroupOK
  <2>3. /\ cur'[n] = fetch[n] /\ lo'[n] = fetch[n] + 1
        /\ stage'[n] = "commit" => Settled(cur[n])'
    BY <1>2, <1>4, <2>2 DEF FromPoll
  <2>4. ASSUME NEW o \in 1..Len(raw), o < fetch[n] PROVE Accounted(o)'
    BY <1>0, <1>4, <2>4, SettledGrows DEF MemberAccounts, FromPoll
  <2> QED BY <1>0, <1>1, <2>2, <2>3, <2>4 DEF MemberAccounts
<1> QED BY <1>3, <1>4 DEF Consume

LEMMA AssignAccounts ==
  ASSUME TypeOK, Shape, Grows, CommittedIsAccountedFor, NEW n \in Normalizers,
         MemberAccounts(n), Assign(n), TypeOK'
  PROVE  MemberAccounts(n)'
<1>0. Len(raw) \in Nat /\ committed \in 0..Len(raw) /\ cur[n] \in 0..Len(raw)
  BY MemberRange
<1>1. /\ raw' = raw /\ cur'[n] = cur[n] /\ lo'[n] = lo[n] /\ hi'[n] = hi[n]
      /\ fetch'[n] = committed + 1 /\ stage'[n] = stage[n]
  BY DEF Assign, TypeOK, GroupOK
<1>2. ASSUME NEW o \in 1..Len(raw), o < committed + 1 PROVE Accounted(o)'
  BY <1>0, <1>2, SettledGrows DEF CommittedIsAccountedFor, Accounted
<1>3. ASSUME NEW o \in 1..Len(raw), o < cur[n] \/ (lo[n] <= hi[n] /\ o < lo[n] /\ o # cur[n])
      PROVE  Accounted(o)'
  BY <1>3, SettledGrows DEF MemberAccounts
<1>4. stage'[n] = "commit" => Settled(cur[n])'
  <2>1. Settled(cur[n]) /\ UNCHANGED <<raw, cur, effectVars>> => Settled(cur[n])'
    BY DEF Settled, effectVars
  <2> QED BY <1>1, <2>1 DEF Assign, MemberAccounts
<1> QED BY <1>0, <1>1, <1>2, <1>3, <1>4 DEF MemberAccounts

(* Every step keeps the accounts of every member and of the group offset.  *)
LEMMA AccountsNext ==
  ASSUME Inv, [Next]_vars, TypeOK', Shape', Grows
  PROVE  CommittedIsAccountedFor' /\ \A m \in Normalizers : MemberAccounts(m)'
<1> USE DEF Inv
<1>0. /\ stage \in [Normalizers -> Stages] /\ cur \in [Normalizers -> 0..MaxRaw]
      /\ lo \in [Normalizers -> Nat] /\ hi \in [Normalizers -> 0..MaxRaw]
      /\ fetch \in [Normalizers -> Nat]
  BY DEF TypeOK, GroupOK
<1>1. committed' = committed => CommittedIsAccountedFor'
  <2> SUFFICES ASSUME NEW o \in 1..committed, committed' = committed PROVE Accounted(o)'
    BY DEF CommittedIsAccountedFor, Accounted
  <2>1. o \in 1..Len(raw)
    BY DEF TypeOK, TopicsOK, GroupOK, Shape, OffsetsBounded
  <2> QED BY <2>1, SettledGrows DEF CommittedIsAccountedFor, Accounted
<1>2. ASSUME NEW m \in Normalizers, Held(m), owner' = m => owner = m, stage'[m] = stage[m]
      PROVE  MemberAccounts(m)'
  <2>1. stage'[m] = "commit" => Settled(cur[m])'
    <3> SUFFICES ASSUME stage'[m] = "commit" PROVE Settled(cur[m])'
      OBVIOUS
    <3>1. PICK o \in 1..Len(raw) : o = cur[m]
      BY <1>2, BusyMember
    <3>2. Settled(o)'
      BY <1>2, <3>1, SettledGrows DEF MemberAccounts
    <3> QED BY <1>2, <3>1, <3>2 DEF Held
  <2> QED BY <1>2, <2>1, KeepsAccounts
<1>3. ASSUME UNCHANGED <<owner, committed, memberVars>>
      PROVE  CommittedIsAccountedFor' /\ \A m \in Normalizers : MemberAccounts(m)'
  BY <1>1, <1>2, <1>3 DEF memberVars, Held
<1>4. ASSUME NEW c \in Clients, Gateway(c) PROVE UNCHANGED <<owner, committed, memberVars>>
  BY <1>4 DEF Gateway, PublishRaw, PublishRawFails, PersistAtomic, PersistTemporalLedger,
              PersistIdempotency, AbandonRequest
<1>5. ASSUME NEW n \in Normalizers, Normalizer(n)
      PROVE  CommittedIsAccountedFor' /\ \A m \in Normalizers : MemberAccounts(m)'
  <2>1. CASE Assign(n)
    <3>1. /\ UNCHANGED <<committed, stage, cur, lo, hi>> /\ owner' = n
          /\ fetch' = [fetch EXCEPT ![n] = committed + 1]
      BY <2>1 DEF Assign
    <3>2. ASSUME NEW m \in Normalizers, m # n PROVE MemberAccounts(m)'
      BY <1>0, <1>2, <3>1, <3>2 DEF Held
    <3> QED BY <1>1, <2>1, <3>1, <3>2, AssignAccounts
  <2>2. CASE Consume(n)
    <3>1. ASSUME NEW m \in Normalizers, m # n PROVE Held(m) /\ stage'[m] = stage[m]
      BY <1>0, <2>2, <3>1 DEF Consume, FromBuffer, FromPoll, Deliver, Held
    <3>2. UNCHANGED <<committed, owner>>
      BY <2>2 DEF Consume
    <3> QED BY <1>1, <1>2, <2>2, <3>1, <3>2, ConsumeAccounts
  <2>3. ASSUME UNCHANGED <<owner, committed, cur, lo, hi, fetch>>, NEW s, Goto(n, s),
               s = "commit" => Settled(cur[n])'
        PROVE  CommittedIsAccountedFor' /\ \A m \in Normalizers : MemberAccounts(m)'
    <3>1. ASSUME NEW m \in Normalizers, m # n PROVE MemberAccounts(m)'
      BY <1>0, <1>2, <2>3, <3>1 DEF Held, Goto
    <3>2. MemberAccounts(n)'
      BY <1>0, <2>3, KeepsAccounts DEF Held, Goto
    <3> QED BY <1>1, <2>3, <3>1, <3>2
  <2>4. CASE RejectInvalid(n)
    BY <2>3, <2>4 DEF RejectInvalid
  <2>5. CASE PublishInvalidEvent(n)
    <3>1. Settled(cur[n])'
      BY <2>5 DEF PublishInvalidEvent, Settled
    <3> QED BY <2>3, <2>5, <3>1 DEF PublishInvalidEvent
  <2>6. CASE PublishNormalized(n)
    BY <2>3, <2>6 DEF PublishNormalized
  <2>7. CASE UpsertNormalizedEventLedger(n)
    <3>1. /\ cur[n] \in 1..Len(raw) /\ raw[cur[n]] \in Events
          /\ out[n] \in 1..Len(norm) /\ norm[out[n]] = cur[n]
          /\ WithLedgerRow(n)[BodyID[raw[cur[n]]]] = [raw |-> cur[n], norm |-> out[n]]
      BY <2>7, BusyMember, LedgerRowStays DEF UpsertNormalizedEventLedger, At, PublishedIsHeld
    <3>2. normLedger' = WithLedgerRow(n) /\ UNCHANGED <<raw, norm, cur>>
      BY <2>7 DEF UpsertNormalizedEventLedger
    <3>3. normLedger'[BodyID[raw[cur[n]]]].raw # 0
      BY <3>1, <3>2
    <3>4. Settled(cur[n])'
      BY <3>1, <3>2, <3>3 DEF Settled, TypeOK, TopicsOK
    <3> QED BY <2>3, <2>7, <3>4 DEF UpsertNormalizedEventLedger
  <2>8. ASSUME UNCHANGED <<raw, owner, lo, hi, fetch>>, cur' = [cur EXCEPT ![n] = 0],
               Goto(n, "poll"), \A o \in 1..Len(raw) : o = cur[n] => Accounted(o)'
        PROVE  \A m \in Normalizers : MemberAccounts(m)'
    <3>1. ASSUME NEW m \in Normalizers, m # n PROVE MemberAccounts(m)'
      BY <1>0, <1>2, <2>8, <3>1 DEF Held, Goto
    <3>2. MemberAccounts(n)'
      BY <1>0, <2>8, DoneAccounts DEF Goto
    <3> QED BY <3>1, <3>2
  <2>9. CASE LedgerConflict(n) \/ ProcessFails(n) \/ LedgerFails(n)
    <3>1. GiveUp(n)
      BY <2>9 DEF LedgerConflict, ProcessFails, LedgerFails
    <3>2. ASSUME NEW o \in 1..Len(raw), o = cur[n] PROVE Accounted(o)'
      BY <3>1, <3>2 DEF GiveUp, Accounted
    <3> QED BY <1>1, <2>8, <3>1, <3>2 DEF GiveUp
  <2>10. CASE Commit(n)
    <3>1. /\ stage[n] = "commit" /\ cur[n] \in 1..Len(raw)
          /\ committed' = cur[n] /\ UNCHANGED <<raw, owner, lo, hi, fetch>>
          /\ cur' = [cur EXCEPT ![n] = 0] /\ Goto(n, "poll")
      BY <2>10, BusyMember DEF Commit, At
    <3>2. ASSUME NEW o \in 1..Len(raw), o <= cur[n] PROVE Accounted(o)'
      <4>1. Accounted(o)
        BY <3>1, <3>2, MemberRange DEF MemberAccounts, Accounted
      <4> QED BY <4>1, SettledGrows
    <3>3. CommittedIsAccountedFor'
      BY <3>1, <3>2, MemberRange DEF CommittedIsAccountedFor, Accounted
    <3> QED BY <2>8, <3>1, <3>2, <3>3, MemberRange
  <2>11. CASE Exit(n)
    <3>1. /\ committed' = committed /\ owner' = (IF owner = n THEN NoOwner ELSE owner)
          /\ stage' = [stage EXCEPT ![n] = "poll"] /\ cur' = [cur EXCEPT ![n] = 0]
          /\ lo' = [lo EXCEPT ![n] = 1] /\ hi' = [hi EXCEPT ![n] = 0] /\ fetch' = fetch
      BY <2>11 DEF Exit
    <3>2. ASSUME NEW m \in Normalizers, m # n PROVE MemberAccounts(m)'
      <4>1. owner' = m => owner = m
        BY <3>1, SetsAssumption
      <4> QED BY <1>0, <1>2, <3>1, <3>2, <4>1 DEF Held
    <3>3. cur'[n] = 0 /\ lo'[n] = 1 /\ hi'[n] = 0 /\ owner' # n /\ stage'[n] = "poll"
      BY <1>0, <3>1, SetsAssumption
    <3>4. MemberAccounts(n)'
      BY <3>3 DEF MemberAccounts
    <3> QED BY <1>1, <3>1, <3>2, <3>4
  <2>12. CASE Restart(n)
    <3>1. UNCHANGED <<owner, committed, stage, cur, lo, hi, fetch>>
      BY <2>12 DEF Restart
    <3> QED BY <1>1, <1>2, <3>1 DEF Held
  <2> QED
    BY <1>5, <2>1, <2>2, <2>4, <2>5, <2>6, <2>7, <2>9, <2>10, <2>11, <2>12 DEF Normalizer, Loop
<1> QED BY <1>3, <1>4, <1>5 DEF Next, vars

LEMMA InitInv == Init => Inv
<1> SUFFICES ASSUME Init PROVE Inv
  OBVIOUS
<1>1. PublishedIsHeld /\ Lineage
  BY DEF Init, PublishedIsHeld, Lineage, NoRow
<1>2. CommittedIsAccountedFor
  BY DEF Init, CommittedIsAccountedFor
<1>3. \A n \in Normalizers : MemberAccounts(n)
  BY DEF Init, MemberAccounts
<1> QED BY <1>1, <1>2, <1>3, InitShape DEF Inv

LEMMA NextInv == Inv /\ [Next]_vars => Inv'
<1> SUFFICES ASSUME Inv, [Next]_vars PROVE Inv'
  OBVIOUS
<1>1. TypeOK' /\ Shape'
  BY NextType DEF Inv
<1>2. Grows
  BY NextGrows DEF Inv
<1>3. PublishedIsHeld' /\ Lineage'
  BY <1>1, <1>2, LineageNext DEF Inv
<1>4. CommittedIsAccountedFor' /\ \A m \in Normalizers : MemberAccounts(m)'
  BY <1>1, <1>2, AccountsNext
<1> QED BY <1>1, <1>3, <1>4 DEF Inv

LEMMA SpecInv == Spec => []Inv
  BY InitInv, NextInv, PTL DEF Spec

(* The normalizer group's offset never passes a raw message that has no    *)
(* durable outcome and was not given up by Process, for any number of      *)
(* group members, messages, crashes, rebalances and late commits.          *)
THEOREM OffsetSafety == Spec => []CommittedIsAccountedFor
<1>1. Inv => CommittedIsAccountedFor
  BY DEF Inv
<1> QED BY <1>1, SpecInv, PTL

(* Every normalized ledger row joins the raw and the normalized record of  *)
(* one event, however many group members upsert it concurrently.           *)
THEOREM LedgerLineage == Spec => []Lineage
<1>1. Inv => Lineage
  BY DEF Inv
<1> QED BY <1>1, SpecInv, PTL

-----------------------------------------------------------------------------
(* What the gateway leaves in its two audit tables.  A request that waits  *)
(* for its idempotency record has a ledger row of its event already.       *)
Row(e) == rawLedger[GatewayID[e]]

RowsAreOwn ==
  \A i \in Ids :
    rawLedger[i] # 0 => rawLedger[i] \in 1..Len(raw) /\ GatewayID[raw[rawLedger[i]]] = i

RequestsAreRecorded ==
  \A c \in Clients : pc[c] = "idempotency" => UseTemporal /\ Row(raw[at[c]]) # 0

AcceptedKept ==
  \A o \in accepted : o \in 1..Len(raw) /\ Row(raw[o]) # 0 /\ idem[IdemKey[raw[o]]] # 0

AuditInv ==
  /\ RowsAreOwn /\ RequestsAreRecorded /\ AcceptedKept
  /\ ~UseTemporal => AuditAgrees

(* What a step of the gateway does to the tables: at most the message of   *)
(* one request becomes the row of its event and the record of its key.     *)
LEMMA TablesGrow ==
  ASSUME TypeOK, Shape, AuditInv, NEW c \in Clients, pc[c] # "idle"
  PROVE  /\ UpsertRawEventLedger(c) =>
              /\ rawLedger'[GatewayID[raw[at[c]]]] = at[c]
              /\ \A i \in Ids \ {GatewayID[raw[at[c]]]} : rawLedger'[i] = rawLedger[i]
         /\ UpsertIdempotencyRecord(c) =>
              /\ idem'[IdemKey[raw[at[c]]]] = at[c]
              /\ \A k \in Keys \ {IdemKey[raw[at[c]]]} : idem'[k] = idem[k]
<1>1. raw[at[c]] \in Events
  BY PendingRequest
<1>2. GatewayID[raw[at[c]]] \in Ids /\ IdemKey[raw[at[c]]] \in Keys
  BY <1>1, FunctionsAssumption
<1> QED BY <1>2 DEF UpsertRawEventLedger, UpsertIdempotencyRecord, TypeOK, GatewayOK

LEMMA MessageFacts ==
  ASSUME TypeOK, NEW o \in 1..Len(raw)
  PROVE  raw[o] \in Events /\ GatewayID[raw[o]] \in Ids /\ IdemKey[raw[o]] \in Keys
<1>1. raw[o] \in Events
  BY DEF TypeOK, TopicsOK
<1> QED BY <1>1, FunctionsAssumption

(* A longer topic, or requests that are dropped, change neither table.     *)
LEMMA TablesKept ==
  ASSUME TypeOK, Shape, AuditInv,
         raw' = raw \/ \E e \in Events : raw' = Append(raw, e),
         UNCHANGED <<rawLedger, idem, accepted>>,
         \A c \in Clients : pc'[c] = "idempotency" => pc[c] = "idempotency" /\ at'[c] = at[c]
  PROVE  AuditInv'
<1>1. /\ raw \in Seq(Events) /\ Len(raw) \in Nat /\ Len(raw') \in Nat
      /\ Len(raw) <= Len(raw') /\ \A o \in 1..Len(raw) : raw'[o] = raw[o]
  BY DEF TypeOK, TopicsOK
<1>2. \A o \in 1..Len(raw) : o \in 1..Len(raw')
  BY <1>1
<1>3. RowsAreOwn'
  BY <1>1, <1>2 DEF AuditInv, RowsAreOwn
<1>4. RequestsAreRecorded'
  <2> SUFFICES ASSUME NEW c \in Clients, pc'[c] = "idempotency"
               PROVE  UseTemporal /\ rawLedger[GatewayID[raw'[at[c]]]] # 0 /\ at'[c] = at[c]
    BY DEF RequestsAreRecorded, Row
  <2>1. pc[c] = "idempotency" /\ at'[c] = at[c] /\ at[c] \in 1..Len(raw)
    BY PendingRequest
  <2> QED BY <1>1, <2>1 DEF AuditInv, RequestsAreRecorded, Row
<1>5. AcceptedKept'
  BY <1>1, <1>2 DEF AuditInv, AcceptedKept, Row
<1>6. ~UseTemporal => AuditAgrees'
  BY <1>1 DEF AuditInv, AuditAgrees, RowsAreOwn
<1> QED BY <1>3, <1>4, <1>5, <1>6 DEF AuditInv

LEMMA PersistAtomicAudit ==
  ASSUME TypeOK, Shape, AuditInv, NEW c \in Clients, PersistAtomic(c)
  PROVE  AuditInv'
<1> DEFINE e == raw[at[c]]
<1>1. /\ ~UseTemporal /\ pc[c] # "idle" /\ ~RawKeyTaken(e)
      /\ raw' = raw /\ at' = at /\ accepted' = accepted \cup {at[c]}
      /\ pc' = [pc EXCEPT ![c] = "idle"]
  BY DEF PersistAtomic, Answer202
<1>2. /\ rawLedger'[GatewayID[e]] = at[c]
      /\ \A i \in Ids \ {GatewayID[e]} : rawLedger'[i] = rawLedger[i]
      /\ idem'[IdemKey[e]] = at[c]
      /\ \A k \in Keys \ {IdemKey[e]} : idem'[k] = idem[k]
  BY <1>1, TablesGrow DEF PersistAtomic
<1>3. at[c] \in 1..Len(raw) /\ at[c] # 0 /\ GatewayID[e] \in Ids /\ IdemKey[e] \in Keys
  BY <1>1, PendingRequest, MessageFacts
<1> HIDE DEF e
<1>4. RowsAreOwn'
  BY <1>1, <1>2, <1>3 DEF AuditInv, RowsAreOwn, e
<1>5. RequestsAreRecorded'
  BY <1>1 DEF AuditInv, RequestsAreRecorded, TypeOK, GatewayOK
<1>6. AcceptedKept'
  <2> SUFFICES ASSUME NEW o \in accepted \cup {at[c]}
               PROVE  /\ o \in 1..Len(raw) /\ rawLedger'[GatewayID[raw[o]]] # 0
                      /\ idem'[IdemKey[raw[o]]] # 0
    BY <1>1 DEF AcceptedKept, Row
  <2>1. /\ o \in 1..Len(raw) /\ GatewayID[raw[o]] \in Ids /\ IdemKey[raw[o]] \in Keys
        /\ o # at[c] => rawLedger[GatewayID[raw[o]]] # 0 /\ idem[IdemKey[raw[o]]] # 0
    BY <1>3, MessageFacts DEF AuditInv, AcceptedKept, Row
  <2> QED BY <1>2, <1>3, <2>1 DEF e
<1>7. AuditAgrees'
  <2> SUFFICES ASSUME NEW i \in Ids, rawLedger'[i] # 0
               PROVE  idem'[IdemKey[raw[rawLedger'[i]]]] = rawLedger'[i]
    BY <1>1 DEF AuditAgrees
  <2>1. CASE i = GatewayID[e]
    BY <1>2, <2>1 DEF e
  <2>2. CASE i # GatewayID[e]
    <3>1. rawLedger'[i] = rawLedger[i] /\ rawLedger[i] # 0
      BY <1>2, <2>2
    <3>2. IdemKey[raw[rawLedger[i]]] # IdemKey[e]
      BY <1>1, <2>2, <3>1 DEF RawKeyTaken
    <3>3. IdemKey[raw[rawLedger[i]]] \in Keys
      BY <3>1, MessageFacts DEF AuditInv, RowsAreOwn
    <3>4. idem[IdemKey[raw[rawLedger[i]]]] = rawLedger[i]
      BY <1>1, <3>1 DEF AuditInv, AuditAgrees
    <3> QED BY <1>2, <3>1, <3>2, <3>3, <3>4
  <2> QED BY <2>1, <2>2
<1> QED BY <1>4, <1>5, <1>6, <1>7 DEF AuditInv

LEMMA PersistTemporalAudit ==
  ASSUME TypeOK, Shape, AuditInv, NEW c \in Clients, PersistTemporalLedger(c) \/ PersistIdempotency(c)
  PROVE  AuditInv'
<1> DEFINE e == raw[at[c]]
<1>1. pc[c] # "idle" /\ raw' = raw /\ at' = at
  BY DEF PersistTemporalLedger, PersistIdempotency
<1>2. at[c] \in 1..Len(raw) /\ at[c] # 0 /\ GatewayID[e] \in Ids /\ IdemKey[e] \in Keys
  BY <1>1, PendingRequest, MessageFacts
<1>3. \A d \in Clients : pc[d] # "idle" => GatewayID[raw[at[d]]] \in Ids
  BY PendingRequest, MessageFacts
<1>4. \A o \in accepted :
        o \in 1..Len(raw) /\ GatewayID[raw[o]] \in Ids /\ IdemKey[raw[o]] \in Keys
  BY MessageFacts DEF AuditInv, AcceptedKept
<1>5. CASE PersistTemporalLedger(c)
  <2>1. /\ UseTemporal /\ idem' = idem /\ accepted' = accepted
        /\ pc' = [pc EXCEPT ![c] = "idempotency"]
    BY <1>5 DEF PersistTemporalLedger
  <2>2. /\ rawLedger'[GatewayID[e]] = at[c]
        /\ \A i \in Ids \ {GatewayID[e]} : rawLedger'[i] = rawLedger[i]
    BY <1>1, <1>5, TablesGrow DEF PersistTemporalLedger
  <2> HIDE DEF e
  <2>3. RowsAreOwn'
    BY <1>1, <1>2, <2>2 DEF AuditInv, RowsAreOwn, e
  <2>4. \A i \in Ids : rawLedger[i] # 0 => rawLedger'[i] # 0
    BY <1>2, <2>2
  <2>5. RequestsAreRecorded'
    BY <1>1, <1>2, <1>3, <2>1, <2>2, <2>4 DEF AuditInv, RequestsAreRecorded, Row, TypeOK, GatewayOK, e
  <2>6. AcceptedKept'
    BY <1>1, <1>4, <2>1, <2>4 DEF AuditInv, AcceptedKept, Row
  <2> QED BY <2>1, <2>3, <2>5, <2>6 DEF AuditInv
<1>6. CASE PersistIdempotency(c)
  <2>1. /\ UseTemporal /\ Row(e) # 0
        /\ rawLedger' = rawLedger /\ accepted' = accepted \cup {at[c]}
        /\ pc' = [pc EXCEPT ![c] = "idle"]
    BY <1>6 DEF PersistIdempotency, Answer202, AuditInv, RequestsAreRecorded
  <2>2. /\ idem'[IdemKey[e]] = at[c]
        /\ \A k \in Keys \ {IdemKey[e]} : idem'[k] = idem[k]
    BY <1>1, <1>6, TablesGrow DEF PersistIdempotency
  <2> HIDE DEF e
  <2>3. RowsAreOwn' /\ RequestsAreRecorded'
    BY <1>1, <2>1 DEF AuditInv, RowsAreOwn, RequestsAreRecorded, Row, TypeOK, GatewayOK
  <2>4. \A k \in Keys : idem[k] # 0 => idem'[k] # 0
    BY <1>2, <2>2
  <2>5. AcceptedKept'
    BY <1>1, <1>2, <1>4, <2>1, <2>2, <2>4 DEF AuditInv, AcceptedKept, Row, e
  <2> QED BY <2>1, <2>3, <2>5 DEF AuditInv
<1> QED BY <1>5, <1>6

LEMMA AuditNext ==
  ASSUME TypeOK, Shape, AuditInv, [Next]_vars
  PROVE  AuditInv'
<1>1. ASSUME NEW c \in Clients, Gateway(c) PROVE AuditInv'
  <2>1. ASSUME NEW e \in Events, PublishRaw(c, e) PROVE AuditInv'
    BY <2>1, TablesKept DEF PublishRaw, TypeOK, GatewayOK
  <2>2. ASSUME NEW e \in Events, PublishRawFails(c, e) PROVE AuditInv'
    BY <2>2, TablesKept DEF PublishRawFails, gatewayVars
  <2>3. CASE AbandonRequest(c)
    BY <2>3, TablesKept DEF AbandonRequest, TypeOK, GatewayOK
  <2> QED BY <1>1, <2>1, <2>2, <2>3, PersistAtomicAudit, PersistTemporalAudit DEF Gateway
<1>2. CASE UNCHANGED <<raw, gatewayVars>>
  BY <1>2, TablesKept DEF gatewayVars
<1>3. ASSUME NEW n \in Normalizers, Normalizer(n) PROVE UNCHANGED <<raw, gatewayVars>>
  BY <1>3 DEF Normalizer, Loop, Assign, Consume, RejectInvalid, PublishInvalidEvent, PublishNormalized,
       UpsertNormalizedEventLedger, LedgerConflict, Commit, ProcessFails, LedgerFails, Exit, Restart, GiveUp
<1> QED BY <1>1, <1>2, <1>3 DEF Next, vars

LEMMA SpecAudit == Spec => []AuditInv
<1>1. Init => AuditInv
  BY DEF Init, AuditInv, RowsAreOwn, RequestsAreRecorded, AcceptedKept, AuditAgrees
<1>2. AuditInv /\ TypeOK /\ Shape /\ [Next]_vars => AuditInv'
  BY AuditNext
<1> QED BY <1>1, <1>2, TypeCorrect, PTL DEF Spec

(* A request answered 202 is in both audit tables, with or without a       *)
(* temporal store, whatever other requests do and wherever handlers stop.  *)
THEOREM AcceptedSafety == Spec => []AcceptedIsRecorded
<1>1. TypeOK /\ AuditInv => AcceptedIsRecorded
  <2> SUFFICES ASSUME TypeOK, AuditInv, NEW o \in accepted
               PROVE  /\ Row(raw[o]) # 0 /\ idem[IdemKey[raw[o]]] # 0
                      /\ GatewayID[raw[Row(raw[o])]] = GatewayID[raw[o]]
    BY DEF AcceptedIsRecorded, Row
  <2>1. o \in 1..Len(raw) /\ Row(raw[o]) # 0 /\ idem[IdemKey[raw[o]]] # 0
    BY DEF AuditInv, AcceptedKept
  <2>2. GatewayID[raw[o]] \in Ids
    BY <2>1, MessageFacts
  <2> QED BY <2>1, <2>2 DEF AuditInv, RowsAreOwn, Row
<1> QED BY <1>1, SpecAudit, TypeCorrect, PTL

(* With both tables in one database, written in one transaction, they      *)
(* agree on the coordinates of every event at all times.                   *)
THEOREM AuditSafety ==
  ASSUME ~UseTemporal
  PROVE  Spec => []AuditAgrees
<1>1. AuditInv => AuditAgrees
  BY DEF AuditInv
<1> QED BY <1>1, SpecAudit, PTL

-----------------------------------------------------------------------------
(* The gateway and the normalizer group implement DurableConsumer.         *)

LEMMA RefinesInit == Init => Consumer!Init
<1> SUFFICES ASSUME Init PROVE Consumer!Init
  OBVIOUS
<1>1. Len(raw) = 0 /\ {o \in 1..Len(raw) : Settled(o)} = {} /\ failed = {} /\ committed = 0
  BY DEF Init
<1> QED BY <1>1 DEF Consumer!Init

LEMMA RefinesPublish ==
  ASSUME Inv, TypeOK', NEW e \in Events, raw' = Append(raw, e), UNCHANGED <<effectVars, committed>>
  PROVE  Consumer!Publish
<1>0. raw \in Seq(Events) /\ Len(raw) \in Nat
  BY DEF Inv, TypeOK, TopicsOK
<1>1. Len(raw') = Len(raw) + 1 /\ \A o \in 1..Len(raw) : raw'[o] = raw[o]
  BY <1>0
<1>2. \A o \in 1..Len(raw) : Settled(o) <=> Settled(o)'
  BY <1>1 DEF Settled, effectVars
<1>3. {o \in 1..Len(raw) : Settled(o)}' = {o \in 1..(Len(raw) + 1) : Settled(o)'}
  BY <1>1
<1>4. 1..(Len(raw) + 1) = (1..Len(raw)) \cup {Len(raw) + 1}
  BY <1>0
<1>5. {o \in 1..Len(raw) : Settled(o)}' \in
        {{o \in 1..Len(raw) : Settled(o)}, {o \in 1..Len(raw) : Settled(o)} \cup {Len(raw) + 1}}
  BY <1>2, <1>3, <1>4
<1> QED BY <1>1, <1>5 DEF Consumer!Publish, effectVars

LEMMA RefinesProgress ==
  ASSUME Inv, Inv', Grows, UNCHANGED <<raw, committed>>
  PROVE  Consumer!Progress
<1>0. Len(raw) \in Nat /\ failed \subseteq 1..Len(raw) /\ failed' \subseteq 1..Len(raw)
  BY DEF Inv, TypeOK, TopicsOK, Shape, OffsetsBounded
<1>1. \A o \in 1..Len(raw) : Settled(o) => Settled(o)'
  BY SettledGrows DEF Inv
<1>2. {o \in 1..Len(raw) : Settled(o)} \subseteq {o \in 1..Len(raw) : Settled(o)}'
  BY <1>1
<1>3. {o \in 1..Len(raw) : Settled(o)}' \subseteq 1..Len(raw)
  OBVIOUS
<1> QED BY <1>0, <1>2, <1>3 DEF Consumer!Progress, Consumer!Offsets, Grows

LEMMA RefinesCommit ==
  ASSUME Inv, NEW n \in Normalizers, Commit(n)
  PROVE  Consumer!Commit
<1>1. /\ committed' = cur[n] /\ UNCHANGED <<raw, effectVars>>
      /\ stage[n] = "commit" /\ cur[n] \in 1..Len(raw) /\ Len(raw) \in Nat
  BY BusyMember, MemberRange DEF Commit, At, Inv
<1>2. \A o \in 1..cur[n] : Accounted(o)
  BY <1>1 DEF Inv, MemberAccounts, Accounted
<1>3. 1..committed' \subseteq {o \in 1..Len(raw) : Settled(o)} \cup failed
  BY <1>1, <1>2 DEF Accounted
<1>4. UNCHANGED {o \in 1..Len(raw) : Settled(o)}
  BY <1>1 DEF Settled, effectVars
<1> QED BY <1>1, <1>3, <1>4 DEF Consumer!Commit, effectVars

LEMMA RefinesStep == Inv /\ Inv' /\ [Next]_vars => [Consumer!Next]_Consumer!vars
<1> SUFFICES ASSUME Inv, Inv', [Next]_vars PROVE [Consumer!Next]_Consumer!vars
  OBVIOUS
<1>0. Grows
  BY NextGrows DEF Inv
<1>1. ASSUME UNCHANGED <<raw, committed>> PROVE Consumer!Next
  BY <1>0, <1>1, RefinesProgress DEF Consumer!Next
<1>2. ASSUME NEW c \in Clients, Gateway(c) PROVE Consumer!Next
  <2>1. ASSUME NEW e \in Events, PublishRaw(c, e) \/ PublishRawFails(c, e) PROVE Consumer!Next
    <3>1. raw' = Append(raw, e) /\ UNCHANGED <<effectVars, committed>> /\ TypeOK'
      BY <2>1 DEF PublishRaw, PublishRawFails, Inv
    <3> QED BY <3>1, RefinesPublish DEF Consumer!Next
  <2>2. PersistAtomic(c) \/ PersistTemporalLedger(c) \/ PersistIdempotency(c) \/ AbandonRequest(c)
        => UNCHANGED <<raw, committed>>
    BY DEF PersistAtomic, PersistTemporalLedger, PersistIdempotency, AbandonRequest
  <2> QED BY <1>1, <1>2, <2>1, <2>2 DEF Gateway
<1>3. ASSUME NEW n \in Normalizers, Normalizer(n) PROVE Consumer!Next
  <2>1. CASE Commit(n)
    BY <2>1, RefinesCommit DEF Consumer!Next
  <2>2. CASE ~Commit(n)
    <3>1. UNCHANGED <<raw, committed>>
      BY <1>3, <2>2 DEF Normalizer, Loop, Assign, Consume, RejectInvalid, PublishInvalidEvent,
           PublishNormalized, UpsertNormalizedEventLedger, LedgerConflict, ProcessFails,
           LedgerFails, GiveUp, Exit, Restart
    <3> QED BY <1>1, <3>1
  <2> QED BY <2>1, <2>2
<1>4. CASE UNCHANGED vars
  BY <1>1, <1>4 DEF vars
<1> QED BY <1>2, <1>3, <1>4 DEF Next

(* Every behaviour of gateway, topic and normalizer group is one that the  *)
(* durable consumer's contract allows: offsets move only over settled or   *)
(* given-up messages, and outcomes never disappear.                        *)
THEOREM Refinement == Spec => ImplementsDurableConsumer
  BY RefinesInit, RefinesStep, SpecInv, PTL DEF Spec, ImplementsDurableConsumer, Consumer!Spec
=============================================================================
