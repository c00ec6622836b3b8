------------------------ MODULE SignalAssuranceProofs ------------------------
(***************************************************************************)
(* TLAPS proofs about SignalAssurance, for any signals, price histories,   *)
(* horizons and as-of dates, and any number of messages, evaluation runs,  *)
(* relays and errors, and about ProposalMaterialization, for any           *)
(* proposals, overlaps, client keys, requests and faults.  The two share   *)
(* no variable and no proof uses both.                                     *)
(***************************************************************************)
EXTENDS SignalAssurance, ProposalMaterialization, FiniteSetTheorems, SequenceTheorems, TLAPS

(* The registrar is past what it committed, and what it has handled is on  *)
(* the topic.                                                              *)
RegistrarShape ==
  /\ committed < next
  /\ handled => next <= Len(topic)

(* A relay publishes committed events and marks what it has published.     *)
RelayShape ==
  /\ IsFiniteSet(written)
  /\ \A r \in Relays :
       /\ \A i \in 1..Len(page[r]) : page[r][i] \in written
       /\ relayAt[r] = "mark" => page[r] # <<>> /\ Head(page[r]) \in delivered

(* A run that has something to evaluate has an as-of date.                 *)
RunShape == \A w \in Workers : wTodo[w] # {} => wDay[w] \in AsOf

(* An open assertion was found open by every evaluation so far.            *)
OpenIsUndecided ==
  \A s \in Signals :
    state[s] \in {"none", "ACTIVE"} =>
      \A t \in evaluated[s] : NextState(s, t) = "ACTIVE"

Inv ==
  /\ AssuranceTypeOK
  /\ RegistrarShape /\ RelayShape /\ RunShape
  /\ OpenIsUndecided /\ OutcomeIsDecidedOnce

-----------------------------------------------------------------------------
LEMMA NextStateType == \A s \in Signals : \A t : NextState(s, t) \in States
  BY DEF NextState, States

LEMMA InitInv == AssuranceInit => Inv
<1> SUFFICES ASSUME AssuranceInit PROVE Inv
  OBVIOUS
<1> USE DEF AssuranceInit
<1>1. AssuranceTypeOK
  <2>1. MaxMessages \in Nat /\ MaxRuns \in Nat /\ MaxBreaks \in Nat
    BY AssuranceAssumption
  <2>2. topic \in Seq(Signals) /\ Len(topic) = 0
    OBVIOUS
  <2>3. page \in [Relays -> Seq(EventRows)] /\ relayAt \in [Relays -> {"down", "publish", "mark"}]
    OBVIOUS
  <2>4. /\ next \in 1..Len(topic) + 1 /\ committed \in 0..Len(topic) /\ Len(topic) <= MaxMessages
        /\ runs \in 0..MaxRuns /\ breaks \in 0..MaxBreaks
    BY <2>1, <2>2
  <2>5. /\ state \in [Signals -> States \cup {"none"}] /\ evaluated \in [Signals -> SUBSET AsOf]
        /\ wDay \in [Workers -> AsOf \cup {0}] /\ wTodo \in [Workers -> SUBSET Signals]
    OBVIOUS
  <2> QED BY <2>2, <2>3, <2>4, <2>5 DEF AssuranceTypeOK
<1>2. RegistrarShape /\ RunShape /\ OpenIsUndecided
  BY DEF RegistrarShape, RunShape, OpenIsUndecided
<1>3. RelayShape
  BY FS_EmptySet DEF RelayShape
<1>4. OutcomeIsDecidedOnce
  BY DEF OutcomeIsDecidedOnce, Terminal, States
<1> QED BY <1>1, <1>2, <1>3, <1>4 DEF Inv

(* A page the outbox lists is a sequence of committed events.              *)
LEMMA PageFacts ==
  ASSUME Inv, Undelivered # {}, NEW q \in Pages
  PROVE  /\ q \in Seq(EventRows)
         /\ q # <<>>
         /\ \A i \in 1..Len(q) : q[i] \in written
<1>1. IsFiniteSet(Undelivered) /\ written \subseteq EventRows
  BY FS_Subset DEF Inv, RelayShape, Undelivered, AssuranceTypeOK
<1>2. Cardinality(Undelivered) \in Nat \ {0}
  BY <1>1, FS_CardinalityType, FS_EmptySet
<1> DEFINE n == Min({PageSize, Cardinality(Undelivered)})
<1>3. n \in Nat \ {0}
  <2> DEFINE least(x) == x \in {PageSize, Cardinality(Undelivered)} /\
                \A y \in {PageSize, Cardinality(Undelivered)} : x =< y
  <2>1. \E x : least(x)
    <3>1. CASE PageSize <= Cardinality(Undelivered)
      BY <3>1, <1>2, AssuranceAssumption
    <3>2. CASE ~(PageSize <= Cardinality(Undelivered))
      BY <3>2, <1>2, AssuranceAssumption
    <3> QED BY <3>1, <3>2
  <2>2. n \in {PageSize, Cardinality(Undelivered)}
    BY <2>1 DEF Min
  <2> QED BY <2>2, <1>2, AssuranceAssumption
<1>4. q \in [1..n -> Undelivered]
  BY DEF Pages
<1> HIDE DEF n
<1>5. q \in Seq(Undelivered) /\ Len(q) = n
  BY <1>3, <1>4
<1>6. Undelivered \subseteq EventRows /\ Undelivered \subseteq written
  BY <1>1 DEF Undelivered
<1> QED BY <1>3, <1>4, <1>5, <1>6

(* A lifecycle event is added and an assertion moves from one state to     *)
(* another, never back to none.                                            *)
Registers(s) ==
  /\ state[s] = "none"
  /\ state' = [state EXCEPT ![s] = "ACTIVE"]
  /\ written' = written \cup {<<s, "ACTIVE">>}
  /\ UNCHANGED evaluated

Evaluates(s, t) ==
  /\ state[s] = "ACTIVE" /\ t \in AsOf /\ t \notin evaluated[s]
  /\ Persisted(s, t)

LEMMA AssertionStep ==
  ASSUME Inv, NEW s \in Signals,
         Registers(s) \/ \E t \in AsOf : Evaluates(s, t)
  PROVE  /\ OpenIsUndecided' /\ OutcomeIsDecidedOnce'
         /\ state' \in [Signals -> States \cup {"none"}]
         /\ evaluated' \in [Signals -> SUBSET AsOf]
         /\ written' \subseteq EventRows /\ written \subseteq written' /\ IsFiniteSet(written')
<1>0. /\ state \in [Signals -> States \cup {"none"}] /\ evaluated \in [Signals -> SUBSET AsOf]
      /\ written \subseteq EventRows /\ IsFiniteSet(written)
      /\ OpenIsUndecided /\ OutcomeIsDecidedOnce
  BY DEF Inv, AssuranceTypeOK, RelayShape
<1>1. CASE Registers(s)
  <2>1. /\ state' \in [Signals -> States \cup {"none"}] /\ evaluated' \in [Signals -> SUBSET AsOf]
        /\ written' \subseteq EventRows /\ written \subseteq written'
    BY <1>0, <1>1 DEF Registers, EventRows, States
  <2>2. IsFiniteSet(written')
    BY <1>0, <1>1, FS_AddElement DEF Registers
  <2>3. OpenIsUndecided'
    BY <1>0, <1>1 DEF Registers, OpenIsUndecided
  <2>4. OutcomeIsDecidedOnce'
    <3> SUFFICES ASSUME NEW x \in Signals
                 PROVE  /\ \A y \in States : <<x, y>> \in written' <=>
                                state'[x] # "none" /\ y \in {"ACTIVE", state'[x]}
                        /\ state'[x] \in Terminal =>
                             \E t \in evaluated'[x] :
                               /\ NextState(x, t) = state'[x]
                               /\ \A u \in evaluated'[x] \ {t} : NextState(x, u) = "ACTIVE"
      BY DEF OutcomeIsDecidedOnce
    <3>1. CASE x = s
      BY <3>1, <1>0, <1>1 DEF Registers, OutcomeIsDecidedOnce, States, Terminal
    <3>2. CASE x # s
      BY <3>2, <1>0, <1>1 DEF Registers, OutcomeIsDecidedOnce
    <3> QED BY <3>1, <3>2
  <2> QED BY <2>1, <2>2, <2>3, <2>4
<1>2. ASSUME NEW t \in AsOf, Evaluates(s, t)
      PROVE  /\ OpenIsUndecided' /\ OutcomeIsDecidedOnce'
             /\ state' \in [Signals -> States \cup {"none"}]
             /\ evaluated' \in [Signals -> SUBSET AsOf]
             /\ written' \subseteq EventRows /\ written \subseteq written' /\ IsFiniteSet(written')
  <2> DEFINE ns == NextState(s, t)
  <2>0. ns \in States
    BY NextStateType
  <2>1. /\ state[s] = "ACTIVE" /\ t \notin evaluated[s]
        /\ evaluated' = [evaluated EXCEPT ![s] = @ \cup {t}]
        /\ state' = [state EXCEPT ![s] = ns]
        /\ written' = written \cup {<<s, ns>>}
    BY <1>2 DEF Evaluates, Persisted
  <2>2. \A u \in evaluated[s] : NextState(s, u) = "ACTIVE"
    BY <1>0, <2>1 DEF OpenIsUndecided
  <2>3. /\ state' \in [Signals -> States \cup {"none"}] /\ evaluated' \in [Signals -> SUBSET AsOf]
        /\ written' \subseteq EventRows /\ written \subseteq written'
    BY <1>0, <2>0, <2>1 DEF EventRows, States
  <2>4. IsFiniteSet(written')
    BY <1>0, <2>1, FS_AddElement
  <2>5. ns = NextState(s, t)
    OBVIOUS
  <2> HIDE DEF ns
  <2>6. OpenIsUndecided'
    <3> SUFFICES ASSUME NEW x \in Signals, state'[x] \in {"none", "ACTIVE"}, NEW u \in evaluated'[x]
                 PROVE  NextState(x, u) = "ACTIVE"
      BY DEF OpenIsUndecided
    <3>1. CASE x = s
      BY <3>1, <1>0, <2>0, <2>1, <2>2, <2>5 DEF States
    <3>2. CASE x # s
      BY <3>2, <1>0, <2>1 DEF OpenIsUndecided
    <3> QED BY <3>1, <3>2
  <2>7. OutcomeIsDecidedOnce'
    <3> SUFFICES ASSUME NEW x \in Signals
                 PROVE  /\ \A y \in States : <<x, y>> \in written' <=>
                                state'[x] # "none" /\ y \in {"ACTIVE", state'[x]}
                        /\ state'[x] \in Terminal =>
                             \E v \in evaluated'[x] :
                               /\ NextState(x, v) = state'[x]
                               /\ \A u \in evaluated'[x] \ {v} : NextState(x, u) = "ACTIVE"
      BY DEF OutcomeIsDecidedOnce
    <3>1. CASE x = s
      <4>1. state'[x] = ns /\ evaluated'[x] = evaluated[s] \cup {t} /\ ns # "none"
        BY <3>1, <1>0, <2>0, <2>1 DEF States
      <4>2. \A y \in States : <<x, y>> \in written <=> y = "ACTIVE"
        BY <3>1, <1>0, <2>1 DEF OutcomeIsDecidedOnce
      <4>3. \A y \in States : <<x, y>> \in written' <=> y \in {"ACTIVE", ns}
        BY <3>1, <4>2, <2>1
      <4>4. NextState(x, t) = state'[x] /\ \A u \in evaluated'[x] \ {t} : NextState(x, u) = "ACTIVE"
        BY <3>1, <4>1, <2>2, <2>5
      <4> QED BY <4>1, <4>3, <4>4
    <3>2. CASE x # s
      BY <3>2, <1>0, <2>1 DEF OutcomeIsDecidedOnce
    <3> QED BY <3>1, <3>2
  <2> QED BY <2>3, <2>4, <2>6, <2>7
<1> QED BY <1>1, <1>2

-----------------------------------------------------------------------------
(* The invariant by group of variables.                                    *)
RegistrarInv ==
  /\ topic \in Seq(Signals) /\ Len(topic) <= MaxMessages
  /\ next \in 1..Len(topic) + 1 /\ committed \in 0..Len(topic)
  /\ handled \in BOOLEAN
  /\ RegistrarShape

AssertionInv ==
  /\ state \in [Signals -> States \cup {"none"}]
  /\ evaluated \in [Signals -> SUBSET AsOf]
  /\ OpenIsUndecided /\ OutcomeIsDecidedOnce

RelayInv ==
  /\ written \subseteq EventRows /\ delivered \subseteq written /\ marked \subseteq delivered
  /\ page \in [Relays -> Seq(EventRows)] /\ relayAt \in [Relays -> {"down", "publish", "mark"}]
  /\ RelayShape

RunInv ==
  /\ wDay \in [Workers -> AsOf \cup {0}] /\ wTodo \in [Workers -> SUBSET Signals]
  /\ runs \in 0..MaxRuns
  /\ RunShape

LEMMA InvParts ==
  Inv <=> RegistrarInv /\ AssertionInv /\ RelayInv /\ RunInv /\ breaks \in 0..MaxBreaks
  BY DEF Inv, AssuranceTypeOK, RegistrarInv, AssertionInv, RelayInv, RunInv

LEMMA InvPartsNext ==
  Inv' <=> RegistrarInv' /\ AssertionInv' /\ RelayInv' /\ RunInv' /\ breaks' \in 0..MaxBreaks
  BY DEF Inv, AssuranceTypeOK, RegistrarInv, AssertionInv, RelayInv, RunInv

LEMMA RegistrarKept == RegistrarInv /\ UNCHANGED registrarVars => RegistrarInv'
  BY DEF RegistrarInv, RegistrarShape, registrarVars

LEMMA AssertionKept == AssertionInv /\ UNCHANGED assertionVars => AssertionInv'
  BY DEF AssertionInv, assertionVars, OpenIsUndecided, OutcomeIsDecidedOnce

LEMMA RelayKept ==
  ASSUME RelayInv, UNCHANGED outboxVars,
         written \subseteq written', written' \subseteq EventRows, IsFiniteSet(written')
  PROVE  RelayInv'
  BY DEF RelayInv, RelayShape, outboxVars

LEMMA RunKept == RunInv /\ UNCHANGED runVars => RunInv'
  BY DEF RunInv, RunShape, runVars

LEMMA BreaksKept == Mishap /\ breaks \in 0..MaxBreaks => (breaks \in 0..MaxBreaks)'
  BY AssuranceAssumption DEF Mishap

-----------------------------------------------------------------------------
(* The registrar's steps.                                                  *)

LEMMA AnnounceInv == ASSUME Inv, NEW s \in Signals, Announce(s) PROVE Inv'
<1>0. RegistrarInv /\ AssertionInv /\ RelayInv /\ RunInv /\ breaks \in 0..MaxBreaks
  BY InvParts
<1>1. topic \in Seq(Signals) /\ Len(topic) \in Nat /\ topic' = Append(topic, s)
      /\ Len(topic) < MaxMessages
  BY <1>0 DEF RegistrarInv, Announce
<1>2. /\ topic' \in Seq(Signals) /\ Len(topic') = Len(topic) + 1 /\ Len(topic') <= MaxMessages
      /\ \A i \in 1..Len(topic) : topic'[i] = topic[i]
  BY <1>1, AssuranceAssumption
<1>3. RegistrarInv'
  <2>1. UNCHANGED <<next, committed, handled>> /\ RegistrarShape'
    BY <1>0, <1>1, <1>2 DEF RegistrarInv, RegistrarShape, Announce
  <2>2. next' \in 1..Len(topic') + 1 /\ committed' \in 0..Len(topic')
    BY <2>1, <1>0, <1>1, <1>2 DEF RegistrarInv
  <2> QED BY <2>1, <2>2, <1>0, <1>2 DEF RegistrarInv
<1>4. UNCHANGED <<assertionVars, outboxVars, runVars, breaks>>
  BY DEF Announce
<1>5. AssertionInv' /\ RunInv' /\ RelayInv'
  BY <1>0, <1>4, AssertionKept, RunKept, RelayKept DEF assertionVars, RelayInv, RelayShape
<1> QED BY <1>0, <1>3, <1>4, <1>5, InvPartsNext

LEMMA RegisterInv == Inv /\ Register => Inv'
<1> SUFFICES ASSUME Inv, Register PROVE Inv'
  OBVIOUS
<1>0. RegistrarInv /\ AssertionInv /\ RelayInv /\ RunInv /\ breaks \in 0..MaxBreaks
  BY InvParts
<1> DEFINE s == topic[next]
<1>1. /\ next \in 1..Len(topic) /\ Len(topic) \in Nat /\ s \in Signals
      /\ \A i \in 1..Len(topic) : topic[i] \in Signals
  BY <1>0 DEF RegistrarInv, Register
<1>2. /\ AssertionInv'
      /\ written' \subseteq EventRows /\ written \subseteq written' /\ IsFiniteSet(written')
  <2>1. CASE state[s] = "none"
    <3>1. Registers(s)
      BY <2>1 DEF Register, Registers
    <3> QED BY <3>1, <1>1, AssertionStep DEF AssertionInv
  <2>2. CASE state[s] # "none"
    <3>1. UNCHANGED assertionVars
      BY <2>2 DEF Register, assertionVars
    <3> QED BY <3>1, <1>0, AssertionKept DEF assertionVars, RelayInv, RelayShape
  <2> QED BY <2>1, <2>2
<1>3. RegistrarInv'
  <2>1. UNCHANGED <<topic, next, committed>> /\ handled' = TRUE
    BY DEF Register
  <2>2. RegistrarShape'
    BY <2>1, <1>0, <1>1 DEF RegistrarInv, RegistrarShape
  <2> QED BY <2>1, <2>2, <1>0, <1>1 DEF RegistrarInv
<1>4. RelayInv' /\ RunInv' /\ breaks' = breaks
  BY <1>0, <1>2, RelayKept, RunKept DEF Register
<1> QED BY <1>0, <1>2, <1>3, <1>4, InvPartsNext

LEMMA PassingInv ==
  ASSUME Inv, Refuse \/ CommitRegistration \/ RestartRegistrar
  PROVE  Inv'
<1>0. RegistrarInv /\ AssertionInv /\ RelayInv /\ RunInv /\ breaks \in 0..MaxBreaks
  BY InvParts
<1>1. UNCHANGED <<assertionVars, outboxVars, runVars>> /\ breaks' \in 0..MaxBreaks
  BY <1>0, BreaksKept DEF Refuse, CommitRegistration, RestartRegistrar
<1>2. AssertionInv' /\ RunInv' /\ RelayInv'
  BY <1>0, <1>1, AssertionKept, RunKept, RelayKept DEF assertionVars, RelayInv, RelayShape
<1>3. /\ Len(topic) \in Nat /\ topic' = topic
      /\ next \in 1..Len(topic) + 1 /\ committed \in 0..Len(topic) /\ committed < next
      /\ handled \in BOOLEAN
  BY <1>0 DEF RegistrarInv, RegistrarShape, Refuse, CommitRegistration, RestartRegistrar
<1>4. RegistrarInv'
  <2>1. CASE Refuse
    <3>1. next' = next + 1 /\ next \in 1..Len(topic)
          /\ handled' = handled /\ ~handled /\ committed' = committed
      BY <2>1, <1>3 DEF Refuse
    <3>2. RegistrarShape' /\ next' \in 1..Len(topic') + 1
      BY <3>1, <1>3 DEF RegistrarShape
    <3> QED BY <3>1, <3>2, <1>0, <1>3 DEF RegistrarInv
  <2>2. CASE CommitRegistration
    <3>1. handled /\ committed' = next /\ next' = next + 1 /\ ~handled' /\ handled' \in BOOLEAN
      BY <2>2 DEF CommitRegistration
    <3>2. next \in 1..Len(topic)
      BY <3>1, <1>0, <1>3 DEF RegistrarInv, RegistrarShape
    <3> QED BY <3>1, <3>2, <1>0, <1>3 DEF RegistrarInv, RegistrarShape
  <2>3. CASE RestartRegistrar
    <3>1. next' = committed + 1 /\ ~handled' /\ handled' \in BOOLEAN /\ committed' = committed
      BY <2>3 DEF RestartRegistrar
    <3> QED BY <3>1, <1>0, <1>3 DEF RegistrarInv, RegistrarShape
  <2> QED BY <2>1, <2>2, <2>3
<1> QED BY <1>1, <1>2, <1>4, InvPartsNext

-----------------------------------------------------------------------------
(* The steps of evaluation runs.                                           *)

LEMMA PersistEvaluationInv == ASSUME Inv, NEW w \in Workers, PersistEvaluation(w) PROVE Inv'
<1>0. RegistrarInv /\ AssertionInv /\ RelayInv /\ RunInv /\ breaks \in 0..MaxBreaks
  BY InvParts
<1>1. PICK s \in wTodo[w] :
        /\ IF state[s] # "ACTIVE"
           THEN /\ wTodo' = [wTodo EXCEPT ![w] = {}]
                /\ UNCHANGED assertionVars
           ELSE /\ wTodo' = [wTodo EXCEPT ![w] = @ \ {s}]
                /\ IF wDay[w] \in evaluated[s] THEN UNCHANGED assertionVars
                                               ELSE Persisted(s, wDay[w])
        /\ UNCHANGED <<registrarVars, outboxVars, wDay, runs, breaks>>
  BY DEF PersistEvaluation
<1>2. s \in Signals /\ wDay[w] \in AsOf
  BY <1>0, <1>1 DEF RunInv, RunShape
<1>3. /\ AssertionInv'
      /\ written' \subseteq EventRows /\ written \subseteq written' /\ IsFiniteSet(written')
  <2>1. CASE UNCHANGED assertionVars
    BY <2>1, <1>0, AssertionKept DEF assertionVars, RelayInv, RelayShape
  <2>2. CASE ~UNCHANGED assertionVars
    <3>1. Evaluates(s, wDay[w])
      BY <2>2, <1>1, <1>2 DEF Evaluates
    <3> QED BY <3>1, <1>2, AssertionStep DEF AssertionInv
  <2> QED BY <2>1, <2>2
<1>4. RunInv'
  BY <1>0, <1>1 DEF RunInv, RunShape
<1>5. RegistrarInv' /\ RelayInv' /\ breaks' = breaks
  BY <1>0, <1>1, <1>3, RegistrarKept, RelayKept
<1> QED BY <1>0, <1>3, <1>4, <1>5, InvPartsNext

LEMMA RunStepInv ==
  ASSUME Inv, NEW w \in Workers,
         (\E t \in AsOf : StartRun(w, t)) \/ EndRun(w) \/ AbortRun(w)
  PROVE  Inv'
<1>0. RegistrarInv /\ AssertionInv /\ RelayInv /\ RunInv /\ breaks \in 0..MaxBreaks
  BY InvParts
<1>1. UNCHANGED <<registrarVars, assertionVars, outboxVars>> /\ breaks' \in 0..MaxBreaks
  BY <1>0, BreaksKept DEF StartRun, EndRun, AbortRun
<1>2. RegistrarInv' /\ AssertionInv' /\ RelayInv'
  BY <1>0, <1>1, RegistrarKept, AssertionKept, RelayKept DEF assertionVars, RelayInv, RelayShape
<1>3. RunInv'
  <2>0. MaxRuns \in Nat
    BY AssuranceAssumption
  <2>1. ASSUME NEW t \in AsOf, StartRun(w, t) PROVE RunInv'
    BY <2>0, <2>1, <1>0 DEF StartRun, RunInv, RunShape
  <2>2. CASE EndRun(w)
    BY <2>2, <1>0 DEF EndRun, RunInv, RunShape, runVars
  <2>3. CASE AbortRun(w)
    BY <2>3, <1>0 DEF AbortRun, RunInv, RunShape, runVars
  <2> QED BY <2>1, <2>2, <2>3
<1> QED BY <1>1, <1>2, <1>3, InvPartsNext

-----------------------------------------------------------------------------
(* The steps of relays.                                                    *)

(* Everything but the outbox and the relays stays.                         *)
LEMMA RelayFrame ==
  ASSUME Inv, RelayInv', UNCHANGED <<registrarVars, assertionVars, runVars>>,
         breaks' \in 0..MaxBreaks
  PROVE  Inv'
<1>1. RegistrarInv' /\ AssertionInv' /\ RunInv'
  BY InvParts, RegistrarKept, AssertionKept, RunKept DEF assertionVars
<1> QED BY <1>1, InvPartsNext

LEMMA ListEventsInv == ASSUME Inv, NEW r \in Relays, ListEvents(r) PROVE Inv'
<1>0. RelayInv /\ breaks \in 0..MaxBreaks
  BY InvParts
<1>1. PICK q \in Pages : page' = [page EXCEPT ![r] = q]
  BY DEF ListEvents
<1>2. q \in Seq(EventRows) /\ \A i \in 1..Len(q) : q[i] \in written
  BY PageFacts DEF ListEvents
<1>3. relayAt[r] = "publish" /\ UNCHANGED <<written, marked, delivered, relayAt>>
  BY DEF ListEvents, assertionVars
<1>4. RelayShape'
  BY <1>0, <1>1, <1>2, <1>3 DEF RelayInv, RelayShape
<1>5. RelayInv'
  BY <1>0, <1>1, <1>2, <1>3, <1>4 DEF RelayInv
<1> QED BY <1>0, <1>5, RelayFrame DEF ListEvents

(* The first event of a page, and the rest of it.                          *)
LEMMA PageParts ==
  ASSUME RelayInv, NEW r \in Relays, page[r] # <<>>
  PROVE  /\ Head(page[r]) = page[r][1] /\ Head(page[r]) \in written
         /\ Tail(page[r]) \in Seq(EventRows)
         /\ \A i \in 1..Len(Tail(page[r])) : Tail(page[r])[i] \in written
<1>1. page[r] \in Seq(EventRows) /\ \A i \in 1..Len(page[r]) : page[r][i] \in written
  BY DEF RelayInv, RelayShape
<1>2. /\ Len(page[r]) \in Nat /\ Len(page[r]) >= 1
      /\ Tail(page[r]) \in Seq(EventRows) /\ Len(Tail(page[r])) = Len(page[r]) - 1
      /\ \A i \in 1..Len(Tail(page[r])) : Tail(page[r])[i] = page[r][i + 1]
  BY <1>1, HeadTailProperties
<1>3. Head(page[r]) = page[r][1]
  BY <1>1
<1> QED BY <1>1, <1>2, <1>3

LEMMA PublishEventInv == ASSUME Inv, NEW r \in Relays, PublishEvent(r) PROVE Inv'
<1>0. RelayInv /\ breaks \in 0..MaxBreaks
  BY InvParts
<1>1. Head(page[r]) \in written
  BY <1>0, PageParts DEF PublishEvent
<1>2. /\ UNCHANGED <<written, marked, page>> /\ delivered' = delivered \cup {Head(page[r])}
      /\ relayAt' = [relayAt EXCEPT ![r] = "mark"] /\ page[r] # <<>>
  BY DEF PublishEvent, assertionVars
<1>3. RelayShape'
  BY <1>0, <1>2 DEF RelayInv, RelayShape
<1>4. RelayInv'
  BY <1>0, <1>1, <1>2, <1>3 DEF RelayInv
<1> QED BY <1>0, <1>4, RelayFrame DEF PublishEvent

LEMMA MarkEventInv == ASSUME Inv, NEW r \in Relays, MarkEvent(r) PROVE Inv'
<1>0. RelayInv /\ breaks \in 0..MaxBreaks
  BY InvParts
<1>1. page[r] # <<>> /\ Head(page[r]) \in delivered
  BY <1>0 DEF RelayInv, RelayShape, MarkEvent
<1>2. /\ Tail(page[r]) \in Seq(EventRows)
      /\ \A i \in 1..Len(Tail(page[r])) : Tail(page[r])[i] \in written
  BY <1>0, <1>1, PageParts
<1>3. /\ UNCHANGED <<written, delivered>> /\ marked' = marked \cup {Head(page[r])}
      /\ \/ relayAt' = [relayAt EXCEPT ![r] = "down"] /\ page' = [page EXCEPT ![r] = <<>>]
         \/ relayAt' = [relayAt EXCEPT ![r] = "publish"] /\ page' = [page EXCEPT ![r] = Tail(@)]
  BY DEF MarkEvent, assertionVars
<1>4. RelayInv'
  <2>1. page' \in [Relays -> Seq(EventRows)] /\ relayAt' \in [Relays -> {"down", "publish", "mark"}]
    <3>1. page \in [Relays -> Seq(EventRows)] /\ relayAt \in [Relays -> {"down", "publish", "mark"}]
      BY <1>0 DEF RelayInv
    <3>2. <<>> \in Seq(EventRows)
      OBVIOUS
    <3>3. relayAt' \in [Relays -> {"down", "publish", "mark"}]
      BY <3>1, <1>3
    <3>4. page' \in [Relays -> Seq(EventRows)]
      BY <3>1, <3>2, <1>2, <1>3
    <3> QED BY <3>3, <3>4
  <2>2. RelayShape'
    <3>1. page'[r] \in {<<>>, Tail(page[r])} /\ relayAt'[r] # "mark"
      BY <1>0, <1>3 DEF RelayInv
    <3>2. \A i \in 1..Len(page'[r]) : page'[r][i] \in written
      BY <3>1, <1>2
    <3>3. \A x \in Relays \ {r} : page'[x] = page[x] /\ relayAt'[x] = relayAt[x]
      BY <1>0, <1>3 DEF RelayInv
    <3> QED BY <3>1, <3>2, <3>3, <1>0, <1>3 DEF RelayInv, RelayShape
  <2> QED BY <2>1, <2>2, <1>0, <1>1, <1>3 DEF RelayInv
<1> QED BY <1>0, <1>4, RelayFrame DEF MarkEvent

LEMMA RelayEndsInv == ASSUME Inv, NEW r \in Relays, RelayEnds(r) PROVE Inv'
<1>0. RelayInv /\ breaks \in 0..MaxBreaks
  BY InvParts
<1> DEFINE head == {page[r][i] : i \in {1} \cap DOMAIN page[r]}
<1>1. head \subseteq written /\ (relayAt[r] = "mark" => head \subseteq delivered)
  <2>1. page[r] \in Seq(EventRows) /\ DOMAIN page[r] = 1..Len(page[r])
    BY <1>0 DEF RelayInv
  <2>2. head \subseteq written
    BY <2>1, <1>0 DEF RelayInv, RelayShape
  <2>3. ASSUME relayAt[r] = "mark" PROVE head \subseteq delivered
    <3>1. page[r] # <<>> /\ Head(page[r]) \in delivered
      BY <2>3, <1>0 DEF RelayInv, RelayShape
    <3>2. Head(page[r]) = page[r][1]
      BY <3>1, <1>0, PageParts
    <3> QED BY <3>1, <3>2
  <2> QED BY <2>2, <2>3
<1>2. /\ \/ UNCHANGED <<delivered, marked>>
         \/ relayAt[r] = "publish" /\ delivered' = delivered \cup head /\ UNCHANGED marked
         \/ relayAt[r] = "mark" /\ marked' = marked \cup head /\ UNCHANGED delivered
      /\ relayAt' = [relayAt EXCEPT ![r] = "down"] /\ page' = [page EXCEPT ![r] = <<>>]
      /\ written' = written
  BY DEF RelayEnds, assertionVars
<1> HIDE DEF head
<1>3. written \subseteq EventRows /\ delivered' \subseteq written' /\ marked' \subseteq delivered'
      /\ delivered \subseteq delivered'
  BY <1>0, <1>1, <1>2 DEF RelayInv
<1>4. page' \in [Relays -> Seq(EventRows)] /\ relayAt' \in [Relays -> {"down", "publish", "mark"}]
  BY <1>0, <1>2 DEF RelayInv
<1>5. RelayShape'
  BY <1>0, <1>2, <1>3 DEF RelayInv, RelayShape
<1>6. RelayInv'
  BY <1>2, <1>3, <1>4, <1>5 DEF RelayInv
<1>7. breaks' \in 0..MaxBreaks
  BY <1>0, BreaksKept DEF RelayEnds
<1> QED BY <1>6, <1>7, RelayFrame DEF RelayEnds

LEMMA StartRelayInv == ASSUME Inv, NEW r \in Relays, StartRelay(r) PROVE Inv'
<1>0. RelayInv /\ breaks \in 0..MaxBreaks
  BY InvParts
<1>1. RelayInv'
  BY <1>0 DEF RelayInv, RelayShape, StartRelay, assertionVars
<1> QED BY <1>0, <1>1, RelayFrame DEF StartRelay

-----------------------------------------------------------------------------
LEMMA NextInv == Inv /\ [AssuranceNext]_assuranceVars => Inv'
<1> SUFFICES ASSUME Inv, [AssuranceNext]_assuranceVars PROVE Inv'
  OBVIOUS
<1>1. ASSUME NEW s \in Signals, Announce(s) PROVE Inv'
  BY <1>1, AnnounceInv
<1>2. CASE Register \/ Refuse \/ CommitRegistration \/ RestartRegistrar
  BY <1>2, RegisterInv, PassingInv
<1>3. ASSUME NEW w \in Workers,
             (\E t \in AsOf : StartRun(w, t)) \/ PersistEvaluation(w) \/ EndRun(w) \/ AbortRun(w)
      PROVE  Inv'
  BY <1>3, PersistEvaluationInv, RunStepInv
<1>4. ASSUME NEW r \in Relays, Relay(r) \/ RelayEnds(r) \/ StartRelay(r) PROVE Inv'
  BY <1>4, ListEventsInv, PublishEventInv, MarkEventInv, RelayEndsInv, StartRelayInv DEF Relay
<1>5. CASE UNCHANGED assuranceVars
  <2>1. UNCHANGED <<registrarVars, assertionVars, outboxVars, runVars, breaks>>
    BY <1>5 DEF assuranceVars
  <2>2. RelayInv'
    BY <2>1, InvParts, RelayKept DEF assertionVars, RelayInv, RelayShape
  <2> QED BY <2>1, <2>2, InvParts, RelayFrame
<1> QED BY <1>1, <1>2, <1>3, <1>4, <1>5 DEF AssuranceNext

LEMMA SpecInv == AssuranceSpec => []Inv
  BY InitInv, NextInv, PTL DEF AssuranceSpec

(* Types of the registrar, the assurance tables, the evaluation runs and   *)
(* the relays; what a relay marks it has published and what it publishes   *)
(* was committed.                                                          *)
THEOREM TypeCorrect == AssuranceSpec => []AssuranceTypeOK
<1>1. Inv => AssuranceTypeOK
  BY DEF Inv
<1> QED BY <1>1, SpecInv, PTL

(* One evaluation decides an assertion, its events are the creation and    *)
(* that outcome, and later runs for any dates replace neither.             *)
THEOREM OutcomeSafety == AssuranceSpec => []OutcomeIsDecidedOnce
<1>1. Inv => OutcomeIsDecidedOnce
  BY DEF Inv
<1> QED BY <1>1, SpecInv, PTL

-----------------------------------------------------------------------------
(* The lifecycle events are an outbox.                                     *)

LEMMA RefinesInit == AssuranceInit => Outbox!Init
  BY DEF AssuranceInit, Outbox!Init

(* An added event is a write, or a stutter.                                *)
LEMMA RefinesWrite ==
  ASSUME UNCHANGED outboxVars, NEW e \in EventRows, written' = written \cup {e}
  PROVE  Outbox!Next
  BY DEF outboxVars, Outbox!Next, Outbox!Write

LEMMA RefinesRelay ==
  ASSUME Inv, NEW r \in Relays, Relay(r) \/ RelayEnds(r) \/ StartRelay(r)
  PROVE  [Outbox!Next]_(Outbox!outboxVars)
<1>0. RelayInv /\ written \subseteq EventRows /\ delivered \subseteq written
  BY InvParts DEF RelayInv
<1>1. CASE ListEvents(r) \/ StartRelay(r)
  BY <1>1 DEF ListEvents, StartRelay, assertionVars, Outbox!outboxVars
<1>2. CASE PublishEvent(r)
  <2>1. Head(page[r]) \in written /\ UNCHANGED <<written, marked>>
        /\ delivered' = delivered \cup {Head(page[r])}
    BY <1>0, <1>2, PageParts DEF PublishEvent, assertionVars
  <2>2. Outbox!Deliver(Head(page[r]))
    BY <2>1 DEF Outbox!Deliver
  <2> QED BY <2>1, <2>2, <1>0 DEF Outbox!Next
<1>3. CASE MarkEvent(r)
  <2>1. Head(page[r]) \in delivered /\ UNCHANGED <<written, delivered>>
        /\ marked' = marked \cup {Head(page[r])}
    BY <1>0, <1>3 DEF MarkEvent, assertionVars, RelayInv, RelayShape
  <2>2. Outbox!Mark(Head(page[r]))
    BY <2>1 DEF Outbox!Mark
  <2> QED BY <2>1, <2>2, <1>0 DEF Outbox!Next
<1>4. CASE RelayEnds(r)
  <2> DEFINE head == {page[r][i] : i \in {1} \cap DOMAIN page[r]}
  <2>1. /\ \/ UNCHANGED <<delivered, marked>>
           \/ relayAt[r] = "publish" /\ delivered' = delivered \cup head /\ UNCHANGED marked
           \/ relayAt[r] = "mark" /\ marked' = marked \cup head /\ UNCHANGED delivered
        /\ written' = written
    BY <1>4 DEF RelayEnds, assertionVars
  <2>2. CASE page[r] = <<>>
    <3>1. head = {}
      BY <2>2
    <3> HIDE DEF head
    <3>2. UNCHANGED <<written, delivered, marked>>
      BY <3>1, <2>1
    <3> QED BY <3>2 DEF Outbox!outboxVars
  <2>3. CASE page[r] # <<>>
    <3>1. Head(page[r]) = page[r][1] /\ Head(page[r]) \in written
          /\ (relayAt[r] = "mark" => Head(page[r]) \in delivered)
      BY <2>3, <1>0, PageParts DEF RelayInv, RelayShape
    <3>2. DOMAIN page[r] = 1..Len(page[r]) /\ Len(page[r]) \in Nat /\ Len(page[r]) >= 1
      BY <2>3, <1>0 DEF RelayInv
    <3>3. head = {Head(page[r])}
      BY <3>1, <3>2
    <3> HIDE DEF head
    <3>4. \/ UNCHANGED <<written, delivered, marked>>
          \/ Outbox!Deliver(Head(page[r]))
          \/ Outbox!Mark(Head(page[r]))
      BY <3>1, <3>3, <2>1 DEF Outbox!Deliver, Outbox!Mark
    <3> QED BY <3>1, <3>4, <1>0 DEF Outbox!Next, Outbox!outboxVars
  <2> QED BY <2>2, <2>3
<1>5. CASE StartRelay(r)
  BY <1>5 DEF StartRelay, assertionVars, Outbox!outboxVars
<1> QED BY <1>1, <1>2, <1>3, <1>4, <1>5 DEF Relay

LEMMA RefinesStep ==
  Inv /\ [AssuranceNext]_assuranceVars => [Outbox!Next]_(Outbox!outboxVars)
<1> SUFFICES ASSUME Inv, [AssuranceNext]_assuranceVars PROVE [Outbox!Next]_(Outbox!outboxVars)
  OBVIOUS
<1>1. ASSUME UNCHANGED <<written, outboxVars>> PROVE [Outbox!Next]_(Outbox!outboxVars)
  BY <1>1 DEF outboxVars, Outbox!outboxVars
<1>2. ASSUME NEW s \in Signals, Announce(s) PROVE [Outbox!Next]_(Outbox!outboxVars)
  BY <1>1, <1>2 DEF Announce, assertionVars
<1>3. CASE Register
  <2>1. topic[next] \in Signals
    BY <1>3, InvParts DEF RegistrarInv, Register
  <2>2. <<topic[next], "ACTIVE">> \in EventRows
    BY <2>1 DEF EventRows, States
  <2>3. UNCHANGED outboxVars /\ (written' = written \/ written' = written \cup {<<topic[next], "ACTIVE">>})
    BY <1>3 DEF Register
  <2> QED BY <2>2, <2>3, <1>1, RefinesWrite
<1>4. CASE Refuse \/ CommitRegistration \/ RestartRegistrar
  BY <1>1, <1>4 DEF Refuse, CommitRegistration, RestartRegistrar, assertionVars
<1>5. ASSUME NEW w \in Workers, PersistEvaluation(w) PROVE [Outbox!Next]_(Outbox!outboxVars)
  <2>1. PICK s \in wTodo[w] :
           UNCHANGED outboxVars /\ (UNCHANGED assertionVars \/ Persisted(s, wDay[w]))
    BY <1>5 DEF PersistEvaluation
  <2>2. <<s, NextState(s, wDay[w])>> \in EventRows
    BY NextStateType, InvParts DEF EventRows, RunInv
  <2> QED BY <2>1, <2>2, <1>1, RefinesWrite DEF Persisted, assertionVars
<1>6. ASSUME NEW w \in Workers, (\E t \in AsOf : StartRun(w, t)) \/ EndRun(w) \/ AbortRun(w)
      PROVE  [Outbox!Next]_(Outbox!outboxVars)
  BY <1>1, <1>6 DEF StartRun, EndRun, AbortRun, assertionVars
<1>7. ASSUME NEW r \in Relays, Relay(r) \/ RelayEnds(r) \/ StartRelay(r)
      PROVE  [Outbox!Next]_(Outbox!outboxVars)
  BY <1>7, RefinesRelay
<1>8. CASE UNCHANGED assuranceVars
  BY <1>1, <1>8 DEF assuranceVars, assertionVars
<1> QED BY <1>2, <1>3, <1>4, <1>5, <1>6, <1>7, <1>8 DEF AssuranceNext

(* Registrar, evaluation runs and relays keep the promises of an outbox:   *)
(* nothing is published that was not committed and nothing is marked that  *)
(* was not published, wherever relays stop.                                *)
THEOREM OutboxRefinement == AssuranceSpec => ImplementsOutbox
  BY RefinesInit, RefinesStep, SpecInv, PTL DEF AssuranceSpec, ImplementsOutbox, Outbox!Spec

-----------------------------------------------------------------------------
(* The steps of a request before it has written a row.                     *)
Unwritten == {"summary", "signals", "running", "duplicate", "blocked"}

Active(r) == req[r].at # "idle"

(* Requests whose proposals overlap are noticed as soon as both are there. *)
PairsAreTangled ==
  \A r, o \in Requests :
    r # o /\ Active(r) /\ Active(o) /\ <<Of(r), Of(o)>> \in Overlaps => Of(r) \in tangled

(* A row stays the one of the proposal that made it, unless a key is shared.*)
RowsAreOwn ==
  \A k \in IdempotencyKeys :
    rows[k] # NoRow /\ rows[k].id # rows[k].proposal =>
      rows[k].id \in tangled /\ rows[k].proposal \in tangled

LedgerIsRecorded == \A p \in ledger : Recorded(p) \/ p \in tangled

(* A request of a proposal that overlaps no other works on what it has     *)
(* read: nothing of its proposal is on record until it writes it.          *)
RequestsAreAhead ==
  \A r \in Requests :
    /\ req[r].at \in {"succeeded", "publish"} => Of(r) \in ledger
    /\ Active(r) /\ Of(r) \notin tangled =>
         /\ req[r].at \in Unwritten => ~Recorded(Of(r))
         /\ req[r].at \in {"running", "write"} => \A q \in ledger : <<Of(r), q>> \notin Overlaps
         /\ req[r].at = "write" =>
              /\ Recorded(Of(r))
              /\ \A k \in IdempotencyKeys :
                   rows[k] # NoRow /\ rows[k].proposal = Of(r) => rows[k].status = "running"

MaterializationInv ==
  /\ MaterializationTypeOK /\ MaterializationsAgree
  /\ PairsAreTangled /\ RowsAreOwn /\ LedgerIsRecorded /\ RequestsAreAhead

Taken == [at : Steps, proposal : Proposals, key : IdempotencyKeys, blocked : BOOLEAN]

LEMMA RequestType ==
  ASSUME MaterializationTypeOK, NEW r \in Requests
  PROVE  /\ req[r] = Idle \/ req[r] \in Taken
         /\ Active(r) => req[r] \in Taken
         /\ DOMAIN req = Requests
BY DEF MaterializationTypeOK, Active, Idle, Taken, Steps

LEMMA RowType ==
  ASSUME MaterializationTypeOK, NEW k \in IdempotencyKeys
  PROVE  /\ rows[k] = NoRow \/ rows[k] \in Rows
         /\ rows[k] # NoRow => rows[k].id \in Proposals /\ rows[k].proposal \in Proposals
         /\ rows[k].id \in Proposals => rows[k] # NoRow
BY MaterializationAssumption DEF MaterializationTypeOK, NoRow, Rows

LEMMA MaterializationStart == MaterializationInit => MaterializationInv
<1> SUFFICES ASSUME MaterializationInit PROVE MaterializationInv
  OBVIOUS
<1>1. \A r \in Requests : req[r] = Idle /\ req[r].at = "idle"
  BY DEF MaterializationInit, Idle
<1>2. \A k \in IdempotencyKeys : rows[k] = NoRow
  BY DEF MaterializationInit
<1>3. ledger = {} /\ eligible = {}
  BY DEF MaterializationInit
<1>4. MaterializationTypeOK
  BY MaterializationAssumption DEF MaterializationInit, MaterializationTypeOK
<1>5. MaterializationsAgree /\ RowsAreOwn /\ LedgerIsRecorded
  BY <1>2, <1>3 DEF MaterializationsAgree, RowsAreOwn, LedgerIsRecorded
<1>6. PairsAreTangled /\ RequestsAreAhead
  BY <1>1 DEF PairsAreTangled, RequestsAreAhead, Active
<1> QED BY <1>4, <1>5, <1>6 DEF MaterializationInv

-----------------------------------------------------------------------------
(* A request that goes on or ends meets no new overlap.                    *)
LEMMA PairsKept ==
  ASSUME MaterializationInv, NEW r \in Requests, NEW new, req' = [req EXCEPT ![r] = new],
         new.at = "idle" \/ (Active(r) /\ new.proposal = Of(r)), tangled \subseteq tangled'
  PROVE  PairsAreTangled'
<1>1. req'[r] = new /\ \A o \in Requests : o # r => req'[o] = req[o]
  BY RequestType DEF MaterializationInv
<1> QED BY <1>1 DEF MaterializationInv, PairsAreTangled, Active, Of

(* A step that moves one request and changes nothing else.                 *)
LEMMA MoveStep ==
  ASSUME MaterializationInv, NEW r \in Requests, Active(r), NEW new,
         req' = [req EXCEPT ![r] = new],
         UNCHANGED <<decision, rows, ledger, tangled>>,
         eligible' \subseteq ledger, asked' \in 0..MaxRequests, decided' \in 0..MaxDecisions,
         faults' \in 0..MaxFaults,
         new = Idle \/ (new \in Taken /\ new.proposal = Of(r)),
         new.at \in Unwritten => req[r].at \in Unwritten,
         new.at = "running" => \A q \in ledger : <<Of(r), q>> \notin Overlaps,
         new.at # "write",
         new.at \in {"succeeded", "publish"} => Of(r) \in ledger
  PROVE  MaterializationInv'
<1>1. req'[r] = new /\ \A o \in Requests : o # r => req'[o] = req[o]
  BY RequestType DEF MaterializationInv
<1>2. Idle.at = "idle"
  BY DEF Idle
<1>3. MaterializationTypeOK'
  BY DEF MaterializationInv, MaterializationTypeOK, Taken
<1>4. PairsAreTangled'
  BY <1>2, PairsKept
<1>5. MaterializationsAgree' /\ RowsAreOwn' /\ LedgerIsRecorded'
  BY DEF MaterializationInv, MaterializationsAgree, RowsAreOwn, LedgerIsRecorded, Recorded
<1>6. RequestsAreAhead'
  <2> SUFFICES ASSUME NEW o \in Requests
               PROVE  /\ req'[o].at \in {"succeeded", "publish"} => req'[o].proposal \in ledger
                      /\ req'[o].at # "idle" /\ req'[o].proposal \notin tangled =>
                           /\ req'[o].at \in Unwritten => ~Recorded(req'[o].proposal)
                           /\ req'[o].at \in {"running", "write"} =>
                                \A q \in ledger : <<req'[o].proposal, q>> \notin Overlaps
                           /\ req'[o].at = "write" =>
                                /\ Recorded(req'[o].proposal)
                                /\ \A k \in IdempotencyKeys :
                                     rows[k] # NoRow /\ rows[k].proposal = req'[o].proposal =>
                                       rows[k].status = "running"
    BY DEF RequestsAreAhead, Active, Of, Recorded
  <2>1. CASE o # r
    BY <1>1, <2>1 DEF MaterializationInv, RequestsAreAhead, Active, Of
  <2>2. CASE o = r
    <3>1. new.at # "idle" => new.proposal = Of(r)
      BY <1>2
    <3> QED BY <1>1, <2>2, <3>1 DEF MaterializationInv, RequestsAreAhead, Active
  <2> QED BY <2>1, <2>2
<1> QED BY <1>3, <1>4, <1>5, <1>6 DEF MaterializationInv

LEMMA DecisionStep ==
  ASSUME MaterializationInv, NEW p \in Proposals,
         Propose(p) \/ \E status \in Decisions : Decide(p, status)
  PROVE  MaterializationInv'
<1>1. UNCHANGED <<rows, ledger, eligible, req, tangled, asked, faults>>
  BY DEF Propose, Decide, countersVars
<1>2. decision' \in [Proposals -> Decisions \cup {"absent"}] /\ decided' \in 0..MaxDecisions
  BY MaterializationAssumption DEF Propose, Decide, countersVars, Decisions, MaterializationInv,
     MaterializationTypeOK
<1>3. MaterializationTypeOK'
  BY <1>1, <1>2 DEF MaterializationInv, MaterializationTypeOK
<1>4. MaterializationsAgree' /\ RowsAreOwn' /\ LedgerIsRecorded'
  BY <1>1 DEF MaterializationInv, MaterializationsAgree, RowsAreOwn, LedgerIsRecorded, Recorded
<1>5. PairsAreTangled' /\ RequestsAreAhead'
  BY <1>1 DEF MaterializationInv, PairsAreTangled, RequestsAreAhead, Active, Of, Recorded
<1> QED BY <1>3, <1>4, <1>5 DEF MaterializationInv

LEMMA AskStep ==
  ASSUME MaterializationInv, NEW r \in Requests, NEW p \in Proposals, NEW k \in IdempotencyKeys,
         Ask(r, p, k)
  PROVE  MaterializationInv'
<1> DEFINE new == [at |-> "summary", proposal |-> p, key |-> k, blocked |-> decision[p] # "reviewed"]
           with == {q \in Proposals : <<p, q>> \in Overlaps /\ \E o \in Requests : Active(o) /\ Of(o) = q}
<1>1. /\ req[r].at = "idle" /\ ~Recorded(p) /\ asked' = asked + 1 /\ asked < MaxRequests
      /\ req' = [req EXCEPT ![r] = new]
      /\ tangled' = tangled \cup with \cup (IF with = {} THEN {} ELSE {p})
      /\ UNCHANGED <<decision, rows, ledger, eligible, decided, faults>>
  BY DEF Ask, At, Active
<1>2. new \in Taken /\ new.at = "summary" /\ new.proposal = p
  <2>1. (decision[p] # "reviewed") \in BOOLEAN
    OBVIOUS
  <2>2. "summary" \in Steps
    BY DEF Steps
  <2> QED BY <2>1, <2>2, Zenon DEF Taken
<1> HIDE DEF new
<1>3. req'[r] = new /\ \A o \in Requests : o # r => req'[o] = req[o]
  BY <1>1, RequestType DEF MaterializationInv
<1>4. tangled \subseteq tangled' /\ tangled' \subseteq Proposals
  BY <1>1 DEF MaterializationInv, MaterializationTypeOK
<1>5. MaterializationTypeOK'
  <2>1. asked' \in 0..MaxRequests
    BY <1>1, MaterializationAssumption DEF MaterializationInv, MaterializationTypeOK
  <2>2. req' \in [Requests -> {Idle} \cup Taken]
    BY <1>1, <1>2 DEF MaterializationInv, MaterializationTypeOK, Taken
  <2> QED BY <1>1, <1>4, <2>1, <2>2 DEF MaterializationInv, MaterializationTypeOK, Taken
<1>6. ASSUME NEW o \in Requests, o # r, Active(o), <<p, Of(o)>> \in Overlaps
      PROVE  p \in tangled' /\ Of(o) \in tangled'
  <2>1. Of(o) \in Proposals
    BY <1>6, RequestType DEF MaterializationInv, Taken, Of
  <2>2. Of(o) \in with
    BY <1>6, <2>1
  <2> HIDE DEF with
  <2> QED BY <1>1, <2>2
<1> HIDE DEF with
<1>7. PairsAreTangled'
  <2> SUFFICES ASSUME NEW x \in Requests, NEW o \in Requests, x # o,
                      req'[x].at # "idle", req'[o].at # "idle",
                      <<req'[x].proposal, req'[o].proposal>> \in Overlaps
               PROVE  req'[x].proposal \in tangled'
    BY DEF PairsAreTangled, Active, Of
  <2>1. CASE x # r /\ o # r
    BY <1>3, <1>4, <2>1 DEF MaterializationInv, PairsAreTangled, Active, Of
  <2>2. CASE x = r
    BY <1>2, <1>3, <1>6, <2>2 DEF Active, Of
  <2>3. CASE o = r
    <3>1. <<p, req[x].proposal>> \in Overlaps /\ req'[x] = req[x]
      <4>1. req'[x] = req[x] /\ <<req[x].proposal, p>> \in Overlaps
        BY <1>2, <1>3, <2>3
      <4>2. <<req[x].proposal, p>>[1] = req[x].proposal /\ <<req[x].proposal, p>>[2] = p
        OBVIOUS
      <4> QED BY <4>1, <4>2, MaterializationAssumption
    <3> QED BY <1>6, <2>3, <3>1 DEF Active, Of
  <2> QED BY <2>1, <2>2, <2>3
<1>8. MaterializationsAgree' /\ RowsAreOwn' /\ LedgerIsRecorded'
  BY <1>1, <1>4 DEF MaterializationInv, MaterializationsAgree, RowsAreOwn, LedgerIsRecorded, Recorded
<1>9. RequestsAreAhead'
  <2>1. ASSUME NEW o \in Requests, o # r
        PROVE  /\ req'[o].at \in {"succeeded", "publish"} => req'[o].proposal \in ledger
               /\ req'[o].at # "idle" /\ req'[o].proposal \notin tangled' =>
                    /\ req'[o].at \in Unwritten => ~Recorded(req'[o].proposal)
                    /\ req'[o].at \in {"running", "write"} =>
                         \A q \in ledger : <<req'[o].proposal, q>> \notin Overlaps
                    /\ req'[o].at = "write" =>
                         /\ Recorded(req'[o].proposal)
                         /\ \A i \in IdempotencyKeys :
                              rows[i] # NoRow /\ rows[i].proposal = req'[o].proposal =>
                                rows[i].status = "running"
    BY <1>3, <1>4, <2>1 DEF MaterializationInv, RequestsAreAhead, Active, Of
  <2>2. req'[r].at = "summary" /\ req'[r].proposal = p
    BY <1>2, <1>3
  <2> QED BY <1>1, <2>1, <2>2 DEF RequestsAreAhead, Active, Of, Recorded
<1> QED BY <1>5, <1>7, <1>8, <1>9 DEF MaterializationInv

LEMMA CheckStep ==
  ASSUME MaterializationInv, NEW r \in Requests,
         Summarize(r) \/ Preflight(r) \/ PublishEligible(r) \/ Break(r)
  PROVE  MaterializationInv'
<1>0. /\ asked \in 0..MaxRequests /\ decided \in 0..MaxDecisions /\ faults \in 0..MaxFaults
      /\ eligible \subseteq ledger /\ MaxFaults \in Nat
  BY MaterializationAssumption DEF MaterializationInv, MaterializationTypeOK, MaterializationsAgree
<1>1. Idle.at = "idle"
  BY DEF Idle
<1>2. CASE Summarize(r)
  <2> DEFINE b == req[r].blocked \/ \E q \in Proposals : decision[q] = "proposed"
             new == [req[r] EXCEPT !.at = "signals", !.blocked = b]
  <2>1. /\ req[r].at = "summary" /\ req' = [req EXCEPT ![r] = new]
        /\ UNCHANGED <<decision, rows, ledger, eligible, tangled, asked, decided, faults>>
    BY <1>2 DEF Summarize, At, countersVars
  <2>2. req[r] \in Taken /\ b \in BOOLEAN
    BY <1>1, <2>1, RequestType DEF MaterializationInv
  <2> HIDE DEF b
  <2>3. new \in Taken /\ new.at = "signals" /\ new.proposal = Of(r)
    BY <2>2 DEF Taken, Steps, Of
  <2> HIDE DEF new
  <2> QED BY <1>0, <2>1, <2>3, MoveStep DEF Active, Unwritten
<1>3. CASE Preflight(r)
  <2> DEFINE st == IF DuplicateSignals(Of(r)) # {} THEN "duplicate"
                   ELSE IF req[r].blocked THEN "blocked" ELSE "running"
             new == [req[r] EXCEPT !.at = st]
  <2>1. /\ req[r].at = "signals" /\ req' = [req EXCEPT ![r] = new]
        /\ UNCHANGED <<decision, rows, ledger, eligible, tangled, asked, decided, faults>>
    BY <1>3 DEF Preflight, Step, At, countersVars
  <2>2. req[r] \in Taken
    BY <1>1, <2>1, RequestType DEF MaterializationInv
  <2>3. st \in {"duplicate", "blocked", "running"} /\ (st = "running" => DuplicateSignals(Of(r)) = {})
    OBVIOUS
  <2>4. st = "running" => \A q \in ledger : <<Of(r), q>> \notin Overlaps
    BY <2>3 DEF DuplicateSignals
  <2> HIDE DEF st
  <2>5. new \in Taken /\ new.at = st /\ new.proposal = Of(r)
    BY <2>2, <2>3 DEF Taken, Steps, Of
  <2> HIDE DEF new
  <2> QED BY <1>0, <2>1, <2>3, <2>4, <2>5, MoveStep DEF Active, Unwritten
<1>4. CASE PublishEligible(r)
  <2>1. /\ req[r].at = "publish" /\ req' = [req EXCEPT ![r] = Idle]
        /\ eligible' \in {eligible, eligible \cup {Of(r)}}
        /\ UNCHANGED <<decision, rows, ledger, tangled, asked, decided>>
    BY <1>4 DEF PublishEligible, At, End
  <2>2. faults' \in 0..MaxFaults
    BY <1>0, <1>4 DEF PublishEligible, Fault
  <2>3. Of(r) \in ledger
    BY <2>1 DEF MaterializationInv, RequestsAreAhead
  <2> QED BY <1>0, <1>1, <2>1, <2>2, <2>3, MoveStep DEF Active, Unwritten
<1>5. CASE Break(r)
  <2>1. /\ req[r].at # "idle" /\ req' = [req EXCEPT ![r] = Idle]
        /\ UNCHANGED <<decision, rows, ledger, eligible, tangled, asked, decided>>
    BY <1>5 DEF Break, At, End
  <2>2. faults' \in 0..MaxFaults
    BY <1>0, <1>5 DEF Break, Fault
  <2> QED BY <1>0, <1>1, <2>1, <2>2, MoveStep DEF Active, Unwritten
<1> QED BY <1>2, <1>3, <1>4, <1>5

LEMMA WriteStep ==
  ASSUME MaterializationInv, NEW r \in Requests, WriteSignal(r) \/ WriteFails(r)
  PROVE  MaterializationInv'
<1>1. PICK st \in {"succeeded", "failed"} :
        /\ req[r].at = "write" /\ req' = [req EXCEPT ![r].at = st]
        /\ ledger' \in {ledger, ledger \cup {Of(r)}} /\ (st = "succeeded" => Of(r) \in ledger')
        /\ UNCHANGED <<decision, rows, eligible, tangled, asked, decided>>
        /\ faults' = faults \/ Fault
  BY DEF WriteSignal, WriteFails, At, Step, countersVars
<1> DEFINE new == [req[r] EXCEPT !.at = st]
<1>2. req' = [req EXCEPT ![r] = new] /\ req[r] \in Taken
  BY <1>1, RequestType DEF MaterializationInv, Active
<1>3. new \in Taken /\ new.at = st /\ new.proposal = Of(r) /\ Of(r) \in Proposals
  BY <1>2 DEF Taken, Steps, Of
<1> HIDE DEF new
<1>4. req'[r] = new /\ \A o \in Requests : o # r => req'[o] = req[o]
  BY <1>2, RequestType DEF MaterializationInv
<1>5. /\ Of(r) \notin tangled =>
           /\ Recorded(Of(r))
           /\ \A q \in ledger : <<Of(r), q>> \notin Overlaps /\ <<q, Of(r)>> \notin Overlaps
           /\ \A k \in IdempotencyKeys :
                rows[k] # NoRow /\ rows[k].proposal = Of(r) => rows[k].status = "running"
  <2>1. \A q : <<q, Of(r)>> \in Overlaps => <<Of(r), q>> \in Overlaps
    <3> TAKE q
    <3>1. <<q, Of(r)>>[1] = q /\ <<q, Of(r)>>[2] = Of(r)
      OBVIOUS
    <3> QED BY <3>1, MaterializationAssumption
  <2> QED BY <1>1, <2>1 DEF MaterializationInv, RequestsAreAhead, Active
<1>6. MaterializationTypeOK'
  <2>1. faults' \in 0..MaxFaults
    BY <1>1, MaterializationAssumption DEF Fault, MaterializationInv, MaterializationTypeOK
  <2> QED BY <1>1, <1>2, <1>3, <2>1 DEF MaterializationInv, MaterializationTypeOK, Taken
<1>7. PairsAreTangled'
  BY <1>1, <1>2, <1>3, PairsKept DEF Active
<1>8. RowsAreOwn' /\ LedgerIsRecorded'
  BY <1>1, <1>5 DEF MaterializationInv, RowsAreOwn, LedgerIsRecorded, Recorded
<1>9. MaterializationsAgree'
  <2>1. ASSUME NEW p \in ledger' \ tangled', NEW q \in ledger' \ tangled', <<p, q>> \in Overlaps
        PROVE  p = q
    <3>1. /\ p \notin tangled /\ q \notin tangled
          /\ p \in ledger \/ p = Of(r)
          /\ q \in ledger \/ q = Of(r)
      BY <1>1
    <3>2. CASE p \in ledger /\ q \in ledger
      BY <2>1, <3>1, <3>2 DEF MaterializationInv, MaterializationsAgree
    <3>3. CASE p = Of(r) /\ q \in ledger
      BY <1>5, <2>1, <3>1, <3>3
    <3>4. CASE p \in ledger /\ q = Of(r)
      BY <1>5, <2>1, <3>1, <3>4
    <3> QED BY <3>1, <3>2, <3>3, <3>4
  <2>2. ASSUME NEW k \in IdempotencyKeys, rows[k] # NoRow, rows[k].status \in {"blocked", "duplicate"}
        PROVE  rows[k].proposal \notin ledger' \ tangled'
    BY <1>1, <1>5, <2>2 DEF MaterializationInv, MaterializationsAgree
  <2>3. eligible' \subseteq ledger' /\ \A k \in IdempotencyKeys :
          rows[k] # NoRow /\ rows[k].status = "succeeded" => rows[k].proposal \in ledger'
    BY <1>1 DEF MaterializationInv, MaterializationsAgree
  <2> QED BY <1>1, <2>1, <2>2, <2>3 DEF MaterializationsAgree
<1>10. RequestsAreAhead'
  <2>1. ASSUME NEW o \in Requests, o # r
        PROVE  /\ req'[o].at \in {"succeeded", "publish"} => req'[o].proposal \in ledger'
               /\ req'[o].at # "idle" /\ req'[o].proposal \notin tangled =>
                    /\ req'[o].at \in Unwritten => ~Recorded(req'[o].proposal)
                    /\ req'[o].at \in {"running", "write"} =>
                         \A q \in ledger' : <<req'[o].proposal, q>> \notin Overlaps
                    /\ req'[o].at = "write" =>
                         /\ Recorded(req'[o].proposal)
                         /\ \A i \in IdempotencyKeys :
                              rows[i] # NoRow /\ rows[i].proposal = req'[o].proposal =>
                                rows[i].status = "running"
    <3>1. req[o].at # "idle" /\ req[o].proposal \notin tangled => <<req[o].proposal, Of(r)>> \notin Overlaps
      BY <1>1, <2>1 DEF MaterializationInv, PairsAreTangled, Active, Of
    <3> QED BY <1>1, <1>4, <2>1, <3>1 DEF MaterializationInv, RequestsAreAhead, Active, Of
  <2>2. req'[r].at = st /\ req'[r].proposal = Of(r)
    BY <1>3, <1>4
  <2> QED BY <1>1, <2>1, <2>2 DEF RequestsAreAhead, Active, Of, Recorded, Unwritten
<1> QED BY <1>6, <1>7, <1>8, <1>9, <1>10 DEF MaterializationInv

-----------------------------------------------------------------------------
(* What the upsert leaves behind: a new row, unless the request ends.      *)
LEMMA UpsertFacts ==
  ASSUME MaterializationInv, NEW r \in Requests, NEW status \in RowStatuses, NEW onto,
         req[r] \in Taken, req[r].at # "idle", onto = "idle" \/ onto \in Steps,
         Upsert(r, status, onto),
         ~(req' = [req EXCEPT ![r] = Idle] /\ UNCHANGED <<rows, tangled>>)
  PROVE  \E k \in IdempotencyKeys, row \in Rows, new \in Taken \cup {Idle} :
           /\ rows' = [rows EXCEPT ![k] = row]
           /\ row.proposal = Of(r) /\ row.status = status
           /\ rows[k] # NoRow => row.id = rows[k].id
           /\ tangled \subseteq tangled' /\ tangled' \subseteq Proposals
           /\ rows[k] # NoRow /\ rows[k].proposal # Of(r) =>
                {Of(r), rows[k].id, rows[k].proposal} \subseteq tangled'
           /\ row.id # Of(r) => row.id \in tangled' /\ Of(r) \in tangled'
           /\ req' = [req EXCEPT ![r] = new] /\ new.at = onto
           /\ new = Idle \/ (new \in Taken /\ new.proposal = Of(r))
<1> DEFINE k == req[r].key
           p == Of(r)
           row == [id |-> IF rows[k] = NoRow THEN p ELSE rows[k].id, proposal |-> p, status |-> status]
           new == IF onto = "idle" THEN Idle ELSE [req[r] EXCEPT !.at = onto]
<1>1. k \in IdempotencyKeys /\ p \in Proposals /\ MaterializationTypeOK
  BY DEF Taken, Of, MaterializationInv
<1>2. /\ rows' = [rows EXCEPT ![k] = row]
      /\ tangled' = tangled \cup (IF rows[k] # NoRow /\ rows[k].proposal # p
                                   THEN {p, rows[k].id, rows[k].proposal} ELSE {})
      /\ req' = [req EXCEPT ![r] = new]
  BY DEF Upsert, End, Step
<1>3. rows[k] # NoRow => rows[k].id \in Proposals /\ rows[k].proposal \in Proposals
  BY <1>1, RowType
<1>4. /\ row \in Rows /\ row.proposal = p /\ row.status = status
      /\ row.id = IF rows[k] = NoRow THEN p ELSE rows[k].id
  BY <1>1, <1>3 DEF Rows
<1>5. new.at = onto /\ (new = Idle \/ (new \in Taken /\ new.proposal = p))
  BY DEF Idle, Taken, Of
<1> HIDE DEF row, new
<1>6. row.id # p => row.id \in tangled' /\ p \in tangled'
  <2>1. ASSUME row.id # p PROVE rows[k] # NoRow /\ row.id = rows[k].id
    BY <1>4, <2>1
  <2>2. rows[k] # NoRow /\ rows[k].id # rows[k].proposal =>
          rows[k].id \in tangled /\ rows[k].proposal \in tangled
    BY <1>1 DEF MaterializationInv, RowsAreOwn
  <2> QED BY <1>2, <2>1, <2>2
<1>7. tangled \subseteq tangled' /\ tangled' \subseteq Proposals
  BY <1>1, <1>2, <1>3 DEF MaterializationTypeOK
<1> HIDE DEF k, p
<1>8. rows[k] # NoRow /\ rows[k].proposal # p => {p, rows[k].id, rows[k].proposal} \subseteq tangled'
  BY <1>2
<1> USE DEF p
<1> QED BY <1>1, <1>2, <1>4, <1>5, <1>6, <1>7, <1>8

LEMMA RecordStep ==
  ASSUME MaterializationInv, NEW r \in Requests, NEW status \in RowStatuses, NEW onto,
         Record(r, status, onto),
         \/ status \in {"duplicate", "blocked", "failed"} /\ onto = "idle"
         \/ status = "running" /\ onto = "write"
         \/ status = "succeeded" /\ onto = "publish"
  PROVE  MaterializationInv'
<1> DEFINE p == Of(r)
<1>1. /\ req[r].at = status /\ Upsert(r, status, onto)
      /\ UNCHANGED <<decision, ledger, eligible, asked, decided, faults>>
  BY DEF Record, At, countersVars
<1>2. /\ Active(r) /\ req[r] \in Taken /\ (onto = "idle" \/ onto \in Steps)
      /\ eligible \subseteq ledger
  <2>1. Idle.at = "idle"
    BY DEF Idle
  <2> QED BY <1>1, <2>1, RequestType DEF Active, Steps, RowStatuses, MaterializationInv,
      MaterializationsAgree
<1>3. CASE req' = [req EXCEPT ![r] = Idle] /\ UNCHANGED <<rows, tangled>>
  <2>1. Idle.at = "idle"
    BY DEF Idle
  <2> QED BY <1>1, <1>2, <1>3, <2>1, MoveStep DEF MaterializationInv, MaterializationTypeOK, Unwritten
<1>4. CASE ~(req' = [req EXCEPT ![r] = Idle] /\ UNCHANGED <<rows, tangled>>)
  <2>1. PICK k \in IdempotencyKeys, row \in Rows, new \in Taken \cup {Idle} :
           /\ rows' = [rows EXCEPT ![k] = row]
           /\ row.proposal = p /\ row.status = status
           /\ rows[k] # NoRow => row.id = rows[k].id
           /\ tangled \subseteq tangled' /\ tangled' \subseteq Proposals
           /\ rows[k] # NoRow /\ rows[k].proposal # p =>
                {p, rows[k].id, rows[k].proposal} \subseteq tangled'
           /\ row.id # p => row.id \in tangled' /\ p \in tangled'
           /\ req' = [req EXCEPT ![r] = new] /\ new.at = onto
           /\ new = Idle \/ (new \in Taken /\ new.proposal = p)
    BY <1>1, <1>2, <1>4, UpsertFacts DEF Active
  <2>2. /\ rows'[k] = row /\ row # NoRow /\ row.id \in Proposals
        /\ \A i \in IdempotencyKeys : i # k => rows'[i] = rows[i]
    BY <2>1, MaterializationAssumption DEF MaterializationInv, MaterializationTypeOK, Rows, NoRow
  <2>3. req'[r] = new /\ \A o \in Requests : o # r => req'[o] = req[o]
    BY <2>1, RequestType DEF MaterializationInv
  <2>4. \A x \in Proposals : Recorded(x) => Recorded(x)'
    <3> SUFFICES ASSUME NEW x \in Proposals, NEW i \in IdempotencyKeys, rows[i].id = x
                 PROVE  rows'[i].id = x
      BY DEF Recorded
    <3>1. rows[i] # NoRow
      BY RowType DEF MaterializationInv
    <3> QED BY <2>1, <2>2, <3>1
  <2>5. p \notin tangled' => \E i \in IdempotencyKeys : rows'[i].id = p
    BY <2>1, <2>2
  <2>7. p \notin tangled' =>
          /\ status \in Unwritten => ~Recorded(p)
          /\ status = "running" => \A q \in ledger : <<p, q>> \notin Overlaps
    BY <1>1, <1>2, <2>1 DEF MaterializationInv, RequestsAreAhead, Active
  <2>8. status = "succeeded" => p \in ledger
    BY <1>1 DEF MaterializationInv, RequestsAreAhead
  <2>9. p \in Proposals /\ \A x \in ledger : x \in Proposals
    BY <1>2 DEF Taken, Of, MaterializationInv, MaterializationTypeOK
  <2> HIDE DEF p
  <2>10. MaterializationTypeOK'
    BY <1>1, <2>1 DEF MaterializationInv, MaterializationTypeOK, Taken
  <2>11. PairsAreTangled'
    <3>1. new.at = "idle" \/ new.proposal = Of(r)
      BY <2>1 DEF p, Idle
    <3> QED BY <1>2, <2>1, <3>1, PairsKept
  <2>12. RowsAreOwn'
    BY <2>1, <2>2 DEF MaterializationInv, RowsAreOwn
  <2>13. LedgerIsRecorded'
    BY <1>1, <2>1, <2>4, <2>9 DEF MaterializationInv, LedgerIsRecorded
  <2>14. MaterializationsAgree'
    <3>1. status \in {"blocked", "duplicate"} => p \notin ledger \ tangled'
      BY <2>1, <2>7 DEF MaterializationInv, LedgerIsRecorded, Unwritten
    <3> QED BY <1>1, <2>1, <2>2, <2>8, <3>1 DEF MaterializationInv, MaterializationsAgree
  <2>15. RequestsAreAhead'
    <3>1. ASSUME NEW o \in Requests, o # r
          PROVE  /\ req'[o].at \in {"succeeded", "publish"} => req'[o].proposal \in ledger'
                 /\ req'[o].at # "idle" /\ req'[o].proposal \notin tangled' =>
                      /\ req'[o].at \in Unwritten => ~(\E i \in IdempotencyKeys : rows'[i].id = req'[o].proposal)
                      /\ req'[o].at \in {"running", "write"} =>
                           \A q \in ledger' : <<req'[o].proposal, q>> \notin Overlaps
                      /\ req'[o].at = "write" =>
                           /\ \E i \in IdempotencyKeys : rows'[i].id = req'[o].proposal
                           /\ \A i \in IdempotencyKeys :
                                rows'[i] # NoRow /\ rows'[i].proposal = req'[o].proposal =>
                                  rows'[i].status = "running"
      <4> DEFINE x == req[o].proposal
      <4>1. req'[o] = req[o]
        BY <2>3, <3>1
      <4>2. req[o].at \in {"succeeded", "publish"} => x \in ledger'
        BY <1>1 DEF MaterializationInv, RequestsAreAhead, Of
      <4>3. ASSUME req[o].at # "idle", x \notin tangled'
            PROVE  /\ x \in Proposals /\ x # p
                   /\ req[o].at \in Unwritten => ~Recorded(x)
                   /\ req[o].at \in {"running", "write"} => \A q \in ledger : <<x, q>> \notin Overlaps
                   /\ req[o].at = "write" =>
                        /\ Recorded(x)
                        /\ \A i \in IdempotencyKeys :
                              rows[i] # NoRow /\ rows[i].proposal = x => rows[i].status = "running"
        <5>1. x \notin tangled
          BY <2>1, <4>3
        <5>2. x \in Proposals
          BY <4>3, RequestType DEF MaterializationInv, Active, Taken
        <5>3. <<x, Of(r)>> \notin Overlaps
          BY <1>2, <3>1, <4>3, <5>1 DEF MaterializationInv, PairsAreTangled, Active, Of
        <5>4. x # p
          BY <5>2, <5>3, MaterializationAssumption DEF p
        <5> QED BY <4>3, <5>1, <5>2, <5>4 DEF MaterializationInv, RequestsAreAhead, Active, Of
      <4>4. ASSUME req[o].at # "idle", x \notin tangled' PROVE row.id # x
        BY <2>1, <4>3, <4>4
      <4> HIDE DEF x
      <4>5. ASSUME req[o].at # "idle", x \notin tangled'
            PROVE  /\ req[o].at \in Unwritten => ~(\E i \in IdempotencyKeys : rows'[i].id = x)
                   /\ req[o].at = "write" =>
                        /\ \E i \in IdempotencyKeys : rows'[i].id = x
                        /\ \A i \in IdempotencyKeys :
                              rows'[i] # NoRow /\ rows'[i].proposal = x => rows'[i].status = "running"
        <5>1. Recorded(x)' <=> \E i \in IdempotencyKeys : rows'[i].id = x
          BY <4>1 DEF Recorded, x
        <5>2. Recorded(x) => \E i \in IdempotencyKeys : rows'[i].id = x
          <6> SUFFICES ASSUME NEW i \in IdempotencyKeys, rows[i].id = x PROVE rows'[i].id = x
            BY DEF Recorded
          <6>1. rows[i] # NoRow
            BY <4>3, <4>5, RowType DEF MaterializationInv
          <6> QED BY <2>1, <2>2, <6>1
        <5>3. (\E i \in IdempotencyKeys : rows'[i].id = x) => Recorded(x)
          BY <2>2, <4>4, <4>5 DEF Recorded
        <5> QED BY <2>1, <2>2, <4>3, <4>5, <5>2, <5>3
      <4> QED BY <1>1, <4>1, <4>2, <4>3, <4>5 DEF x
    <3>2. CASE onto = "idle"
      BY <2>1, <2>3, <3>1, <3>2 DEF RequestsAreAhead, Active, Of, Recorded, Unwritten
    <3>3. CASE status = "running" /\ onto = "write"
      <4>1. req'[r].at = "write" /\ req'[r].proposal = p
        BY <2>1, <2>3, <3>3 DEF Idle
      <4>2. ASSUME p \notin tangled', NEW i \in IdempotencyKeys, rows'[i] # NoRow, rows'[i].proposal = p
            PROVE  rows'[i].status = "running"
        <5>1. CASE i = k
          BY <2>1, <2>2, <3>3, <5>1
        <5>2. CASE i # k
          <6>1. rows[i] # NoRow /\ rows[i].proposal = p /\ p \notin tangled
            BY <2>1, <2>2, <4>2, <5>2
          <6>2. rows[i].id = p
            BY <6>1 DEF MaterializationInv, RowsAreOwn
          <6> QED BY <2>7, <3>3, <4>2, <6>2 DEF Recorded, Unwritten
        <5> QED BY <5>1, <5>2
      <4>3. p \notin tangled' => \A q \in ledger' : <<p, q>> \notin Overlaps
        BY <1>1, <2>7, <3>3
      <4> QED BY <2>5, <3>1, <4>1, <4>2, <4>3 DEF RequestsAreAhead, Active, Of, Recorded, Unwritten
    <3>4. CASE status = "succeeded" /\ onto = "publish"
      <4>1. req'[r].at = "publish" /\ req'[r].proposal = p /\ p \in ledger'
        BY <1>1, <2>1, <2>3, <2>8, <3>4 DEF Idle
      <4> QED BY <3>1, <4>1 DEF RequestsAreAhead, Active, Of, Recorded, Unwritten
    <3> QED BY <3>2, <3>3, <3>4
  <2> QED BY <2>10, <2>11, <2>12, <2>13, <2>14, <2>15 DEF MaterializationInv
<1> QED BY <1>3, <1>4

LEMMA MaterializationStep ==
  MaterializationInv /\ [MaterializationNext]_materializationVars => MaterializationInv'
<1> SUFFICES ASSUME MaterializationInv, [MaterializationNext]_materializationVars
             PROVE  MaterializationInv'
  OBVIOUS
<1>1. ASSUME NEW r \in Requests,
             RecordDuplicate(r) \/ RecordBlocked(r) \/ RecordRunning(r) \/ RecordFailed(r) \/ RecordSucceeded(r)
      PROVE  MaterializationInv'
  BY <1>1, RecordStep DEF RecordDuplicate, RecordBlocked, RecordRunning, RecordFailed,
     RecordSucceeded, RowStatuses
<1>2. CASE UNCHANGED materializationVars
  <2>1. UNCHANGED <<decision, rows, ledger, eligible, req, tangled, asked, decided, faults>>
    BY <1>2 DEF materializationVars, countersVars
  <2>2. MaterializationTypeOK' /\ MaterializationsAgree'
    BY <2>1 DEF MaterializationInv, MaterializationTypeOK, MaterializationsAgree
  <2> QED BY <2>1, <2>2 DEF MaterializationInv, PairsAreTangled, RowsAreOwn, LedgerIsRecorded,
      RequestsAreAhead, Recorded, Active, Of
<1> QED BY <1>1, <1>2, DecisionStep, AskStep, CheckStep, WriteStep DEF MaterializationNext

(* Every step of a request and every row keeps its type.                   *)
THEOREM MaterializationTypes ==
  MaterializationInit /\ [][MaterializationNext]_materializationVars => []MaterializationTypeOK
<1>1. MaterializationInv => MaterializationTypeOK
  BY DEF MaterializationInv
<1> QED BY <1>1, MaterializationStart, MaterializationStep, PTL

(* Rows, signals and eligible events agree, for any proposals, overlaps,   *)
(* client keys, concurrent requests and failures.                          *)
THEOREM MaterializationSafety ==
  MaterializationInit /\ [][MaterializationNext]_materializationVars => []MaterializationsAgree
<1>1. MaterializationInv => MaterializationsAgree
  BY DEF MaterializationInv
<1> QED BY <1>1, MaterializationStart, MaterializationStep, PTL
=============================================================================
