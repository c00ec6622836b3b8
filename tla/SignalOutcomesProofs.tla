------------------------- MODULE SignalOutcomesProofs -------------------------
(***************************************************************************)
(* TLAPS proofs about SignalOutcomes, for any days, horizons and bars and  *)
(* any number of evaluations, builders' stops and overlapping runs.        *)
(***************************************************************************)
EXTENDS SignalOutcomes, FiniteSetTheorems, TLAPS

Evaluated == {d \in Origins : evaluation[d] # "none"}

(* More evaluations than evaluated states: some state was evaluated twice. *)
Turned == verdicts > Cardinality(Evaluated)

(* The verdict a source was read from is still the row's, unless verdicts  *)
(* have turned since.                                                      *)
Current(s) ==
  s.type = "hypothesis_evaluation" => evaluation[s.origin] = s.direction \/ Turned

(* A row, its window left aside.                                           *)
Row(o) ==
  /\ o = [source |-> o.source, horizon |-> o.horizon, status |-> o.status,
          figures |-> o.figures, window |-> o.window]
  /\ o.source \in Source
  /\ o.status = "matured" <=> o.figures # "none"

SourceInv ==
  /\ evaluation \in [Origins -> {"none"} \cup Verdicts]
  /\ verdicts \in Nat /\ verdicts >= Cardinality(Evaluated)
  /\ opportunities \subseteq Origins \X Directions /\ building \subseteq Origins \X Directions

RunInv ==
  /\ at \in [OutcomeRuns -> {"idle", "opportunities", "events", "write"}]
  /\ sources \in [OutcomeRuns -> SUBSET Source]
  /\ batch = [r \in OutcomeRuns |-> batch[r]]
  /\ \A r \in OutcomeRuns :
       /\ at[r] = "write" => batch[r] # {}
       /\ \A s \in sources[r] : Current(s)
       /\ \A o \in batch[r] :
            Row(o) /\ Current(o.source) /\ o.figures \in {"none", o.source.direction}

(* The figures of a row fit its direction, or its verdict has turned.      *)
RowInv ==
  \A o \in outcomes :
    /\ Row(o) /\ Current(o.source)
    /\ \/ o.figures \in {"none", o.source.direction}
       \/ o.source.type = "hypothesis_evaluation" /\ Turned

Inv == SourceInv /\ RunInv /\ RowInv

-----------------------------------------------------------------------------
LEMMA SourceParts ==
  ASSUME NEW s \in Source
  PROVE  /\ s.type \in {"hypothesis_evaluation", "opportunity"}
         /\ s.origin \in Origins /\ s.direction \in Directions
  BY DEF Source

LEMMA EvaluatedIsFinite == IsFiniteSet(Origins) /\ IsFiniteSet(Evaluated)
<1>1. IsFiniteSet(Days)
  BY OutcomeAssumption, FS_Interval DEF Days
<1>2. IsFiniteSet(Origins)
  BY <1>1, OutcomeAssumption, FS_Subset
<1> QED BY <1>2, FS_Subset DEF Evaluated

LEMMA InitInv == OutcomeInit => Inv
<1> SUFFICES ASSUME OutcomeInit PROVE Inv
  OBVIOUS
<1> USE DEF OutcomeInit
<1>1. Evaluated = {}
  BY DEF Evaluated
<1>2. SourceInv
  BY <1>1, FS_EmptySet DEF SourceInv
<1>3. RunInv
  BY DEF RunInv
<1> QED BY <1>2, <1>3 DEF Inv, RowInv

(* Steps that write no evaluation leave what was read from them current.   *)
LEMMA SameVerdicts ==
  ASSUME evaluation' = evaluation, verdicts' = verdicts
  PROVE  /\ Evaluated' = Evaluated /\ (Turned' <=> Turned)
         /\ \A s : Current(s)' <=> Current(s)
  BY DEF Evaluated, Turned, Current

(* A second evaluation of a state turns the count, a first one finds no    *)
(* source read from it.                                                    *)
LEMMA VerdictCounts ==
  ASSUME SourceInv, NEW d \in Origins, NEW v \in Verdicts, EvaluateState(d, v)
  PROVE  /\ SourceInv' /\ (Turned => Turned')
         /\ \A s \in Source : Current(s) => Current(s)'
<1> USE DEF SourceInv
<1>1. /\ verdicts' = verdicts + 1 /\ evaluation' = [evaluation EXCEPT ![d] = v]
      /\ UNCHANGED <<opportunities, building>>
  BY DEF EvaluateState
<1>2. v # "none"
  BY DEF Verdicts, Directions
<1>3. Evaluated' = Evaluated \cup {d}
  BY <1>1, <1>2 DEF Evaluated
<1>4. IsFiniteSet(Evaluated) /\ Cardinality(Evaluated) \in Nat
  BY EvaluatedIsFinite, FS_CardinalityType
<1>5. Cardinality(Evaluated') = IF d \in Evaluated THEN Cardinality(Evaluated) ELSE Cardinality(Evaluated) + 1
  BY <1>3, <1>4, FS_AddElement
<1>6. SourceInv'
  BY <1>1, <1>4, <1>5
<1>7. Turned => Turned'
  BY <1>1, <1>4, <1>5 DEF Turned
<1>8. d \in Evaluated => Turned'
  BY <1>1, <1>4, <1>5 DEF Turned
<1>9. ASSUME NEW s \in Source, Current(s) PROVE Current(s)'
  <2> SUFFICES ASSUME s.type = "hypothesis_evaluation", ~Turned' PROVE evaluation'[s.origin] = s.direction
    BY DEF Current
  <2>1. evaluation[s.origin] = s.direction
    BY <1>7, <1>9 DEF Current
  <2>2. s.direction # "none" /\ s.origin \in Origins
    BY SourceParts DEF Directions
  <2>3. s.origin # d
    BY <1>8, <2>1, <2>2 DEF Evaluated
  <2> QED BY <1>1, <2>1, <2>2, <2>3
<1> QED BY <1>6, <1>7, <1>9

-----------------------------------------------------------------------------
(* What the upsert makes of a new row, and of each stored one.             *)
LEMMA UpsertKeeps ==
  ASSUME NEW new, Row(new), \A o \in outcomes : Row(o), outcomes' = Upserted(new)
  PROVE  /\ \A o \in outcomes : \E n \in outcomes' :
              /\ SameOutcome(n, o)
              /\ o.status = "matured" => n = o
              /\ o.status = "missing_price" => n.status # "pending"
         /\ \A n \in outcomes' :
              \/ n = new \/ n \in outcomes
              \/ \E o \in outcomes : SameOutcome(o, new) /\ n = [new EXCEPT !.source = o.source]
<1> DEFINE stored == {o \in outcomes : SameOutcome(o, new)}
           kept(o) == IF Overwrites(new, o) THEN [new EXCEPT !.source = o.source] ELSE o
<1>1. outcomes' = IF stored = {} THEN outcomes \cup {new}
                  ELSE (outcomes \ stored) \cup {kept(o) : o \in stored}
  BY DEF Upserted
<1>2. ASSUME NEW o \in outcomes
      PROVE  \E n \in outcomes' : /\ SameOutcome(n, o)
                                  /\ o.status = "matured" => n = o
                                  /\ o.status = "missing_price" => n.status # "pending"
  <2>1. CASE o \in outcomes'
    BY <2>1 DEF SameOutcome
  <2>2. CASE o \notin outcomes'
    <3>1. o \in stored /\ kept(o) \in outcomes' /\ kept(o) # o
      BY <1>1, <2>2
    <3>2. Overwrites(new, o) /\ kept(o) = [new EXCEPT !.source = o.source]
      BY <3>1
    <3>3. /\ kept(o).source = o.source /\ kept(o).horizon = new.horizon /\ kept(o).status = new.status
      BY <3>2 DEF Row
    <3>4. SameOutcome(kept(o), o)
      BY <3>1, <3>3 DEF SameOutcome
    <3> QED BY <3>1, <3>2, <3>3, <3>4 DEF Overwrites
  <2> QED BY <2>1, <2>2
<1>3. ASSUME NEW n \in outcomes'
      PROVE  \/ n = new \/ n \in outcomes
             \/ \E o \in outcomes : SameOutcome(o, new) /\ n = [new EXCEPT !.source = o.source]
  BY <1>1, <1>3
<1> QED BY <1>2, <1>3

(* The rewritten row is a row; its figures fit, or the verdict has turned. *)
LEMMA UpsertKeepsRowInv ==
  ASSUME RowInv, UNCHANGED <<evaluation, verdicts>>,
         NEW new, Row(new), Current(new.source), new.figures \in {"none", new.source.direction},
         outcomes' = Upserted(new)
  PROVE  RowInv'
<1> SUFFICES ASSUME NEW n \in outcomes'
             PROVE  /\ Row(n) /\ Current(n.source)
                    /\ \/ n.figures \in {"none", n.source.direction}
                       \/ n.source.type = "hypothesis_evaluation" /\ Turned
  <2>1. (\A s : Current(s)' <=> Current(s)) /\ (Turned' <=> Turned)
    BY SameVerdicts
  <2> QED BY <2>1 DEF RowInv, Row
<1>1. \/ n = new \/ n \in outcomes
      \/ \E o \in outcomes : SameOutcome(o, new) /\ n = [new EXCEPT !.source = o.source]
  BY UpsertKeeps DEF RowInv
<1>2. ASSUME NEW o \in outcomes, SameOutcome(o, new), n = [new EXCEPT !.source = o.source]
      PROVE  /\ Row(n) /\ Current(n.source)
             /\ \/ n.figures \in {"none", n.source.direction}
                \/ n.source.type = "hypothesis_evaluation" /\ Turned
  <2>1. Row(o) /\ Current(o.source)
    BY DEF RowInv
  <2>2. n = [source |-> o.source, horizon |-> new.horizon, status |-> new.status,
             figures |-> new.figures, window |-> new.window]
    BY <1>2 DEF Row
  <2>3. Row(n) /\ n.source = o.source /\ n.figures = new.figures
    BY <2>1, <2>2 DEF Row
  <2>4. n.figures \in {"none", n.source.direction} \/ new.source.direction # o.source.direction
    BY <2>3
  <2>5. new.source.direction # o.source.direction => n.source.type = "hypothesis_evaluation" /\ Turned
    <3> SUFFICES ASSUME new.source.direction # o.source.direction
                 PROVE  n.source.type = "hypothesis_evaluation" /\ Turned
      OBVIOUS
    <3>1. /\ o.source.type = new.source.type /\ o.source.origin = new.source.origin
          /\ o.source.type # "opportunity"
      BY <1>2 DEF SameOutcome
    <3>2. o.source.type = "hypothesis_evaluation"
      BY <2>1, <3>1, SourceParts DEF Row
    <3> QED BY <2>1, <2>3, <3>1, <3>2 DEF Current
  <2> QED BY <2>1, <2>3, <2>4, <2>5
<1> QED BY <1>1, <1>2 DEF RowInv

-----------------------------------------------------------------------------
(* A run's step that writes no row keeps the rows.                         *)
LEMMA RowsStay ==
  ASSUME RowInv, UNCHANGED <<evaluation, verdicts, outcomes>>
  PROVE  RowInv'
  BY SameVerdicts DEF RowInv, Row

LEMMA SourcesOfType ==
  ASSUME NEW type \in {"hypothesis_evaluation", "opportunity"},
         NEW pairs \in SUBSET (Origins \X Directions), NEW cut
  PROVE  \A s \in SourcesOf(type, pairs, cut) :
           s \in Source /\ s.type = type /\ <<s.origin, s.direction>> \in pairs
  BY DEF SourcesOf, Source

LEMMA ListEvaluationsKeeps ==
  ASSUME Inv, NEW r \in OutcomeRuns, NEW cut \in Days, ListEvaluations(r, cut)
  PROVE  Inv'
<1> USE DEF Inv
<1>1. /\ UNCHANGED <<evaluation, verdicts, opportunities, building, outcomes, batch>>
      /\ at' = [at EXCEPT ![r] = "opportunities"]
      /\ sources' = [sources EXCEPT ![r] = SourcesOf("hypothesis_evaluation", Triggered, cut)]
  BY DEF ListEvaluations, sourceVars
<1>2. SourceInv' /\ RowInv'
  BY <1>1, SameVerdicts, RowsStay DEF SourceInv
<1>3. Triggered \in SUBSET (Origins \X Directions)
  BY DEF Triggered
<1>4. ASSUME NEW s \in SourcesOf("hypothesis_evaluation", Triggered, cut) PROVE s \in Source /\ Current(s)
  <2>1. s \in Source /\ <<s.origin, s.direction>> \in Triggered
    BY <1>3, SourcesOfType
  <2> QED BY <2>1 DEF Triggered, Current
<1>5. RunInv'
  BY <1>1, <1>4, SameVerdicts DEF RunInv, Row
<1> QED BY <1>2, <1>5

LEMMA ListOpportunitiesKeeps ==
  ASSUME Inv, NEW r \in OutcomeRuns, ListOpportunities(r)
  PROVE  Inv'
<1> USE DEF Inv
<1>1. /\ UNCHANGED <<evaluation, verdicts, opportunities, building, outcomes, batch>>
      /\ at' = [at EXCEPT ![r] = "events"]
      /\ sources' = [sources EXCEPT ![r] = @ \cup SourcesOf("opportunity", opportunities, asOf[r])]
  BY DEF ListOpportunities, sourceVars
<1>2. SourceInv' /\ RowInv'
  BY <1>1, SameVerdicts, RowsStay DEF SourceInv
<1>3. ASSUME NEW s \in SourcesOf("opportunity", opportunities, asOf[r]) PROVE s \in Source /\ Current(s)
  BY SourcesOfType DEF SourceInv, Current
<1>4. RunInv'
  BY <1>1, <1>3, SameVerdicts DEF RunInv, Row
<1> QED BY <1>2, <1>4

(* What a run builds are rows with the figures of their source.            *)
LEMMA BuildOutcomeIsRow ==
  ASSUME NEW s \in Source, NEW h, NEW cut
  PROVE  LET o == BuildOutcome(s, h, cut) IN
         Row(o) /\ o.source = s /\ o.figures \in {"none", s.direction}
  BY SourceParts DEF BuildOutcome, PriceGapStatus, Row, Directions

LEMMA ListEquityEventsKeeps ==
  ASSUME Inv, NEW r \in OutcomeRuns, ListEquityEvents(r)
  PROVE  Inv'
<1> USE DEF Inv
<1> DEFINE rows == {BuildOutcome(s, h, asOf[r]) : s \in sources[r], h \in Horizons}
<1>1. /\ UNCHANGED <<evaluation, verdicts, opportunities, building, outcomes>>
      /\ batch' = [batch EXCEPT ![r] = rows]
      /\ at' = [at EXCEPT ![r] = IF batch'[r] = {} THEN "idle" ELSE "write"]
      /\ sources' = [sources EXCEPT ![r] = {}]
  BY DEF ListEquityEvents, sourceVars
<1>2. SourceInv' /\ RowInv'
  BY <1>1, SameVerdicts, RowsStay DEF SourceInv
<1>3. ASSUME NEW o \in rows PROVE Row(o) /\ Current(o.source) /\ o.figures \in {"none", o.source.direction}
  <2>1. PICK s \in sources[r], h \in Horizons : o = BuildOutcome(s, h, asOf[r])
    OBVIOUS
  <2>2. s \in Source /\ Current(s)
    BY DEF RunInv
  <2> QED BY <2>1, <2>2, BuildOutcomeIsRow
<1> HIDE DEF rows
<1>4. batch'[r] = rows
  BY <1>1 DEF RunInv
<1>5. RunInv'
  BY <1>1, <1>3, <1>4, SameVerdicts DEF RunInv, Row
<1> QED BY <1>2, <1>5

(* The row a run writes next is one of its batch.                          *)
LEMMA UpsertOutcomeWrites ==
  ASSUME Inv, NEW r \in OutcomeRuns, UpsertOutcome(r)
  PROVE  \E new \in batch[r] : outcomes' = Upserted(new) /\ batch' = [batch EXCEPT ![r] = @ \ {new}]
<1>1. batch[r] # {}
  BY DEF UpsertOutcome, Inv, RunInv
<1>2. (CHOOSE o \in batch[r] : TRUE) \in batch[r]
  BY <1>1
<1> QED BY <1>2 DEF UpsertOutcome

LEMMA UpsertOutcomeKeeps ==
  ASSUME Inv, NEW r \in OutcomeRuns, UpsertOutcome(r)
  PROVE  Inv'
<1> USE DEF Inv
<1>1. /\ UNCHANGED <<evaluation, verdicts, opportunities, building, sources>>
      /\ at' = [at EXCEPT ![r] = IF batch'[r] = {} THEN "idle" ELSE @]
  BY DEF UpsertOutcome, sourceVars
<1>2. PICK new \in batch[r] : outcomes' = Upserted(new) /\ batch' = [batch EXCEPT ![r] = @ \ {new}]
  BY UpsertOutcomeWrites
<1>3. SourceInv'
  BY <1>1, SameVerdicts DEF SourceInv
<1>4. RowInv'
  BY <1>1, <1>2, UpsertKeepsRowInv DEF RunInv
<1>5. RunInv'
  BY <1>1, <1>2, SameVerdicts DEF RunInv, Row
<1> QED BY <1>3, <1>4, <1>5

LEMMA StopKeeps ==
  ASSUME Inv, NEW r \in OutcomeRuns, OutcomeRunStops(r)
  PROVE  Inv'
<1> USE DEF Inv
<1>1. /\ UNCHANGED <<evaluation, verdicts, opportunities, building, outcomes>>
      /\ at' = [at EXCEPT ![r] = "idle"] /\ sources' = [sources EXCEPT ![r] = {}]
      /\ batch' = [batch EXCEPT ![r] = {}]
  BY DEF OutcomeRunStops, sourceVars
<1>2. SourceInv' /\ RowInv'
  BY <1>1, SameVerdicts, RowsStay DEF SourceInv
<1>3. RunInv'
  BY <1>1, SameVerdicts DEF RunInv, Row
<1> QED BY <1>2, <1>3

LEMMA EvaluateKeeps ==
  ASSUME Inv, NEW d \in Origins, NEW v \in Verdicts, EvaluateState(d, v)
  PROVE  Inv'
<1> USE DEF Inv
<1>1. UNCHANGED <<at, sources, batch, outcomes>>
  BY DEF EvaluateState, measureVars
<1>2. SourceInv' /\ (Turned => Turned') /\ \A s \in Source : Current(s) => Current(s)'
  BY VerdictCounts
<1>3. RunInv'
  BY <1>1, <1>2 DEF RunInv, Row
<1>4. RowInv'
  BY <1>1, <1>2 DEF RowInv, Row
<1> QED BY <1>2, <1>3, <1>4

(* Bars and opportunities change nothing that a run holds.                 *)
LEMMA OthersKeep ==
  ASSUME Inv, UNCHANGED <<evaluation, verdicts, outcomes, measureVars>>,
         opportunities' \subseteq Origins \X Directions, building' \subseteq Origins \X Directions
  PROVE  Inv'
<1>1. SourceInv' /\ RowInv'
  BY SameVerdicts, RowsStay DEF Inv, SourceInv
<1>2. RunInv'
  BY SameVerdicts DEF Inv, RunInv, Row, measureVars
<1> QED BY <1>1, <1>2 DEF Inv

-----------------------------------------------------------------------------
LEMMA StepInv == Inv /\ [OutcomeNext]_outcomeVars => Inv'
<1> SUFFICES ASSUME Inv, [OutcomeNext]_outcomeVars PROVE Inv'
  OBVIOUS
<1>1. ASSUME NEW d \in Days, NEW valid \in BOOLEAN, StorePrice(d, valid) PROVE Inv'
  BY <1>1, OthersKeep DEF StorePrice, sourceVars, Inv, SourceInv
<1>2. ASSUME NEW d \in Origins, NEW v \in Verdicts, EvaluateState(d, v) PROVE Inv'
  BY <1>2, EvaluateKeeps
<1>3. CASE BuildOpportunities
  <2>1. Triggered \subseteq Origins \X Directions
    BY DEF Triggered
  <2> QED BY <1>3, <2>1, OthersKeep DEF BuildOpportunities, Inv, SourceInv
<1>4. ASSUME NEW e \in building, UpsertOpportunity(e) PROVE Inv'
  BY <1>4, OthersKeep DEF UpsertOpportunity, Inv, SourceInv
<1>5. CASE BuilderStops
  BY <1>5, OthersKeep DEF BuilderStops, Inv, SourceInv
<1>6. ASSUME NEW r \in OutcomeRuns,
             (\E cut \in Days : ListEvaluations(r, cut)) \/ OutcomeRun(r) \/ OutcomeRunStops(r)
      PROVE  Inv'
  BY <1>6, ListEvaluationsKeeps, ListOpportunitiesKeeps, ListEquityEventsKeeps, UpsertOutcomeKeeps, StopKeeps
     DEF OutcomeRun
<1>7. CASE UNCHANGED outcomeVars
  BY <1>7, OthersKeep DEF outcomeVars, sourceVars, Inv, SourceInv
<1> QED BY <1>1, <1>2, <1>3, <1>4, <1>5, <1>6, <1>7 DEF OutcomeNext

LEMMA SpecInv == OutcomeSpec => []Inv
  BY InitInv, StepInv, PTL DEF OutcomeSpec

LEMMA InvFiguresFit == Inv => FiguresFitDirection
<1> SUFFICES ASSUME Inv, NEW o \in Matured, o.figures # o.source.direction
             PROVE  /\ o.source.type = "hypothesis_evaluation"
                    /\ verdicts > Cardinality({d \in Origins : evaluation[d] # "none"})
  BY DEF FiguresFitDirection
<1>1. o.figures # "none"
  BY DEF Matured, Inv, RowInv, Row
<1> QED BY <1>1 DEF Matured, Inv, RowInv, Turned, Evaluated

(* Whatever runs overlap and whatever verdicts are revised, the figures of *)
(* a measured row were taken for the row's direction, unless the row is an *)
(* evaluation's and some verdict was given anew (marketops_outcomes.go:26).*)
THEOREM FiguresSafety == OutcomeSpec => []FiguresFitDirection
  BY SpecInv, InvFiguresFit, PTL

LEMMA StepProgresses ==
  Inv /\ [OutcomeNext]_outcomeVars =>
    [\A o \in outcomes : \E n \in outcomes' :
       /\ SameOutcome(n, o)
       /\ o.status = "matured" => n = o
       /\ o.status = "missing_price" => n.status # "pending"]_outcomeVars
<1> SUFFICES ASSUME Inv, OutcomeNext, NEW o \in outcomes
             PROVE  \E n \in outcomes' : /\ SameOutcome(n, o)
                                         /\ o.status = "matured" => n = o
                                         /\ o.status = "missing_price" => n.status # "pending"
  OBVIOUS
<1>1. CASE outcomes' = outcomes
  BY <1>1 DEF SameOutcome
<1>2. ASSUME NEW r \in OutcomeRuns, UpsertOutcome(r)
      PROVE  \E n \in outcomes' : /\ SameOutcome(n, o)
                                  /\ o.status = "matured" => n = o
                                  /\ o.status = "missing_price" => n.status # "pending"
  <2>1. PICK new \in batch[r] : outcomes' = Upserted(new)
    BY <1>2, UpsertOutcomeWrites
  <2>2. Row(new) /\ \A p \in outcomes : Row(p)
    BY DEF Inv, RunInv, RowInv
  <2> QED BY <2>1, <2>2, UpsertKeeps
<1>3. outcomes' = outcomes \/ \E r \in OutcomeRuns : UpsertOutcome(r)
  BY DEF OutcomeNext, StorePrice, EvaluateState, BuildOpportunities, UpsertOpportunity, BuilderStops,
         OutcomeRun, ListEvaluations, ListOpportunities, ListEquityEvents, OutcomeRunStops
<1> QED BY <1>1, <1>2, <1>3

(* Any number of runs, for any cuts and in any interleaving, only advance  *)
(* the rows: a measured one is final and one without a price never waits   *)
(* again (marketops_outcomes.go:35).                                       *)
THEOREM OutcomeFinality == OutcomeSpec => OutcomesProgress
  BY SpecInv, StepProgresses, PTL DEF OutcomeSpec, OutcomesProgress
-----------------------------------------------------------------------------
(* The window argument: a row that a run builds shows the ledger of that   *)
(* moment, and days that arrive later come after every day it rests on.    *)
Measured(o) ==
  LET origin == o.source.origin
      measured == {origin} \cup o.window
  IN /\ Cardinality(o.window) = o.horizon
     /\ measured \subseteq Range(arrived) /\ \A d \in o.window : origin < d
     /\ \A d \in Range(arrived) \ measured :
          origin < d /\ (\E m \in o.window : d < m) =>
            \A m \in measured : ArrivalOf(m) < ArrivalOf(d)

WindowInv ==
  /\ arrived \in Seq(Days)
  /\ \A i, j \in DOMAIN arrived : arrived[i] = arrived[j] => i = j
  /\ \A o \in outcomes : o.status = "matured" => Measured(o)
  /\ \A r \in OutcomeRuns : \A o \in batch[r] : o.status = "matured" => Measured(o)

LEMMA LeastDay ==
  ASSUME NEW S \in SUBSET Nat, S # {}
  PROVE  \E d \in S : \A e \in S : d <= e
<1>1. PICK d \in S : \A e \in S : <<e, d>> \notin OpToRel(<, Nat)
  BY NatLessThanWellFounded, WFMin
<1>2. \A e \in S : d <= e
  <2>1. ASSUME NEW e \in S PROVE ~(e < d)
    <3>1. <<e, d>> \in Nat \X Nat /\ <<e, d>>[1] = e /\ <<e, d>>[2] = d
      OBVIOUS
    <3> QED BY <1>1, <3>1, Zenon DEF OpToRel
  <2> QED BY <2>1
<1> QED BY <1>2

(* n of the sessions, all others later.                                    *)
IsOldest(w, sessions, n) ==
  w \in SUBSET sessions /\ Cardinality(w) = n /\ \A d \in w, later \in sessions \ w : d < later

(* There are n oldest sessions for every n up to their number: were m the  *)
(* least number without, the m - 1 oldest and the least of the others      *)
(* would be m.                                                             *)
LEMMA OldestExist ==
  ASSUME NEW sessions \in SUBSET Nat, IsFiniteSet(sessions),
         NEW n \in Nat, n <= Cardinality(sessions)
  PROVE  \E w : IsOldest(w, sessions, n)
<1> DEFINE without == {m \in 0..Cardinality(sessions) : ~\E w : IsOldest(w, sessions, m)}
<1>1. Cardinality(sessions) \in Nat
  BY FS_CardinalityType
<1> SUFFICES ASSUME without # {} PROVE FALSE
  BY <1>1
<1>2. PICK m \in without : \A k \in without : m <= k
  <2>1. without \in SUBSET Nat
    BY <1>1
  <2> HIDE DEF without
  <2> QED BY <2>1, LeastDay
<1>3. m # 0
  BY FS_EmptySet DEF IsOldest
<1>4. m - 1 \in 0..Cardinality(sessions) /\ m - 1 \notin without /\ m \in Nat
  BY <1>1, <1>2, <1>3
<1>5. PICK w : IsOldest(w, sessions, m - 1)
  BY <1>4
<1>6. IsFiniteSet(w) /\ Cardinality(w) = m - 1 /\ w \subseteq sessions
  BY <1>5, FS_Subset DEF IsOldest
<1>7. sessions \ w # {}
  <2>1. w # sessions
    BY <1>1, <1>2, <1>4, <1>6
  <2> QED BY <1>6, <2>1
<1>8. PICK d \in sessions \ w : \A e \in sessions \ w : d <= e
  BY <1>7, LeastDay
<1>9. Cardinality(w \cup {d}) = m
  <2>1. Cardinality(w \cup {d}) = Cardinality(w) + 1
    BY <1>6, <1>8, FS_AddElement
  <2> QED BY <1>4, <1>6, <2>1
<1>10. \A c \in w \cup {d}, e \in sessions \ (w \cup {d}) : c < e
  BY <1>5, <1>8 DEF IsOldest
<1>11. IsOldest(w \cup {d}, sessions, m)
  BY <1>6, <1>8, <1>9, <1>10 DEF IsOldest
<1> QED BY <1>2, <1>11

LEMMA OldestAre ==
  ASSUME NEW sessions \in SUBSET Nat, IsFiniteSet(sessions),
         NEW n \in Nat, n <= Cardinality(sessions)
  PROVE  IsOldest(Oldest(sessions, n), sessions, n)
<1>1. PICK w : IsOldest(w, sessions, n)
  BY OldestExist
<1> DEFINE P(x) == Cardinality(x) = n /\ \A d \in x, later \in sessions \ x : d < later
<1>2. w \in SUBSET sessions /\ P(w)
  BY <1>1 DEF IsOldest
<1>3. Oldest(sessions, n) = CHOOSE x \in SUBSET sessions : P(x)
  BY DEF Oldest
<1>4. Oldest(sessions, n) \in SUBSET sessions /\ P(Oldest(sessions, n))
  <2> HIDE DEF P
  <2> QED BY <1>2, <1>3
<1> QED BY <1>4 DEF IsOldest

-----------------------------------------------------------------------------
LEMMA ArrivedDays ==
  ASSUME WindowInv
  PROVE  /\ Range(arrived) \subseteq Days /\ Range(arrived) \subseteq Nat
         /\ \A i \in DOMAIN arrived : arrived[i] \in Range(arrived) /\ ArrivalOf(arrived[i]) = i
<1>1. Range(arrived) \subseteq Days
  BY DEF WindowInv, Range
<1>2. Days \subseteq Nat
  BY OutcomeAssumption DEF Days
<1>3. ASSUME NEW i \in DOMAIN arrived PROVE arrived[i] \in Range(arrived) /\ ArrivalOf(arrived[i]) = i
  <2>1. \A j \in DOMAIN arrived : arrived[j] = arrived[i] <=> j = i
    BY DEF WindowInv
  <2>2. ArrivalOf(arrived[i]) \in DOMAIN arrived /\ arrived[ArrivalOf(arrived[i])] = arrived[i]
    BY DEF ArrivalOf
  <2> QED BY <2>1, <2>2 DEF Range
<1> QED BY <1>1, <1>2, <1>3

(* A row that measured what the ledger shows now: no session up to the     *)
(* last of its window is passed over.                                      *)
LEMMA BuildOutcomeMeasures ==
  ASSUME WindowInv, NEW s \in Source, NEW h \in Horizons, NEW cut \in Nat,
         BuildOutcome(s, h, cut).status = "matured"
  PROVE  Measured(BuildOutcome(s, h, cut))
<1> DEFINE history == EquityHistory(cut)
           after == {d \in history : d > s.origin}
           o == BuildOutcome(s, h, cut)
<1>1. history \subseteq Range(arrived) /\ history = {d \in Range(arrived) : d <= cut}
  BY DEF EquityHistory
<1>2. s.origin \in Nat /\ h \in Nat \ {0}
  <2>1. s.origin \in Days
    BY SourceParts, OutcomeAssumption
  <2> QED BY <2>1, OutcomeAssumption DEF Days
<1>3. after \in SUBSET Nat /\ IsFiniteSet(after)
  <2>1. IsFiniteSet(Days) /\ after \subseteq Days
    BY <1>1, ArrivedDays, OutcomeAssumption, FS_Interval DEF Days
  <2> QED BY <1>1, <2>1, ArrivedDays, FS_Subset
<1>4. ForwardWindow(history, s.origin, h) # {}
  BY DEF BuildOutcome, PriceGapStatus
<1>5. s.origin \in history /\ ~(h > Cardinality(after)) /\ ForwardWindow(history, s.origin, h) = Oldest(after, h)
  BY <1>4 DEF ForwardWindow
<1>6. o.source = s /\ o.horizon = h /\ o.window = Oldest(after, h)
  BY <1>5 DEF BuildOutcome
<1>7. Cardinality(after) \in Nat
  BY <1>3, FS_CardinalityType
<1> DEFINE w == Oldest(after, h)
<1> HIDE DEF history, after
<1>8. IsOldest(w, after, h)
  BY <1>2, <1>3, <1>5, <1>7, OldestAre
<1> HIDE DEF o, w
<1>9. w \subseteq after /\ Cardinality(w) = h /\ \A d \in w, later \in after \ w : d < later
  BY <1>8 DEF IsOldest
<1>10. \A d \in after : d \in Range(arrived) /\ s.origin < d
  BY <1>1, <1>2, ArrivedDays DEF after
<1>11. ASSUME NEW d \in Range(arrived), d \notin w, s.origin < d PROVE ~\E m \in w : d < m
  <2> SUFFICES ASSUME NEW m \in w, d < m PROVE FALSE
    OBVIOUS
  <2>1. d \in Nat /\ m \in Nat /\ m <= cut
    BY <1>1, <1>9, ArrivedDays DEF after
  <2>2. d \in after
    BY <1>1, <1>2, <1>11, <2>1 DEF after
  <2> QED BY <1>9, <1>11, <2>1, <2>2
<1>12. Measured(o)
  BY <1>1, <1>5, <1>6, <1>9, <1>10, <1>11 DEF Measured, w
<1> QED BY <1>12 DEF o

LEMMA LedgerStays ==
  ASSUME arrived' = arrived
  PROVE  \A o : Measured(o)' <=> Measured(o)
  BY DEF Measured, ArrivalOf

(* A day's first bar comes after the days already there.                   *)
LEMMA ArrivalKeepsMeasured ==
  ASSUME WindowInv, NEW d \in Days, NEW valid \in BOOLEAN, StorePrice(d, valid)
  PROVE  /\ arrived' \in Seq(Days)
         /\ \A i, j \in DOMAIN arrived' : arrived'[i] = arrived'[j] => i = j
         /\ \A o : Measured(o) => Measured(o)'
<1>1. CASE d \in Range(arrived)
  <2>1. arrived' = arrived
    BY <1>1 DEF StorePrice
  <2> QED BY <2>1, LedgerStays DEF WindowInv
<1>2. CASE d \notin Range(arrived)
  <2>1. arrived' = Append(arrived, d) /\ arrived \in Seq(Days) /\ Len(arrived) \in Nat
    BY <1>2 DEF StorePrice, WindowInv
  <2>2. /\ arrived' \in Seq(Days) /\ DOMAIN arrived' = 1..(Len(arrived) + 1) /\ DOMAIN arrived = 1..Len(arrived)
        /\ arrived'[Len(arrived) + 1] = d /\ \A i \in DOMAIN arrived : arrived'[i] = arrived[i]
    BY <2>1
  <2>3. \A i \in DOMAIN arrived : arrived[i] # d
    BY <1>2 DEF Range
  <2>4. \A i, j \in DOMAIN arrived' : arrived'[i] = arrived'[j] => i = j
    BY <2>1, <2>2, <2>3 DEF WindowInv
  <2>5. Range(arrived') = Range(arrived) \cup {d}
    BY <2>1, <2>2 DEF Range
  <2>6. \A i \in DOMAIN arrived' : \A c : c = arrived'[i] => ArrivalOf(c)' = i
    <3> SUFFICES ASSUME NEW i \in DOMAIN arrived', NEW c, c = arrived'[i] PROVE ArrivalOf(c)' = i
      OBVIOUS
    <3>1. \A j \in DOMAIN arrived' : arrived'[j] = c <=> j = i
      BY <2>4
    <3>2. ArrivalOf(c)' = CHOOSE j \in DOMAIN arrived' : arrived'[j] = c
      BY DEF ArrivalOf
    <3> QED BY <3>1, <3>2
  <2>7. \A m \in Range(arrived) :
          ArrivalOf(m)' = ArrivalOf(m) /\ ArrivalOf(m) \in 1..Len(arrived)
    <3> SUFFICES ASSUME NEW m \in Range(arrived)
                 PROVE  ArrivalOf(m)' = ArrivalOf(m) /\ ArrivalOf(m) \in 1..Len(arrived)
      OBVIOUS
    <3>1. PICK i \in DOMAIN arrived : m = arrived[i]
      BY DEF Range
    <3>2. m = arrived'[i] /\ i \in DOMAIN arrived'
      BY <2>1, <2>2, <3>1
    <3>3. ArrivalOf(m) = i
      BY <3>1, ArrivedDays
    <3> QED BY <2>2, <2>6, <3>2, <3>3
  <2>8. ArrivalOf(d)' = Len(arrived) + 1
    BY <2>1, <2>2, <2>6
  <2>9. ASSUME NEW o, Measured(o) PROVE Measured(o)'
    <3> DEFINE measured == {o.source.origin} \cup o.window
    <3>1. /\ Cardinality(o.window) = o.horizon /\ measured \subseteq Range(arrived)
          /\ \A c \in o.window : o.source.origin < c
      BY <2>9 DEF Measured
    <3>2. ASSUME NEW c \in Range(arrived') \ measured, o.source.origin < c,
                 \E m \in o.window : c < m, NEW m \in measured
          PROVE  ArrivalOf(m)' < ArrivalOf(c)'
      <4>1. CASE c = d
        BY <2>1, <2>7, <2>8, <3>1, <4>1
      <4>2. CASE c # d
        <5>1. c \in Range(arrived)
          BY <2>5, <3>2, <4>2
        <5>2. ArrivalOf(m) < ArrivalOf(c)
          BY <2>9, <3>2, <5>1 DEF Measured
        <5> QED BY <2>7, <3>1, <5>1, <5>2
      <4> QED BY <4>1, <4>2
    <3> QED BY <2>5, <3>1, <3>2 DEF Measured
  <2> QED BY <2>2, <2>4, <2>9
<1> QED BY <1>1, <1>2

(* An upsert leaves a row's window, or replaces it by the new row's.       *)
LEMMA UpsertKeepsMeasured ==
  ASSUME NEW new, Row(new), \A o \in outcomes : Row(o), outcomes' = Upserted(new),
         new.status = "matured" => Measured(new),
         \A o \in outcomes : o.status = "matured" => Measured(o)
  PROVE  \A n \in outcomes' : n.status = "matured" => Measured(n)
<1> SUFFICES ASSUME NEW n \in outcomes', n.status = "matured" PROVE Measured(n)
  OBVIOUS
<1>1. \/ n = new \/ n \in outcomes
      \/ \E o \in outcomes : SameOutcome(o, new) /\ n = [new EXCEPT !.source = o.source]
  BY UpsertKeeps
<1>2. ASSUME NEW o \in outcomes, SameOutcome(o, new), n = [new EXCEPT !.source = o.source]
      PROVE  Measured(n)
  <2>1. n = [source |-> o.source, horizon |-> new.horizon, status |-> new.status,
             figures |-> new.figures, window |-> new.window]
    BY <1>2 DEF Row
  <2>2. n.source.origin = new.source.origin /\ n.horizon = new.horizon /\ n.window = new.window
    BY <1>2, <2>1 DEF SameOutcome
  <2>3. Measured(new)
    BY <2>1
  <2> QED BY <2>2, <2>3 DEF Measured
<1> QED BY <1>1, <1>2

(* A run's cut is a day, or none.                                          *)
CutInv == asOf \in [OutcomeRuns -> Days \cup {0}] /\ \A r \in OutcomeRuns : asOf[r] \in Nat

LEMMA CutSpec == OutcomeSpec => []CutInv
<1>1. Days \subseteq Nat
  BY OutcomeAssumption DEF Days
<1>2. OutcomeInit => CutInv
  BY DEF OutcomeInit, CutInv
<1>3. CutInv /\ [OutcomeNext]_outcomeVars => CutInv'
  BY <1>1 DEF CutInv, OutcomeNext, StorePrice, EvaluateState, BuildOpportunities, UpsertOpportunity,
     BuilderStops, OutcomeRun, ListEvaluations, ListOpportunities, ListEquityEvents, UpsertOutcome,
     OutcomeRunStops, outcomeVars, measureVars
<1> QED BY <1>2, <1>3, PTL DEF OutcomeSpec

LEMMA InitWindowInv == OutcomeInit => WindowInv
  BY DEF OutcomeInit, WindowInv

LEMMA StepWindowInv == Inv /\ WindowInv /\ CutInv /\ [OutcomeNext]_outcomeVars => WindowInv'
<1> SUFFICES ASSUME Inv, WindowInv, CutInv, [OutcomeNext]_outcomeVars PROVE WindowInv'
  OBVIOUS
<1>1. ASSUME NEW d \in Days, NEW valid \in BOOLEAN, StorePrice(d, valid) PROVE WindowInv'
  <2>1. outcomes' = outcomes /\ batch' = batch
    BY <1>1 DEF StorePrice, measureVars
  <2> QED BY <1>1, <2>1, ArrivalKeepsMeasured DEF WindowInv
<1>2. ASSUME NEW r \in OutcomeRuns, UpsertOutcome(r) PROVE WindowInv'
  <2>1. arrived' = arrived
    BY <1>2 DEF UpsertOutcome, priceVars
  <2>2. PICK new \in batch[r] : outcomes' = Upserted(new) /\ batch' = [batch EXCEPT ![r] = @ \ {new}]
    BY <1>2, UpsertOutcomeWrites
  <2>3. \A n \in outcomes' : n.status = "matured" => Measured(n)
    BY <2>2, UpsertKeepsMeasured DEF Inv, RunInv, RowInv, WindowInv
  <2>4. \A q \in OutcomeRuns : batch'[q] \subseteq batch[q]
    BY <2>2 DEF Inv, RunInv
  <2> QED BY <2>1, <2>3, <2>4, LedgerStays DEF WindowInv
<1>3. ASSUME NEW r \in OutcomeRuns, ListEquityEvents(r) PROVE WindowInv'
  <2> DEFINE rows == {BuildOutcome(s, h, asOf[r]) : s \in sources[r], h \in Horizons}
  <2>1. arrived' = arrived /\ outcomes' = outcomes /\ batch' = [batch EXCEPT ![r] = rows]
    BY <1>3 DEF ListEquityEvents, priceVars
  <2>2. ASSUME NEW o \in rows, o.status = "matured" PROVE Measured(o)
    <3>1. PICK s \in sources[r], h \in Horizons : o = BuildOutcome(s, h, asOf[r])
      OBVIOUS
    <3>2. s \in Source /\ asOf[r] \in Nat
      BY DEF Inv, RunInv, CutInv
    <3> QED BY <2>2, <3>1, <3>2, BuildOutcomeMeasures
  <2> HIDE DEF rows
  <2>3. \A q \in OutcomeRuns : batch'[q] = IF q = r THEN rows ELSE batch[q]
    BY <2>1 DEF Inv, RunInv
  <2> QED BY <2>1, <2>2, <2>3, LedgerStays DEF WindowInv
<1>4. ASSUME NEW r \in OutcomeRuns, OutcomeRunStops(r) PROVE WindowInv'
  <2>1. arrived' = arrived /\ outcomes' = outcomes /\ batch' = [batch EXCEPT ![r] = {}]
    BY <1>4 DEF OutcomeRunStops, priceVars
  <2>2. \A q \in OutcomeRuns : batch'[q] = IF q = r THEN {} ELSE batch[q]
    BY <2>1 DEF Inv, RunInv
  <2> QED BY <2>1, <2>2, LedgerStays DEF WindowInv
<1>5. CASE UNCHANGED <<arrived, outcomes, batch>>
  BY <1>5, LedgerStays DEF WindowInv
<1>6. \/ \E d \in Days, valid \in BOOLEAN : StorePrice(d, valid)
      \/ \E r \in OutcomeRuns : UpsertOutcome(r) \/ ListEquityEvents(r) \/ OutcomeRunStops(r)
      \/ UNCHANGED <<arrived, outcomes, batch>>
  BY DEF OutcomeNext, OutcomeRun, EvaluateState, BuildOpportunities, UpsertOpportunity, BuilderStops,
         ListEvaluations, ListOpportunities, outcomeVars, priceVars, measureVars
<1> QED BY <1>1, <1>2, <1>3, <1>4, <1>5, <1>6

LEMMA WindowSpec == OutcomeSpec => []WindowInv
  BY SpecInv, CutSpec, InitWindowInv, StepWindowInv, PTL DEF OutcomeSpec

(* Whatever bars arrive, in whatever order, and whatever runs overlap: a   *)
(* measured row took exactly its horizon's sessions after the origin, and  *)
(* passed over only sessions whose first bar came after all of them        *)
(* (materializer.go, buildOutcome).                                        *)
THEOREM WindowSafety == OutcomeSpec => []WindowsAreSessions
<1>1. WindowInv => WindowsAreSessions
  BY DEF WindowInv, WindowsAreSessions, Matured, Measured
<1> QED BY <1>1, WindowSpec, PTL

-----------------------------------------------------------------------------
(* The rows a run builds, and those an upsert makes of them, are rows.     *)
LEMMA BuildOutcomeType ==
  ASSUME WindowInv, NEW s \in Source, NEW h \in Horizons, NEW cut \in Nat
  PROVE  BuildOutcome(s, h, cut) \in Outcome
<1> DEFINE o == BuildOutcome(s, h, cut)
<1>1. o.status \in Statuses /\ o.figures \in Directions \cup {"none"}
  BY SourceParts DEF BuildOutcome, PriceGapStatus, Statuses
<1>2. CASE o.status = "matured"
  <2>1. Measured(o)
    BY <1>2, BuildOutcomeMeasures
  <2>2. o.window \subseteq Days
    <3> HIDE DEF o
    <3> QED BY <2>1, ArrivedDays DEF Measured
  <2> QED BY <1>1, <2>2 DEF BuildOutcome, Outcome
<1>3. CASE o.status # "matured"
  <2>1. o.window = {}
    BY <1>3 DEF BuildOutcome
  <2> QED BY <1>1, <2>1 DEF BuildOutcome, Outcome
<1> QED BY <1>2, <1>3

LEMMA UpsertKeepsType ==
  ASSUME NEW new \in Outcome, Row(new), \A o \in outcomes : Row(o),
         outcomes \subseteq Outcome, outcomes' = Upserted(new)
  PROVE  outcomes' \subseteq Outcome
<1> SUFFICES ASSUME NEW n \in outcomes' PROVE n \in Outcome
  OBVIOUS
<1>1. \/ n = new \/ n \in outcomes
      \/ \E o \in outcomes : SameOutcome(o, new) /\ n = [new EXCEPT !.source = o.source]
  BY UpsertKeeps
<1>2. ASSUME NEW o \in outcomes, n = [new EXCEPT !.source = o.source] PROVE n \in Outcome
  <2>1. o.source \in Source
    BY DEF Row
  <2> QED BY <1>2, <2>1 DEF Outcome
<1> QED BY <1>1, <1>2

LEMMA InitTypes == OutcomeInit => OutcomeTypeOK
<1> SUFFICES ASSUME OutcomeInit PROVE OutcomeTypeOK
  OBVIOUS
<1>1. arrived \in Seq(Days) /\ Range(arrived) = {}
  BY DEF OutcomeInit, Range
<1> QED BY <1>1, OutcomeAssumption DEF OutcomeInit, OutcomeTypeOK

LEMMA StepTypes ==
  OutcomeTypeOK /\ Inv /\ WindowInv /\ CutInv /\ [OutcomeNext]_outcomeVars => OutcomeTypeOK'
<1> SUFFICES ASSUME OutcomeTypeOK, Inv, WindowInv, CutInv, [OutcomeNext]_outcomeVars PROVE OutcomeTypeOK'
  OBVIOUS
<1> USE OutcomeAssumption DEF OutcomeTypeOK, priceVars, sourceVars, measureVars
<1>1. ASSUME NEW d \in Days, NEW valid \in BOOLEAN, StorePrice(d, valid) PROVE OutcomeTypeOK'
  <2>1. arrived' \in Seq(Days) /\ Range(arrived') = Range(arrived) \cup {d}
    <3>1. CASE d \in Range(arrived)
      BY <1>1, <3>1 DEF StorePrice
    <3>2. CASE d \notin Range(arrived)
      <4>1. arrived' = Append(arrived, d) /\ Len(arrived) \in Nat
        BY <1>1, <3>2 DEF StorePrice
      <4>2. /\ DOMAIN arrived' = 1..(Len(arrived) + 1) /\ DOMAIN arrived = 1..Len(arrived)
            /\ arrived'[Len(arrived) + 1] = d /\ \A i \in DOMAIN arrived : arrived'[i] = arrived[i]
        BY <4>1
      <4> QED BY <4>1, <4>2 DEF Range
    <3> QED BY <3>1, <3>2
  <2>2. badPrice' \subseteq Range(arrived')
    BY <1>1, <2>1 DEF StorePrice
  <2>3. prices' \in 0..MaxPrices
    BY <1>1 DEF StorePrice
  <2> QED BY <1>1, <2>1, <2>2, <2>3 DEF StorePrice
<1>2. ASSUME NEW d \in Origins, NEW v \in Verdicts, EvaluateState(d, v) PROVE OutcomeTypeOK'
  BY <1>2 DEF EvaluateState
<1>3. CASE BuildOpportunities
  <2>1. Triggered \subseteq Origins \X Directions
    BY DEF Triggered
  <2> QED BY <1>3, <2>1 DEF BuildOpportunities
<1>4. ASSUME NEW e \in building, UpsertOpportunity(e) PROVE OutcomeTypeOK'
  BY <1>4 DEF UpsertOpportunity
<1>5. CASE BuilderStops
  BY <1>5 DEF BuilderStops
<1>6. ASSUME NEW r \in OutcomeRuns, NEW cut \in Days, ListEvaluations(r, cut) PROVE OutcomeTypeOK'
  <2>1. Triggered \in SUBSET (Origins \X Directions)
    BY DEF Triggered
  <2>2. SourcesOf("hypothesis_evaluation", Triggered, cut) \subseteq Source
    BY <2>1, SourcesOfType
  <2> QED BY <1>6, <2>2 DEF ListEvaluations, Inv, RunInv
<1>7. ASSUME NEW r \in OutcomeRuns, ListOpportunities(r) PROVE OutcomeTypeOK'
  <2>1. SourcesOf("opportunity", opportunities, asOf[r]) \subseteq Source
    BY SourcesOfType
  <2> QED BY <1>7, <2>1 DEF ListOpportunities, Inv, RunInv
<1>8. ASSUME NEW r \in OutcomeRuns, ListEquityEvents(r) PROVE OutcomeTypeOK'
  <2> DEFINE rows == {BuildOutcome(s, h, asOf[r]) : s \in sources[r], h \in Horizons}
  <2>1. rows \subseteq Outcome
    BY BuildOutcomeType DEF CutInv
  <2>2. /\ batch' = [batch EXCEPT ![r] = rows] /\ sources' = [sources EXCEPT ![r] = {}]
        /\ at' \in [OutcomeRuns -> {"idle", "opportunities", "events", "write"}]
        /\ asOf' \in [OutcomeRuns -> Days \cup {0}]
        /\ UNCHANGED <<arrived, badPrice, prices, evaluation, verdicts, opportunities, building, outcomes, stops>>
    BY <1>8 DEF ListEquityEvents
  <2> HIDE DEF rows
  <2>3. \A q \in OutcomeRuns : sources'[q] \subseteq Source /\ batch'[q] \subseteq Outcome
    BY <2>1, <2>2 DEF Inv, RunInv
  <2> QED BY <2>2, <2>3
<1>9. ASSUME NEW r \in OutcomeRuns, UpsertOutcome(r) PROVE OutcomeTypeOK'
  <2>1. PICK new \in batch[r] : outcomes' = Upserted(new) /\ batch' = [batch EXCEPT ![r] = @ \ {new}]
    BY <1>9, UpsertOutcomeWrites
  <2>2. outcomes' \subseteq Outcome
    BY <2>1, UpsertKeepsType DEF Inv, RunInv, RowInv
  <2>3. \A q \in OutcomeRuns : batch'[q] \subseteq Outcome
    BY <2>1 DEF Inv, RunInv
  <2>4. /\ at' \in [OutcomeRuns -> {"idle", "opportunities", "events", "write"}]
        /\ UNCHANGED <<arrived, badPrice, prices, evaluation, verdicts, opportunities, building, asOf, sources, stops>>
    BY <1>9 DEF UpsertOutcome
  <2> QED BY <2>2, <2>3, <2>4
<1>10. ASSUME NEW r \in OutcomeRuns, OutcomeRunStops(r) PROVE OutcomeTypeOK'
  BY <1>10 DEF OutcomeRunStops, Inv, RunInv
<1>11. CASE UNCHANGED outcomeVars
  BY <1>11 DEF outcomeVars
<1> QED BY <1>1, <1>2, <1>3, <1>4, <1>5, <1>6, <1>7, <1>8, <1>9, <1>10, <1>11 DEF OutcomeNext, OutcomeRun

(* Every row stored or about to be stored is an outcome of a state, with   *)
(* a window of weekdays (storage.MarketOpsSignalOutcomeRecord).            *)
THEOREM OutcomeTypes == OutcomeSpec => []OutcomeTypeOK
  BY SpecInv, CutSpec, WindowSpec, InitTypes, StepTypes, PTL DEF OutcomeSpec
=============================================================================
