---------------------------- MODULE SignalOutcomes ----------------------------
(***************************************************************************)
(* Forward outcomes of the research signals of one asset: the evaluation   *)
(* of a hypothesis (cmd/marketops-hypothesis-evaluator), the opportunities *)
(* built from it (cmd/marketops-opportunity-builder) and the runs that     *)
(* measure both against the closes that follow                             *)
(* (cmd/marketops-outcome-materializer, internal/marketops/outcomes,       *)
(* storage/postgres/marketops_outcomes.go).                                *)
(*                                                                         *)
(* Days are numbered weekdays.  Runs are started by the daily script and   *)
(* by hand, for any as-of day, and may overlap; each statement of a run is *)
(* a step of its own.  What a verdict rests on is not tracked: the         *)
(* evaluator may find for either direction and may revise what it found.   *)
(***************************************************************************)
EXTENDS Integers, Sequences, FiniteSets, SequencesExt

CONSTANTS
  MaxDay,        \* the last weekday
  Origins,       \* days with a market state
  Horizons,      \* outcome horizons, in sessions
  OutcomeRuns,   \* runs that may overlap
  MaxPrices,     \* bound: bars normalized
  MaxVerdicts,   \* bound: evaluations written
  MaxStops       \* bound: runs stopped by a crash or a database error

Days == 1..MaxDay

ASSUME OutcomeAssumption ==
  /\ MaxDay \in Nat \ {0}
  /\ Origins \subseteq Days /\ Horizons \subseteq Nat \ {0}
  /\ MaxPrices \in Nat /\ MaxVerdicts \in Nat /\ MaxStops \in Nat

VARIABLES
  arrived,       \* days with a bar in the normalized ledger, by first arrival
  badPrice,      \* of these, days whose latest bar is not valid
  prices,        \* bars normalized so far
  evaluation,    \* per origin: "none" or the row's verdict
  verdicts,      \* evaluations written so far
  opportunities, \* rows <<session, direction>>
  building,      \* opportunities the builder has still to write
  outcomes,      \* marketops_signal_outcomes
  at, asOf, sources, batch, \* per run: place, cut, sources read, rows to write
  stops

priceVars == <<arrived, badPrice, prices>>
sourceVars == <<evaluation, verdicts, opportunities, building>>
measureVars == <<at, asOf, sources, batch>>
outcomeVars == <<priceVars, sourceVars, outcomes, measureVars, stops>>

Directions == {"upside", "downside"}
Verdicts == {"not_triggered"} \cup Directions
Statuses == {"pending", "missing_price", "matured"}
Source == [type : {"hypothesis_evaluation", "opportunity"}, origin : Origins, direction : Directions]
(* "figures" is the direction the row's measures were taken for.           *)
Outcome == [source : Source, horizon : Horizons, status : Statuses,
            figures : Directions \cup {"none"}, window : SUBSET Days]

OutcomeTypeOK ==
  /\ arrived \in Seq(Days) /\ badPrice \subseteq Range(arrived) /\ prices \in 0..MaxPrices
  /\ evaluation \in [Origins -> {"none"} \cup Verdicts]
  /\ verdicts \in 0..MaxVerdicts
  /\ opportunities \subseteq Origins \X Directions /\ building \subseteq Origins \X Directions
  /\ outcomes \subseteq Outcome
  /\ at \in [OutcomeRuns -> {"idle", "opportunities", "events", "write"}]
  /\ asOf \in [OutcomeRuns -> Days \cup {0}]
  /\ \A r \in OutcomeRuns : sources[r] \subseteq Source /\ batch[r] \subseteq Outcome
  /\ stops \in 0..MaxStops

OutcomeInit ==
  /\ arrived = <<>> /\ badPrice = {} /\ prices = 0
  /\ evaluation = [d \in Origins |-> "none"] /\ verdicts = 0
  /\ opportunities = {} /\ building = {}
  /\ outcomes = {}
  /\ at = [r \in OutcomeRuns |-> "idle"] /\ asOf = [r \in OutcomeRuns |-> 0]
  /\ sources = [r \in OutcomeRuns |-> {}] /\ batch = [r \in OutcomeRuns |-> {}]
  /\ stops = 0

(* The normalizer stores a day's bar, late or early, or replaces it: the   *)
(* provider's event id is the day's, and the latest row counts.            *)
StorePrice(d, valid) ==
  /\ prices < MaxPrices /\ prices' = prices + 1
  /\ arrived' = IF d \in Range(arrived) THEN arrived ELSE Append(arrived, d)
  /\ badPrice' = IF valid THEN badPrice \ {d} ELSE badPrice \cup {d}
  /\ UNCHANGED <<sourceVars, outcomes, measureVars, stops>>

(* UpsertMarketOpsHypothesisEvaluation: the row of the session's state is  *)
(* replaced, its resolved direction included.                              *)
EvaluateState(d, verdict) ==
  /\ verdicts < MaxVerdicts /\ verdicts' = verdicts + 1
  /\ evaluation' = [evaluation EXCEPT ![d] = verdict]
  /\ UNCHANGED <<priceVars, opportunities, building, outcomes, measureVars, stops>>

Triggered == {e \in Origins \X Directions : evaluation[e[1]] = e[2]}

BuildOpportunities ==
  /\ building = {} /\ Triggered # {}
  /\ building' = Triggered
  /\ UNCHANGED <<priceVars, evaluation, verdicts, opportunities, outcomes, measureVars, stops>>

(* The direction is part of an opportunity's identity, and no row is ever  *)
(* taken back.                                                             *)
UpsertOpportunity(e) ==
  /\ e \in building
  /\ building' = building \ {e} /\ opportunities' = opportunities \cup {e}
  /\ UNCHANGED <<priceVars, evaluation, verdicts, outcomes, measureVars, stops>>

BuilderStops ==
  /\ building # {} /\ building' = {}
  /\ stops < MaxStops /\ stops' = stops + 1
  /\ UNCHANGED <<priceVars, evaluation, verdicts, opportunities, outcomes, measureVars>>

----------------------------------------------------------------------------
(* materialize: the sources are read in two statements, the bars in a      *)
(* third; outcomes.Build works on these.                                   *)
SourcesOf(type, pairs, cut) ==
  {[type |-> type, origin |-> e[1], direction |-> e[2]] : e \in {p \in pairs : p[1] <= cut}}

ListEvaluations(r, cut) ==
  /\ at[r] = "idle"
  /\ at' = [at EXCEPT ![r] = "opportunities"]
  /\ asOf' = [asOf EXCEPT ![r] = cut]
  /\ sources' = [sources EXCEPT ![r] = SourcesOf("hypothesis_evaluation", Triggered, cut)]
  /\ UNCHANGED <<priceVars, sourceVars, outcomes, batch, stops>>

ListOpportunities(r) ==
  /\ at[r] = "opportunities"
  /\ at' = [at EXCEPT ![r] = "events"]
  /\ sources' = [sources EXCEPT ![r] = @ \cup SourcesOf("opportunity", opportunities, asOf[r])]
  /\ UNCHANGED <<priceVars, sourceVars, outcomes, asOf, batch, stops>>

(* equityHistory: the sessions with a bar up to the cut, each with its     *)
(* place in the order of days.                                             *)
EquityHistory(cut) == {d \in Range(arrived) : d <= cut}

PriceGapStatus(cut, origin, horizon) ==
  IF cut >= origin + horizon THEN "missing_price" ELSE "pending"

Oldest(sessions, n) ==
  CHOOSE w \in SUBSET sessions :
    Cardinality(w) = n /\ \A d \in w, later \in sessions \ w : d < later

(* Wrong variant: a session whose bar is not valid is passed over.         *)
WindowOfValidBars(history, origin, horizon) ==
  LET after == {d \in history \ badPrice : d > origin}
  IN IF origin \notin history \ badPrice \/ horizon > Cardinality(after) THEN {}
     ELSE Oldest(after, horizon)

(* The horizon is counted in sessions that have a bar, valid or not.       *)
ForwardWindow(history, origin, horizon) ==
  LET after == {d \in history : d > origin}
  IN IF origin \notin history \ badPrice \/ horizon > Cardinality(after) THEN {}
     ELSE Oldest(after, horizon)

BuildOutcome(s, horizon, cut) ==
  LET window == ForwardWindow(EquityHistory(cut), s.origin, horizon)
      status == IF window = {} THEN PriceGapStatus(cut, s.origin, horizon)
                ELSE IF window \cap badPrice # {} THEN "missing_price"
                ELSE "matured"
  IN [source |-> s, horizon |-> horizon, status |-> status,
      figures |-> IF status = "matured" THEN s.direction ELSE "none",
      window |-> IF status = "matured" THEN window ELSE {}]

(* Build sorts its rows by origin, source id and horizon; ids are hashes,  *)
(* so the one order in which CHOOSE takes them stands for the others.      *)
ListEquityEvents(r) ==
  /\ at[r] = "events"
  /\ batch' = [batch EXCEPT ![r] = {BuildOutcome(s, h, asOf[r]) : s \in sources[r], h \in Horizons}]
  /\ at' = [at EXCEPT ![r] = IF batch'[r] = {} THEN "idle" ELSE "write"]
  /\ asOf' = [asOf EXCEPT ![r] = 0]
  /\ sources' = [sources EXCEPT ![r] = {}]
  /\ UNCHANGED <<priceVars, sourceVars, outcomes, stops>>

(* Wrong variant: one row for a session's opportunities.                   *)
SameSession(a, b) ==
  a.horizon = b.horizon /\ a.source.type = b.source.type /\ a.source.origin = b.source.origin

(* The outcome's deterministic key leaves an evaluation's direction out.   *)
SameOutcome(a, b) ==
  /\ a.horizon = b.horizon /\ a.source.type = b.source.type /\ a.source.origin = b.source.origin
  /\ a.source.type = "opportunity" => a.source.direction = b.source.direction

(* Wrong variants of the ON CONFLICT update's condition.                  *)
OverwritesUnlessMatured(new, old) == old.status # "matured"
OverwritesPendingOnly(new, old) == old.status = "pending"

Overwrites(new, old) ==
  /\ old.status # "matured"
  /\ ~(old.status = "missing_price" /\ new.status = "pending")

(* The direction column is not among the columns updated.                  *)
Upserted(new) ==
  LET stored == {o \in outcomes : SameOutcome(o, new)}
  IN IF stored = {} THEN outcomes \cup {new}
     ELSE (outcomes \ stored) \cup
          {IF Overwrites(new, old) THEN [new EXCEPT !.source = old.source] ELSE old : old \in stored}

UpsertOutcome(r) ==
  /\ at[r] = "write"
  /\ LET new == CHOOSE o \in batch[r] : TRUE IN
       /\ outcomes' = Upserted(new)
       /\ batch' = [batch EXCEPT ![r] = @ \ {new}]
  /\ at' = [at EXCEPT ![r] = IF batch'[r] = {} THEN "idle" ELSE @]
  /\ UNCHANGED <<priceVars, sourceVars, asOf, sources, stops>>

OutcomeRunStops(r) ==
  /\ at[r] # "idle" /\ stops < MaxStops /\ stops' = stops + 1
  /\ at' = [at EXCEPT ![r] = "idle"] /\ asOf' = [asOf EXCEPT ![r] = 0]
  /\ sources' = [sources EXCEPT ![r] = {}] /\ batch' = [batch EXCEPT ![r] = {}]
  /\ UNCHANGED <<priceVars, sourceVars, outcomes>>

OutcomeRun(r) == ListOpportunities(r) \/ ListEquityEvents(r) \/ UpsertOutcome(r)

OutcomeNext ==
  \/ \E d \in Days, valid \in BOOLEAN : StorePrice(d, valid)
  \/ \E d \in Origins, v \in Verdicts : EvaluateState(d, v)
  \/ BuildOpportunities \/ BuilderStops
  \/ \E e \in building : UpsertOpportunity(e)
  \/ \E r \in OutcomeRuns :
       \/ \E cut \in Days : ListEvaluations(r, cut)
       \/ OutcomeRun(r) \/ OutcomeRunStops(r)

(* The daily script's sweep over the rolling opportunity history runs      *)
(* again and again with the newest session as its cut; runs proceed.       *)
Sweep == opportunities # {} /\ \E r \in OutcomeRuns : ListEvaluations(r, MaxDay)

OutcomeFairness ==
  SF_outcomeVars(Sweep) /\ WF_outcomeVars(\E r \in OutcomeRuns : OutcomeRun(r))

OutcomeSpec == OutcomeInit /\ [][OutcomeNext]_outcomeVars /\ OutcomeFairness

----------------------------------------------------------------------------
Matured == {o \in outcomes : o.status = "matured"}
ArrivalOf(d) == CHOOSE i \in DOMAIN arrived : arrived[i] = d

(* What a matured row measured is what the ledger showed at one moment:    *)
(* exactly the horizon's number of sessions after the origin, and a        *)
(* session before the last of them was passed over only if its first bar   *)
(* came after all those measured (materializer.go, buildOutcome: an        *)
(* outcome is never recalculated once a late bar closes the gap).          *)
WindowsAreSessions ==
  \A o \in Matured :
    LET origin == o.source.origin
        measured == {origin} \cup o.window
    IN /\ Cardinality(o.window) = o.horizon
       /\ measured \subseteq Range(arrived) /\ \A d \in o.window : origin < d
       /\ \A d \in Range(arrived) \ measured :
            origin < d /\ (\E m \in o.window : d < m) =>
              \A m \in measured : ArrivalOf(m) < ArrivalOf(d)

(* A row's direction and its directional hit and excursions are of one     *)
(* direction, unless a later evaluation turned the verdict of the session: *)
(* the upsert leaves the direction column as first inserted                *)
(* (marketops_outcomes.go).  An opportunity's row never disagrees.         *)
FiguresFitDirection ==
  \A o \in Matured : o.figures # o.source.direction =>
    /\ o.source.type = "hypothesis_evaluation"
    /\ verdicts > Cardinality({d \in Origins : evaluation[d] # "none"})

(* Outcomes only progress, whichever of the overlapping runs writes last   *)
(* and for whatever cut: a measured row stays as it is, a row found        *)
(* without a price is never waiting again (build_journal.md, G140).        *)
OutcomesProgress ==
  [][\A o \in outcomes : \E n \in outcomes' :
       /\ SameOutcome(n, o)
       /\ o.status = "matured" => n = o
       /\ o.status = "missing_price" => n.status # "pending"]_outcomeVars

Unmeasured ==
  {x \in opportunities \X Horizons :
     /\ x[1][1]..(x[1][1] + x[2]) \subseteq Range(arrived) \ badPrice
     /\ ~\E o \in Matured : /\ o.source.type = "opportunity" /\ o.horizon = x[2]
                            /\ <<o.source.origin, o.source.direction>> = x[1]}

(* Time and again every opportunity whose bars are there and valid up to a *)
(* horizon is measured for it, whatever was found before the bars came: a  *)
(* row without a price is not given up.                                    *)
PathIsMeasured == []<>(Unmeasured = {})
=============================================================================
