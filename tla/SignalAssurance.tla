--------------------------- MODULE SignalAssurance ---------------------------
(***************************************************************************)
(* The signal assurance framework: the registrar that turns eligible       *)
(* events into assertions (cmd/marketops-signal-assurance-registrar), the  *)
(* evaluation runs of the post-close workflow                              *)
(* (cmd/marketops-signal-assurance-worker, internal/marketops/             *)
(* signalassurance), their tables (storage/postgres/signal_assurance.go)   *)
(* and the outbox of lifecycle events                                      *)
(* (cmd/marketops-signal-assurance-outbox).                                *)
(*                                                                         *)
(* Days are numbered; a session's bar is processed after midnight of its   *)
(* own day or of a later one, and as-of dates are midnights.  A close is   *)
(* "up", "down" or "flat": at the threshold or the invalidation floor of   *)
(* the contract relative to the assertion's baseline, or in between.       *)
(* All assertions are of one mode and run, fewer than a run lists.         *)
(* Supersession is never requested by the worker; the projection of LIVE   *)
(* outcomes and the effectiveness snapshots are left out.                  *)
(***************************************************************************)
EXTENDS Naturals, Sequences, FiniteSets, FiniteSetsExt

CONSTANTS
  Signals,
  Confirmed,     \* by signal: day of confirmed_at
  Closes,        \* by signal: its sessions' bars, [close, processed] by day
  Horizon,       \* MaxHorizonTradingDays
  AsOf,          \* as-of dates runs are started for
  Workers, Relays,
  PageSize,      \* rows the outbox lists (100)
  MaxMessages, MaxRuns, MaxBreaks

States == {"ACTIVE", "MATERIALIZED", "INVALIDATED", "EXPIRED"}
Terminal == States \ {"ACTIVE"}

ASSUME AssuranceAssumption ==
  /\ Confirmed \in [Signals -> Nat]
  /\ \A s \in Signals : DOMAIN Closes[s] \subseteq Nat /\ IsFiniteSet(DOMAIN Closes[s])
  /\ \A s \in Signals : \A d \in DOMAIN Closes[s] :
       /\ Closes[s][d].close \in {"up", "down", "flat"}
       /\ Closes[s][d].processed \in Nat /\ Closes[s][d].processed >= d
  /\ Horizon \in Nat \ {0} /\ AsOf \subseteq Nat \ {0}
  /\ PageSize \in Nat \ {0}
  /\ MaxMessages \in Nat /\ MaxRuns \in Nat /\ MaxBreaks \in Nat

VARIABLES
  topic,      \* eligible events, by signal
  next,       \* registrar: position of the message it is at
  committed,  \* its group's offset
  handled,    \* registrar: the message is registered, the commit is due
  state,      \* signal_assertions: state, or "none"
  evaluated,  \* signal_assertion_evaluations: as-of dates by signal
  written, marked, delivered, \* signal_assertion_events, published_at, topic
  wDay,       \* by worker: as-of date of its run, 0 between runs
  wTodo,      \* by worker: listed assertions still to evaluate
  page,       \* by relay: listed events still to publish
  relayAt,    \* by relay: "down", "publish" or "mark"
  runs, breaks

registrarVars == <<topic, next, committed, handled>>
assertionVars == <<state, evaluated, written>>
outboxVars == <<marked, delivered, page, relayAt>>
runVars == <<wDay, wTodo, runs>>
assuranceVars == <<registrarVars, assertionVars, outboxVars, runVars, breaks>>

(* A lifecycle event: its assertion and new state.                         *)
EventRows == Signals \X States

AssuranceTypeOK ==
  /\ topic \in Seq(Signals) /\ Len(topic) <= MaxMessages
  /\ next \in 1..Len(topic) + 1 /\ committed \in 0..Len(topic)
  /\ handled \in BOOLEAN
  /\ state \in [Signals -> States \cup {"none"}]
  /\ evaluated \in [Signals -> SUBSET AsOf]
  /\ written \subseteq EventRows /\ delivered \subseteq written /\ marked \subseteq delivered
  /\ wDay \in [Workers -> AsOf \cup {0}] /\ wTodo \in [Workers -> SUBSET Signals]
  /\ page \in [Relays -> Seq(EventRows)] /\ relayAt \in [Relays -> {"down", "publish", "mark"}]
  /\ runs \in 0..MaxRuns /\ breaks \in 0..MaxBreaks

AssuranceInit ==
  /\ topic = <<>> /\ next = 1 /\ committed = 0 /\ handled = FALSE
  /\ state = [s \in Signals |-> "none"]
  /\ evaluated = [s \in Signals |-> {}]
  /\ written = {} /\ marked = {} /\ delivered = {}
  /\ wDay = [w \in Workers |-> 0] /\ wTodo = [w \in Workers |-> {}]
  /\ page = [r \in Relays |-> <<>>] /\ relayAt \in [Relays -> {"down", "publish"}]
  /\ runs = 0 /\ breaks = 0

Mishap == breaks < MaxBreaks /\ breaks' = breaks + 1

-----------------------------------------------------------------------------
(* The registrar.                                                          *)

(* An eligible event; a producer may send it again.                        *)
Announce(s) ==
  /\ Len(topic) < MaxMessages
  /\ topic' = Append(topic, s)
  /\ UNCHANGED <<next, committed, handled, assertionVars, outboxVars, runVars, breaks>>

(* RegisterSignalAssuranceAssertion: the assertion and its first event in  *)
(* one transaction, unless the registration key is known.                  *)
Register ==
  /\ next <= Len(topic) /\ ~handled
  /\ handled' = TRUE
  /\ LET s == topic[next] IN
       IF state[s] = "none"
       THEN /\ state' = [state EXCEPT ![s] = "ACTIVE"]
            /\ written' = written \cup {<<s, "ACTIVE">>}
       ELSE UNCHANGED <<state, written>>
  /\ UNCHANGED <<topic, next, committed, evaluated, outboxVars, runVars, breaks>>

(* "source offset remains uncommitted": the loop goes on with the next     *)
(* message, and that one's commit covers this one too.                     *)
Refuse ==
  /\ next <= Len(topic) /\ ~handled /\ Mishap
  /\ next' = next + 1
  /\ UNCHANGED <<topic, committed, handled, assertionVars, outboxVars, runVars>>

CommitRegistration ==
  /\ handled
  /\ committed' = next /\ next' = next + 1 /\ handled' = FALSE
  /\ UNCHANGED <<topic, assertionVars, outboxVars, runVars, breaks>>

RestartRegistrar ==
  /\ Mishap
  /\ next' = committed + 1 /\ handled' = FALSE
  /\ UNCHANGED <<topic, committed, assertionVars, outboxVars, runVars>>

-----------------------------------------------------------------------------
(* Evaluate (evaluation.go) on the input marketInput gives it.             *)

(* Bars observed and processed by the as-of date.                          *)
Seen(s, t) == {d \in DOMAIN Closes[s] : d <= t /\ Closes[s][d].processed < t}

(* Sessions from the day of the confirmation on: the baseline's session    *)
(* counts.                                                                 *)
TradingDaysActive(s, t) == Cardinality({d \in Seen(s, t) : d >= Confirmed[s]})

(* "Precedence is normative": materialization, invalidation, expiry.       *)
NextState(s, t) ==
  IF Seen(s, t) = {} THEN "ACTIVE"
  ELSE LET close == Closes[s][Max(Seen(s, t))].close IN
       IF close = "up" THEN "MATERIALIZED"
       ELSE IF close = "down" THEN "INVALIDATED"
       ELSE IF TradingDaysActive(s, t) >= Horizon THEN "EXPIRED"
       ELSE "ACTIVE"

(* A run lists the ACTIVE assertions.                                      *)
StartRun(w, t) ==
  /\ wDay[w] = 0 /\ runs < MaxRuns /\ runs' = runs + 1
  /\ wDay' = [wDay EXCEPT ![w] = t]
  /\ wTodo' = [wTodo EXCEPT ![w] = {s \in Signals : state[s] = "ACTIVE"}]
  /\ UNCHANGED <<registrarVars, assertionVars, outboxVars, breaks>>

(* PersistSignalAssuranceEvaluation of a listed assertion, with the row    *)
(* locked: an assertion no longer ACTIVE is a conflict that ends the run,  *)
(* a session evaluated before is left as it is, and else the evaluation,   *)
(* the state and its event are one transaction.                            *)
Persisted(s, t) ==
  /\ evaluated' = [evaluated EXCEPT ![s] = @ \cup {t}]
  /\ state' = [state EXCEPT ![s] = NextState(s, t)]
  /\ written' = written \cup {<<s, NextState(s, t)>>}

(* Wrong variant: the state listed is taken for the state stored.          *)
PersistUnchecked(w) ==
  \E s \in wTodo[w] :
    /\ wTodo' = [wTodo EXCEPT ![w] = @ \ {s}]
    /\ IF wDay[w] \in evaluated[s] THEN UNCHANGED assertionVars
                                   ELSE Persisted(s, wDay[w])
    /\ UNCHANGED <<registrarVars, outboxVars, wDay, runs, breaks>>

PersistEvaluation(w) ==
  \E s \in wTodo[w] :
    /\ IF state[s] # "ACTIVE"
       THEN /\ wTodo' = [wTodo EXCEPT ![w] = {}]
            /\ UNCHANGED assertionVars
       ELSE /\ wTodo' = [wTodo EXCEPT ![w] = @ \ {s}]
            /\ IF wDay[w] \in evaluated[s] THEN UNCHANGED assertionVars
                                           ELSE Persisted(s, wDay[w])
    /\ UNCHANGED <<registrarVars, outboxVars, wDay, runs, breaks>>

EndRun(w) ==
  /\ wDay[w] # 0 /\ wTodo[w] = {}
  /\ wDay' = [wDay EXCEPT ![w] = 0]
  /\ UNCHANGED <<registrarVars, assertionVars, outboxVars, wTodo, runs, breaks>>

(* A query fails or the worker stops.                                      *)
AbortRun(w) ==
  /\ wTodo[w] # {} /\ Mishap
  /\ wTodo' = [wTodo EXCEPT ![w] = {}]
  /\ UNCHANGED <<registrarVars, assertionVars, outboxVars, wDay, runs>>

-----------------------------------------------------------------------------
(* The outbox.                                                             *)
Undelivered == written \ marked

(* occurred_at: the time of the confirmation, on its day, or the as-of     *)
(* date, a midnight.                                                       *)
Occurred(e) ==
  IF e[2] = "ACTIVE" THEN 2 * Confirmed[e[1]] + 1
  ELSE 2 * (CHOOSE t \in evaluated[e[1]] : NextState(e[1], t) = e[2])

(* ListUndeliveredSignalAssertionEvents: ORDER BY occurred_at, event_id.   *)
Pages ==
  {q \in [1..Min({PageSize, Cardinality(Undelivered)}) -> Undelivered] :
     \A i \in DOMAIN q :
       /\ \A j \in 1..i - 1 : q[j] # q[i]
       /\ \A e \in Undelivered \ {q[j] : j \in 1..i} : Occurred(q[i]) <= Occurred(e)}

ListEvents(r) ==
  /\ relayAt[r] = "publish" /\ page[r] = <<>> /\ Undelivered # {}
  /\ \E q \in Pages : page' = [page EXCEPT ![r] = q]
  /\ UNCHANGED <<registrarVars, assertionVars, marked, delivered, relayAt, runVars, breaks>>

(* Wrong variant: the mark is set before the publish.                      *)
MarkFirst(r) ==
  /\ relayAt[r] = "publish" /\ page[r] # <<>>
  /\ marked' = marked \cup {Head(page[r])}
  /\ relayAt' = [relayAt EXCEPT ![r] = "mark"]
  /\ UNCHANGED <<registrarVars, assertionVars, delivered, page, runVars, breaks>>

PublishEvent(r) ==
  /\ relayAt[r] = "publish" /\ page[r] # <<>>
  /\ delivered' = delivered \cup {Head(page[r])}
  /\ relayAt' = [relayAt EXCEPT ![r] = "mark"]
  /\ UNCHANGED <<registrarVars, assertionVars, marked, page, runVars, breaks>>

(* Wrong variant: the mark is not set.                                     *)
PassEvent(r) ==
  /\ relayAt[r] = "mark"
  /\ relayAt' = [relayAt EXCEPT ![r] = "publish"] /\ page' = [page EXCEPT ![r] = Tail(@)]
  /\ UNCHANGED <<registrarVars, assertionVars, marked, delivered, runVars, breaks>>

(* MarkSignalAssertionEventPublished: of an event that another process     *)
(* marked first it is ErrNotFound, which ends this one.                    *)
MarkEvent(r) ==
  /\ relayAt[r] = "mark"
  /\ marked' = marked \cup {Head(page[r])}
  /\ IF Head(page[r]) \in marked
     THEN relayAt' = [relayAt EXCEPT ![r] = "down"] /\ page' = [page EXCEPT ![r] = <<>>]
     ELSE relayAt' = [relayAt EXCEPT ![r] = "publish"] /\ page' = [page EXCEPT ![r] = Tail(@)]
  /\ UNCHANGED <<registrarVars, assertionVars, delivered, runVars, breaks>>

(* A publish or a query fails, after it took effect or before, or the      *)
(* process is stopped: it ends, and nothing starts it but an operator.     *)
RelayEnds(r) ==
  /\ relayAt[r] # "down" /\ Mishap
  /\ LET head == {page[r][i] : i \in {1} \cap DOMAIN page[r]} IN
       \/ UNCHANGED <<delivered, marked>>
       \/ relayAt[r] = "publish" /\ delivered' = delivered \cup head /\ UNCHANGED marked
       \/ relayAt[r] = "mark" /\ marked' = marked \cup head /\ UNCHANGED delivered
  /\ relayAt' = [relayAt EXCEPT ![r] = "down"] /\ page' = [page EXCEPT ![r] = <<>>]
  /\ UNCHANGED <<registrarVars, assertionVars, runVars>>

StartRelay(r) ==
  /\ relayAt[r] = "down" /\ relayAt' = [relayAt EXCEPT ![r] = "publish"]
  /\ UNCHANGED <<registrarVars, assertionVars, marked, delivered, page, runVars, breaks>>

-----------------------------------------------------------------------------
Relay(r) == ListEvents(r) \/ PublishEvent(r) \/ MarkEvent(r)

AssuranceNext ==
  \/ \E s \in Signals : Announce(s)
  \/ Register \/ Refuse \/ CommitRegistration \/ RestartRegistrar
  \/ \E w \in Workers :
       (\E t \in AsOf : StartRun(w, t)) \/ PersistEvaluation(w) \/ EndRun(w) \/ AbortRun(w)
  \/ \E r \in Relays : Relay(r) \/ RelayEnds(r) \/ StartRelay(r)

AssuranceSpec == AssuranceInit /\ [][AssuranceNext]_assuranceVars

(* A relay that runs goes on.                                              *)
AssuranceFairness == \A r \in Relays : WF_assuranceVars(Relay(r))

-----------------------------------------------------------------------------
(* Replay "MUST NOT create duplicate lifecycle transitions" and "no        *)
(* terminal outcome may be replaced by another" (SignalOps_Signal_         *)
(* Assurance_Framework_v1.1_Codex_Spec.md:808, :224), whatever runs race   *)
(* for whatever dates: an assertion's events are the creation and at most  *)
(* one outcome, its state, and of its evaluations just one decided it.     *)
OutcomeIsDecidedOnce ==
  \A s \in Signals :
    /\ \A x \in States :
         <<s, x>> \in written <=> state[s] # "none" /\ x \in {"ACTIVE", state[s]}
    /\ state[s] \in Terminal =>
         \E t \in evaluated[s] :
           /\ NextState(s, t) = state[s]
           /\ \A u \in evaluated[s] \ {t} : NextState(s, u) = "ACTIVE"

(* The lifecycle events are an outbox.                                     *)
Outbox == INSTANCE TransactionalOutbox WITH Rows <- EventRows
ImplementsOutbox == Outbox!Spec

(* "Events are an outbox-backed audit stream" (...Codex_Spec.md:729):      *)
(* while some relay runs the outbox is emptied again and again, whatever   *)
(* the relays that stopped between a publish and its mark left behind, and *)
(* whichever of two relays ends because the other marked first.            *)
OutboxIsEmptied ==
  []<>(written = marked \/ \A r \in Relays : relayAt[r] = "down")

(* A trading day is a session after the baseline's: an assertion expires   *)
(* when Horizon of them have been seen.                                    *)
ExpiresAtHorizon ==
  \A s \in Signals :
    state[s] = "EXPIRED" =>
      \E t \in evaluated[s] :
        Cardinality({d \in Seen(s, t) : d > Confirmed[s]}) >= Horizon
=============================================================================
