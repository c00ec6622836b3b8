-------------------------- MODULE CyberOpsLifecycle --------------------------
(***************************************************************************)
(* The policy path of CyberOps signals (PersistPolicySignalLifecycle,      *)
(* internal/storage/postgres/cyberops_lifecycle.go): signal persisters     *)
(* evaluate external-deny, public-service-exposure and port-scan policies  *)
(* in the transaction that stores a signal, while operators approve        *)
(* services and change policy modes.                                       *)
(*                                                                         *)
(* All signals have one tenant, source, destination and protocol, so a     *)
(* port names an approved service.  The signal topic has partitions keyed  *)
(* by signal: signals come in any order, and again.  A signal id is a hash *)
(* of its event (detection/detector.go), so ids have an order that has     *)
(* nothing to do with time.                                                *)
(***************************************************************************)
EXTENDS Integers, Sequences, FiniteSets

CONSTANTS
  Ports,
  Denies,         \* external_deny signals: [port, at]
  Exposures,      \* new_public_service_exposure signals: [port, at]
  Rank,           \* the order of the signal ids
  Persisters,
  MaxEpisodeSignals,  \* signal ids an episode keeps (100)
  Threshold,      \* distinct denied ports of a scan (10)
  Window,         \* five minutes, in units of signal times
  MaxDeliveries,  \* bound: signals taken from the topic, redeliveries included
  MaxChanges      \* bound: operator changes

Modes == {"disabled", "shadow", "enforced"}
Policies == {"external-deny", "public-service-exposure", "port-scan"}
Signals == Denies \cup Exposures

ASSUME PolicyAssumption ==
  /\ Denies \cup Exposures \subseteq [port : Ports, at : Nat]
  /\ Denies \cap Exposures = {} /\ IsFiniteSet(Signals) /\ IsFiniteSet(Persisters)
  /\ Rank \in [Signals -> Nat] /\ \A s, t \in Signals : Rank[s] = Rank[t] => s = t
  /\ MaxEpisodeSignals \in Nat \ {0}
  /\ Threshold \in Nat \ {0} /\ Window \in Nat \ {0}
  /\ MaxDeliveries \in Nat /\ MaxChanges \in Nat

VARIABLES
  team,        \* the persisters deployed
  mode,        \* cyberops_lifecycle_policies, by policy
  approved,    \* cyberops_approved_services
  ledger,      \* signal_ledger by created_at
  decisions,   \* cyberops_lifecycle_decisions: [policy, sig, disposition, work]
  episodes,    \* cyberops_lifecycle_episodes, by key
  work,        \* the keys that have their insight or alert
  tx,          \* by persister: its transaction
  deliveries, changes

policyVars == <<mode, approved>>
storeVars == <<ledger, decisions, episodes, work>>
lifecyclePolicyVars == <<team, policyVars, storeVars, tx, deliveries, changes>>

Stored == {ledger[i] : i \in 1..Len(ledger)}

(* fingerprint, and with it the episode, insight and alert ids             *)
Key(p, s) == <<p, IF p = "port-scan" THEN s.at \div Window ELSE s.port>>
Keys == Policies \X (Ports \cup {s.at \div Window : s \in Signals})
Dispositions == {"record_only", "create_or_update_insight", "create_or_update_alert"}
Decision ==
  [policy : Policies, sig : Signals, disposition : Dispositions, work : BOOLEAN]
Idle == [at |-> "idle"]
NoEpisode == [count |-> 0, signals |-> {}, last |-> 0, work |-> FALSE]

PolicyTypeOK ==
  /\ team \subseteq Persisters
  /\ mode \in [Policies -> Modes] /\ approved \subseteq Ports
  /\ ledger \in Seq(Signals)
  /\ decisions \subseteq Decision
  /\ DOMAIN episodes = Keys
  /\ \A k \in Keys :
       /\ episodes[k].count \in Nat /\ episodes[k].last \in Nat
       /\ episodes[k].signals \subseteq Signals /\ episodes[k].work \in BOOLEAN
  /\ work \subseteq Keys
  /\ DOMAIN tx = Persisters
  /\ \A w \in Persisters :
       \/ tx[w] = Idle
       \/ tx[w].at = "loaded" /\ tx[w].sig \in Signals /\ tx[w].modes \in [Policies -> Modes]
       \/ tx[w].at = "evaluated" /\ tx[w].sig \in Signals /\ tx[w].new \subseteq Decision
  /\ deliveries \in 0..MaxDeliveries /\ changes \in 0..MaxChanges

PolicyInit ==
  /\ team \in SUBSET Persisters /\ team # {}
  /\ mode \in {[p \in Policies |-> m] : m \in {"shadow", "enforced"}}
  /\ approved = {}
  /\ ledger = <<>> /\ decisions = {} /\ work = {}
  /\ episodes = [k \in Keys |-> NoEpisode]
  /\ tx = [w \in Persisters |-> Idle]
  /\ deliveries = 0 /\ changes = 0

-----------------------------------------------------------------------------
(* cyberOpsPolicies, before the transaction.  With every policy disabled   *)
(* the generic path of SignalLifecycle stores the signal.                  *)
LoadPolicies(w, s) ==
  /\ tx[w] = Idle /\ deliveries < MaxDeliveries
  /\ tx' = [tx EXCEPT ![w] = [at |-> "loaded", sig |-> s, modes |-> mode]]
  /\ deliveries' = deliveries + 1
  /\ UNCHANGED <<team, policyVars, storeVars, changes>>

(* Wrong variant: the count leaves out the start of the window.            *)
LateWindow(s) == (s.at - Window + 1)..s.at

InWindow(s) == (s.at - Window)..s.at

(* deniedPortCount over what is committed and the transaction's own row.   *)
DeniedPorts(s) == {d.port : d \in {x \in (Stored \cup {s}) \cap Denies : x.at \in InWindow(s)}}

Matches(p, s) ==
  CASE p = "external-deny" -> s \in Denies
    [] p = "public-service-exposure" -> s \in Exposures
    [] p = "port-scan" -> s \in Denies /\ Cardinality(DeniedPorts(s)) >= Threshold

Disposition(p, s) ==
  CASE p = "external-deny" -> "record_only"
    [] p = "public-service-exposure" ->
         IF s.port \in approved THEN "record_only" ELSE "create_or_update_insight"
    [] p = "port-scan" -> "create_or_update_alert"

(* The signal's row and applyCyberOpsPolicy for each policy, not committed *)
(* yet; the row is locked against another transaction of the same signal.  *)
Evaluate(w) ==
  /\ tx[w].at = "loaded"
  /\ \A v \in Persisters : tx[v].at = "evaluated" => tx[v].sig # tx[w].sig
  /\ LET s == tx[w].sig
         modes == tx[w].modes
         matching == {p \in Policies : modes[p] # "disabled" /\ Matches(p, s)} IN
       tx' = [tx EXCEPT ![w] = [at |-> "evaluated", sig |-> s,
         new |-> {[policy |-> p, sig |-> s, disposition |-> Disposition(p, s),
                   work |-> modes[p] = "enforced" /\ Disposition(p, s) # "record_only"] :
                  p \in matching}]]
  /\ UNCHANGED <<team, policyVars, storeVars, deliveries, changes>>

Later(a, b) == IF a <= b THEN b ELSE a

(* Wrong variant: the episode keeps only the newest signal.                *)
Replaced(ep, d) ==
  [count |-> ep.count + 1, signals |-> {d.sig}, last |-> d.sig.at, work |-> d.work]

(* ARRAY(SELECT DISTINCT x ... ORDER BY x DESC LIMIT 100)                   *)
Kept(sigs) ==
  {s \in sigs : Cardinality({x \in sigs : Rank[x] > Rank[s]}) < MaxEpisodeSignals}

(* The upsert of an episode: a redelivery counts again.                    *)
Observed(ep, d) ==
  [count |-> ep.count + 1,
   signals |-> Kept(ep.signals \cup {d.sig}),
   last |-> Later(ep.last, d.sig.at),
   work |-> ep.work \/ d.work]

Decided(p, s) == \E d \in decisions : d.policy = p /\ d.sig = s

(* Wrong variant: decisions without the unique constraint.                 *)
Added(new) == decisions \cup new

(* ON CONFLICT (tenant_id, signal_id, policy_id) DO NOTHING                *)
Recorded(new) == decisions \cup {d \in new : ~Decided(d.policy, d.sig)}

Commit(w) ==
  /\ tx[w].at = "evaluated"
  /\ LET new == tx[w].new  KeyOf(d) == Key(d.policy, d.sig) IN
       /\ ledger' = IF tx[w].sig \in Stored THEN ledger ELSE Append(ledger, tx[w].sig)
       /\ decisions' = Recorded(new)
       /\ episodes' = [k \in Keys |->
            IF \E d \in new : KeyOf(d) = k
            THEN Observed(episodes[k], CHOOSE d \in new : KeyOf(d) = k) ELSE episodes[k]]
       /\ work' = work \cup {KeyOf(d) : d \in {n \in new : n.work}}
  /\ tx' = [tx EXCEPT ![w] = Idle]
  /\ UNCHANGED <<team, policyVars, deliveries, changes>>

(* A statement fails or the process stops: the transaction is rolled back. *)
Rollback(w) ==
  /\ tx[w] # Idle
  /\ tx' = [tx EXCEPT ![w] = Idle]
  /\ UNCHANGED <<team, policyVars, storeVars, deliveries, changes>>

-----------------------------------------------------------------------------
(* UpsertCyberOpsApprovedService, DeleteCyberOpsApprovedService            *)
ChangeApproval(port) ==
  /\ changes < MaxChanges /\ changes' = changes + 1
  /\ approved' \in {approved \cup {port}, approved \ {port}}
  /\ UNCHANGED <<team, mode, storeVars, tx, deliveries>>

(* docs/use_cases/cyberops/lifecycle-noise-control-runbook-v1.md: an       *)
(* operator sets the mode of a policy row.                                 *)
ChangeMode(p, m) ==
  /\ changes < MaxChanges /\ changes' = changes + 1
  /\ mode' = [mode EXCEPT ![p] = m]
  /\ UNCHANGED <<team, approved, storeVars, tx, deliveries>>

-----------------------------------------------------------------------------
PolicyNext ==
  \/ \E w \in team :
       \/ \E s \in Signals : LoadPolicies(w, s)
       \/ Evaluate(w) \/ Commit(w) \/ Rollback(w)
  \/ \E port \in Ports : ChangeApproval(port)
  \/ \E p \in Policies, m \in Modes : ChangeMode(p, m)

PolicySpec == PolicyInit /\ [][PolicyNext]_lifecyclePolicyVars

-----------------------------------------------------------------------------
(* The signals a key has decisions about.                                  *)
Backing(k) == {d.sig : d \in {x \in decisions : Key(x.policy, x.sig) = k}}

(* The decisions are the immutable record of why a work item exists        *)
(* (docs/use_cases/cyberops/insights-signals-alerts-noise-control-v1.md    *)
(* :4.1): one per policy and signal, about a stored signal, and the work   *)
(* item it names exists and is linked.  An episode counts each decided     *)
(* signal at least once; it carries them all until it holds                *)
(* MaxEpisodeSignals, and from then on those with the highest ids, however *)
(* often and in whatever order they come (cyberops_lifecycle.go:133).      *)
EpisodesAreBacked ==
  /\ \A d \in decisions :
       LET k == Key(d.policy, d.sig) IN
       /\ d.sig \in Stored
       /\ \A x \in decisions : x.policy = d.policy /\ x.sig = d.sig => x = d
       /\ episodes[k].last >= d.sig.at
       /\ d.work => k \in work
  /\ \A k \in Keys :
       /\ episodes[k].signals \subseteq Backing(k)
       /\ Cardinality(episodes[k].signals) <= MaxEpisodeSignals
       /\ \A s \in Backing(k) \ episodes[k].signals :
            /\ Cardinality(episodes[k].signals) = MaxEpisodeSignals
            /\ \A x \in episodes[k].signals : Rank[x] > Rank[s]
       /\ episodes[k].count >= Cardinality(Backing(k))
       /\ k \in work <=> episodes[k].work

(* Acceptance criterion 4: the deny that completes a scan raises it.  With *)
(* one persister and the policy in force throughout, a deny stored when    *)
(* the window before it holds Threshold ports has its port-scan decision.  *)
(* Two persisters do not see each other's uncommitted denies and both may  *)
(* stay below the threshold.                                               *)
ScanIsRaised ==
  (Cardinality(team) = 1 /\ changes = 0) =>
    \A i \in 1..Len(ledger) :
      LET s == ledger[i]
          before == {x \in {ledger[j] : j \in 1..i} \cap Denies : x.at \in (s.at - Window)..s.at} IN
      (s \in Denies /\ Cardinality({x.port : x \in before}) >= Threshold) =>
        Decided("port-scan", s)
=============================================================================
