----------------------------- MODULE MCIngestion -----------------------------
(***************************************************************************)
(* Instances of RawPipeline, EquityReconciliation and AssetBackfill for    *)
(* TLC.  The latter two write the raw topic the first consumes, for other  *)
(* dates than each other, and no property relates them: in each behaviour  *)
(* of this specification one of the three moves.                           *)
(***************************************************************************)
EXTENDS MCRawPipeline, EquityReconciliation, AssetBackfill

CONSTANTS run1, run2, x, y

MCBars == {<<x, 1>>, <<x, 2>>, <<y, 2>>}

VARIABLE part

(* With two symbols one is on record at the start, so that a run replays   *)
(* the one while it calls the provider for the other; bound: the second    *)
(* run calls the provider once, as one call of each run can overlap.       *)
MCInit ==
  /\ part \in {"raw", "reconcile", "backfill"}
  /\ Init /\ ReconcileInit /\ BackfillInit
  /\ IF part = "reconcile" THEN rawRow = {1} /\ published = {1} ELSE published = {}

MCNext ==
  /\ UNCHANGED part
  /\ \/ part = "raw" /\ Next /\ UNCHANGED <<reconcileVars, backfillVars>>
     \/ /\ part = "reconcile" /\ ReconcileNext /\ requests'[run2] <= 1
        /\ UNCHANGED <<vars, backfillVars>>
     \/ part = "backfill" /\ BackfillNext /\ UNCHANGED <<vars, reconcileVars>>

(* Fairness and ReconcileFairness, each of the part that moves.            *)
MCFairness ==
  /\ \A n \in Normalizers :
       /\ WF_vars(part = "raw" /\ Loop(n))
       /\ WF_vars(part = "raw" /\ owner = NoOwner /\ Assign(n))
  /\ \A r \in Runs : WF_reconcileVars(part = "reconcile" /\ Advance(r))
  /\ \A s \in Symbols : WF_reconcileVars(part = "reconcile" /\ TimePasses(s))

MCSpec == MCInit /\ [][MCNext]_<<part, vars, reconcileVars, backfillVars>> /\ MCFairness
=============================================================================
