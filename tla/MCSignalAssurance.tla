-------------------------- MODULE MCSignalAssurance --------------------------
(***************************************************************************)
(* Instances of ProposalMaterialization, SignalAssurance and               *)
(* SignalOutcomes for TLC.  The first hands eligible events to the second, *)
(* which here takes them in any order and twice; the third measures other  *)
(* signals.  In each behaviour of this specification one of the three      *)
(* moves: the second with two messages and one relay, or with one message  *)
(* and two relays; the third with one run and revised verdicts, or with    *)
(* two overlapping runs and invalid bars.                                  *)
(***************************************************************************)
EXTENDS ProposalMaterialization, SignalAssurance, SignalOutcomes, TLC

CONSTANTS prop1, prop2, key1, x, y

MCOverlaps == Proposals \X Proposals

Bar(close, processed) == [close |-> close, processed |-> processed]

(* x: flat, and two sessions from its confirmation on are the horizon; y:  *)
(* a close above the baseline before the confirmation and one far below    *)
(* after it.  As of day 2 only the bars of day 1 are there.                *)
MCConfirmed == x :> 2 @@ y :> 2
MCCloses ==
  x :> (1 :> Bar("flat", 1) @@ 2 :> Bar("flat", 2) @@ 3 :> Bar("flat", 3)) @@
  y :> (1 :> Bar("up", 1) @@ 2 :> Bar("flat", 4) @@ 3 :> Bar("down", 3))

VARIABLE part

Parts == {"proposals", "lifecycle", "outbox", "verdicts", "overlaps"}

Init ==
  /\ part \in Parts
  /\ MaterializationInit /\ AssuranceInit /\ OutcomeInit
  /\ part # "outbox" => relayAt[2] = "down"
  /\ part \notin {"lifecycle", "outbox"} => relayAt[1] = "down"

RevisedVerdicts ==
  /\ part = "verdicts" /\ OutcomeNext
  /\ at'[2] = "idle" /\ asOf'[1] \in {0, MaxDay} /\ prices' <= 2 /\ badPrice' = {}

OverlappingRuns ==
  /\ part = "overlaps" /\ OutcomeNext
  /\ verdicts' <= 1 /\ evaluation'[1] # "downside" /\ building' = {} /\ stops' = 0
  /\ asOf'[2] \in {0, MaxDay}

Next ==
  /\ UNCHANGED part
  /\ \/ /\ part = "proposals" /\ MaterializationNext
        /\ UNCHANGED <<assuranceVars, outcomeVars>>
     \/ /\ part = "lifecycle" /\ AssuranceNext /\ relayAt'[2] = "down"
        /\ UNCHANGED <<materializationVars, outcomeVars>>
     \/ /\ part = "outbox" /\ AssuranceNext /\ Len(topic') <= 1
        /\ UNCHANGED <<materializationVars, outcomeVars>>
     \/ (RevisedVerdicts \/ OverlappingRuns) /\ UNCHANGED <<materializationVars, assuranceVars>>

MCSpec ==
  /\ Init /\ [][Next]_<<part, materializationVars, assuranceVars, outcomeVars>>
  /\ AssuranceFairness /\ OutcomeFairness
=============================================================================
