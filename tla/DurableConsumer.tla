--------------------------- MODULE DurableConsumer ---------------------------
(***************************************************************************)
(* What every consumer of a SignalOps topic partition promises to the      *)
(* stages after it: a message is settled (its durable effect exists),      *)
(* skipped (its processing was abandoned), or still pending, and the group *)
(* offset passes only messages that are settled or skipped.  The group     *)
(* offset may move backwards (a stale group member commits an old          *)
(* position): that repeats work and loses nothing.                         *)
(***************************************************************************)
EXTENDS Naturals

VARIABLES
  published,  \* how many messages the partition holds; offsets are 1..published
  settled,    \* offsets whose durable effect exists
  skipped,    \* offsets whose processing was given up without that effect
  committed   \* the group offset: the last message never delivered again

vars == <<published, settled, skipped, committed>>

Offsets == 1..published

TypeOK ==
  /\ published \in Nat
  /\ settled \subseteq Offsets
  /\ skipped \subseteq Offsets
  /\ committed \in 0..published

Init ==
  /\ published = 0
  /\ settled = {}
  /\ skipped = {}
  /\ committed = 0

(* A message that asks nothing of this consumer is settled from the start. *)
Publish ==
  /\ published' = published + 1
  /\ settled' \in {settled, settled \cup {published + 1}}
  /\ UNCHANGED <<skipped, committed>>

(* Effects only ever appear: one durable write may settle several offsets  *)
(* that carry the same event, and a write whose acknowledgement is lost    *)
(* both settles its offset and makes the consumer give it up.              *)
Progress ==
  /\ settled \subseteq settled' /\ settled' \subseteq Offsets
  /\ skipped \subseteq skipped' /\ skipped' \subseteq Offsets
  /\ UNCHANGED <<published, committed>>

Commit ==
  /\ committed' \in 0..published
  /\ 1..committed' \subseteq settled \cup skipped
  /\ UNCHANGED <<published, settled, skipped>>

Next == Publish \/ Progress \/ Commit

Spec == Init /\ [][Next]_vars
=============================================================================
