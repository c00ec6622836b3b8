---------------------------- MODULE MCRawPipeline ----------------------------
(* Instances of RawPipeline for TLC.  e2 reuses the idempotency key of e1  *)
(* under another event id; an event id header of e1's request overrides    *)
(* the id in its body; bad has an id and fails BuildEvent otherwise.       *)
EXTENDS RawPipeline, TLC

CONSTANTS e1, e2, bad, cand, i1, i2, i3, i4, i5, k1, k2, k3, n1, n2, c1, c2

MCGatewayID == [e \in Events |-> ((e1 :> i5) @@ (e2 :> i2) @@ (bad :> i3) @@ (cand :> i4))[e]]
MCBodyID == [e \in Events |-> ((e1 :> i1) @@ (e2 :> i2) @@ (bad :> i3) @@ (cand :> i4))[e]]
MCIdemKey == [e \in Events |-> ((e1 :> k1) @@ (e2 :> k1) @@ (bad :> k2) @@ (cand :> k3))[e]]

NormalizerSymmetry == Permutations(Normalizers)
ClientSymmetry == Permutations(Clients)

(* Bound: with two messages any faults, with a third one at most one.      *)
ThirdMessage == Len(raw) = 3 => faults <= 1

GroupSpec == Init /\ [][Next /\ ThirdMessage']_vars
=============================================================================
