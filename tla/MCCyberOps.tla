------------------------------ MODULE MCCyberOps ------------------------------
(***************************************************************************)
(* Instances of ConnectIngress and CyberOpsLifecycle for TLC.  The two     *)
(* share no table, topic or process, and no property relates them: in each *)
(* behaviour of this specification one of them moves.                      *)
(***************************************************************************)
EXTENDS ConnectIngress, CyberOpsLifecycle, TLC

CONSTANTS r1, r2, w1, w2

MCUnpublishable == {<<"i2", "p1">>}
MCDenies == {[port |-> 1, at |-> 1], [port |-> 1, at |-> 4], [port |-> 2, at |-> 3]}
MCExposures == {[port |-> 2, at |-> 2]}
MCRank == [s \in MCDenies \cup MCExposures |-> (3 * s.at + s.port) % 11]

VARIABLE part

Init ==
  /\ part \in {"connect", "policy"}
  /\ ConnectInit /\ PolicyInit
  /\ part = "connect" => team = Persisters /\ mode["port-scan"] = "shadow"

Next ==
  /\ UNCHANGED part
  /\ \/ part = "connect" /\ ConnectNext /\ UNCHANGED lifecyclePolicyVars
     \/ part = "policy" /\ PolicyNext /\ UNCHANGED connectVars

MCSpec ==
  /\ Init /\ [][Next]_<<part, connectVars, lifecyclePolicyVars>>
  /\ ConnectFairness
=============================================================================
