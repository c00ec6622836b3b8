--------------------------- MODULE MCSyncraticJobs ---------------------------
(***************************************************************************)
(* Instances of SyncraticJobs for TLC.  In each behaviour either both      *)
(* replicas work and the evidence moves on, or one replica works and the   *)
(* evidence moves back as well.                                            *)
(***************************************************************************)
EXTENDS SyncraticJobs, TLC

CONSTANTS r1, w1, w2

VARIABLE part

MCInit == part \in {"replicas", "evidence"} /\ Init

MCNext ==
  /\ UNCHANGED part
  /\ Next
  /\ part = "replicas" => evidence' >= evidence
  /\ part = "evidence" => wpc'[w2] = "idle" /\ faults' + crashes' <= 1

(* Fairness, of the replicas that work.                                    *)
MCFairness ==
  /\ \A w \in Workers : WF_vars((part = "evidence" => w = w1) /\ Process(w))
  /\ \A d \in Digests : WF_vars(LeaseExpires(d))

MCSpec == MCInit /\ [][MCNext]_<<part, vars>> /\ MCFairness
=============================================================================
