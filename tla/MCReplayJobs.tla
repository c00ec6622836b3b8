---------------------------- MODULE MCReplayJobs ----------------------------
(***************************************************************************)
(* Instances of ReplayJobs for TLC.  In each behaviour either two workers  *)
(* share two jobs over a window that is full, or one job while the window  *)
(* gains rows, of which one cannot be decoded.                             *)
(***************************************************************************)
EXTENDS ReplayJobs, TLC

CONSTANTS j1, j2, w1, w2

VARIABLE part

MCInit ==
  /\ part \in {"queue", "window"}
  /\ Init
  /\ wjob = [w \in Workers |-> j1]
  /\ part = "queue" => ledger = Rows \ Undecodable

MCNext ==
  /\ UNCHANGED part
  /\ Next
  /\ part = "queue" => UNCHANGED ledger
  /\ part = "window" => status'[j2] = "absent" /\ faults' <= 1

MCSpec == MCInit /\ [][MCNext]_<<part, vars>> /\ \A w \in Workers : WF_vars(Work(w))
=============================================================================
