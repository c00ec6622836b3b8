-------------------------- MODULE MCSignalLifecycle --------------------------
(***************************************************************************)
(* Instance of SignalLifecycle for TLC.  Operators decide about one        *)
(* document, the same one in both decisions.                               *)
(***************************************************************************)
EXTENDS SignalLifecycle, TLC
CONSTANTS e1, mild, quiet, broken, big, odd

OneDocument ==
  Cardinality({d \in Kinds \X Events : told[d[1]][d[2]] # "none"}) <= 1

MCSpec == Init /\ [][Next /\ OneDocument']_vars /\ Fairness
=============================================================================
