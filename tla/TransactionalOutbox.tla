------------------------- MODULE TransactionalOutbox -------------------------
(***************************************************************************)
(* What an outbox promises its readers, whatever the processes that flush  *)
(* it do: a message on the topic was committed to the outbox first, a row  *)
(* is marked only after its message is on the topic, nothing is taken      *)
(* back, and a message may be published again at any time.  The CyberOps   *)
(* Connect outbox and the signal assurance outbox implement it.            *)
(***************************************************************************)
CONSTANT Rows

VARIABLES
  written,    \* rows committed to the outbox table
  delivered,  \* rows whose message is on the topic
  marked      \* rows with published_at set

outboxVars == <<written, delivered, marked>>

Init == written = {} /\ delivered = {} /\ marked = {}

Write(r) ==
  /\ written' = written \cup {r}
  /\ UNCHANGED <<delivered, marked>>

Deliver(r) ==
  /\ r \in written
  /\ delivered' = delivered \cup {r}
  /\ UNCHANGED <<written, marked>>

Mark(r) ==
  /\ r \in delivered
  /\ marked' = marked \cup {r}
  /\ UNCHANGED <<written, delivered>>

Next == \E r \in Rows : Write(r) \/ Deliver(r) \/ Mark(r)

Spec == Init /\ [][Next]_outboxVars
=============================================================================
