--------------------------- MODULE MarketPullProofs ---------------------------
(***************************************************************************)
(* TLAPS proofs about EquityReconciliation, for any finite set of runs,    *)
(* any universe and any number of calls, errors and expired leases, and    *)
(* about AssetBackfill, for any assets, window, jobs and failures.  The    *)
(* two share no variable and no proof uses both.                           *)
(***************************************************************************)
EXTENDS EquityReconciliation, AssetBackfill, FiniteSetTheorems, SequenceTheorems, TLAPS

Rows == [symbol : Symbols, row : TaskRows]
Steps == {"down", "claim", "check", "call", "hold", "await"}
Kinds == {"calls", "replays"}

(* Calls or replays that an attempt row allows, has left, and that were    *)
(* made for a symbol.                                                      *)
Limit(k) == IF k = "calls" THEN MaxProviderAttempts ELSE 1
Left(k, row) == Limit(k) - (IF k = "calls" THEN row.attempts ELSE row.replays)
Made(k, s) == IF k = "calls" THEN calls[s] ELSE replays[s]

(* What each run may still make for a symbol, by the copy it holds, and    *)
(* what a run that claims the row without renewing it will be able to.     *)
Credit(k, s, at, copy) ==
  IF at \notin {"down", "claim"} /\ copy.symbol = s THEN Left(k, copy.row) ELSE 0

CreditOf(k, s, where, copies) == [r \in Runs |-> Credit(k, s, where[r], copies[r])]

OpenOf(k, row) ==
  IF row.status = "none" THEN Limit(k) ELSE IF row.status = "queued" THEN Left(k, row) ELSE 0

(* The sum of c over the runs.                                             *)
Units(w, c) == {p \in Runs \X (1..w) : p[2] <= c[p[1]]}
Total(w, c) == Cardinality(Units(w, c))

(* What was made and what can still be made without a renewal.             *)
Balanced(k, s) ==
  Made(k, s) + Total(Limit(k), CreditOf(k, s, rAt, held)) + OpenOf(k, task[s])
    <= Limit(k) * (1 + renewals[s])

Types ==
  /\ task \in [Symbols -> TaskRows] /\ ripe \subseteq Symbols
  /\ rAt \in [Runs -> Steps] /\ held \in [Runs -> Rows]
  /\ requests \in [Runs -> Nat]
  /\ calls \in [Symbols -> Nat] /\ replays \in [Symbols -> Nat] /\ renewals \in [Symbols -> Nat]

Inv == Types /\ \A k \in Kinds, s \in Symbols : Balanced(k, s)

-----------------------------------------------------------------------------
LEMMA TotalType ==
  ASSUME NEW w \in Nat, NEW c
  PROVE  IsFiniteSet(Units(w, c)) /\ Total(w, c) \in Nat
<1>1. IsFiniteSet(Runs) /\ IsFiniteSet(1..w)
  BY ReconciliationAssumption, FS_Interval
<1>2. IsFiniteSet(Runs \X (1..w))
  BY <1>1, FS_Product
<1>3. IsFiniteSet(Units(w, c))
  BY <1>2, FS_Subset DEF Units
<1> QED BY <1>3, FS_CardinalityType DEF Total

LEMMA TotalZero ==
  ASSUME NEW w \in Nat, NEW c, \A r \in Runs : c[r] = 0
  PROVE  Total(w, c) = 0
<1>1. ASSUME NEW p \in Units(w, c) PROVE FALSE
  <2>1. p[1] \in Runs /\ p[2] \in 1..w /\ p[2] <= c[p[1]]
    BY DEF Units
  <2> QED BY <2>1
<1>2. Units(w, c) = {}
  BY <1>1
<1>3. Cardinality({}) = 0
  BY FS_EmptySet
<1> QED BY <1>2, <1>3 DEF Total

(* One run's share changes.                                                *)
LEMMA TotalChange ==
  ASSUME NEW w \in Nat, NEW r \in Runs,
         NEW c \in [Runs -> 0..w], NEW d \in [Runs -> 0..w],
         \A q \in Runs \ {r} : d[q] = c[q]
  PROVE  Total(w, d) + c[r] = Total(w, c) + d[r]
<1> DEFINE own(m) == {r} \X (1..m)
           rest == {p \in Units(w, c) : p[1] # r}
<1>1. ASSUME NEW m \in 0..w PROVE IsFiniteSet(own(m)) /\ Cardinality(own(m)) = m
  <2>1. m \in Nat /\ m \in Int /\ 1 \in Int
    OBVIOUS
  <2>2. IsFiniteSet(1..m) /\ Cardinality(1..m) = IF 1 > m THEN 0 ELSE m - 1 + 1
    BY <2>1, FS_Interval
  <2>3. Cardinality(1..m) = m
    BY <2>1, <2>2
  <2>4. IsFiniteSet({r}) /\ Cardinality({r}) = 1
    BY FS_Singleton
  <2>5. IsFiniteSet(own(m)) /\ Cardinality(own(m)) = Cardinality({r}) * Cardinality(1..m)
    BY <2>2, <2>4, FS_Product
  <2> QED BY <2>1, <2>3, <2>4, <2>5
<1>2. IsFiniteSet(rest) /\ Cardinality(rest) \in Nat
  BY TotalType, FS_Subset, FS_CardinalityType
<1>3. ASSUME NEW e \in [Runs -> 0..w], \A q \in Runs \ {r} : e[q] = c[q]
      PROVE  Total(w, e) = Cardinality(rest) + e[r]
  <2>1. Units(w, e) = rest \cup own(e[r])
    <3>1. ASSUME NEW p \in Runs \X (1..w)
          PROVE  p \in Units(w, e) <=> p \in rest \/ p \in own(e[r])
      <4>1. p = <<p[1], p[2]>> /\ p[1] \in Runs /\ p[2] \in 1..w /\ e[p[1]] \in 0..w
        OBVIOUS
      <4>2. CASE p[1] = r
        BY <4>1, <4>2 DEF Units
      <4>3. CASE p[1] # r
        BY <1>3, <4>1, <4>3 DEF Units
      <4> QED BY <4>2, <4>3
    <3>2. own(e[r]) \subseteq Runs \X (1..w)
      <4>1. e[r] \in 0..w
        OBVIOUS
      <4> QED BY <4>1
    <3>3. Units(w, e) \subseteq Runs \X (1..w) /\ rest \subseteq Runs \X (1..w)
      BY DEF Units
    <3> HIDE DEF rest, own
    <3> QED BY <3>1, <3>2, <3>3
  <2>2. rest \cap own(e[r]) = {}
    OBVIOUS
  <2>3. e[r] \in 0..w
    OBVIOUS
  <2> HIDE DEF rest, own
  <2>4. /\ IsFiniteSet(own(e[r])) /\ Cardinality(own(e[r])) = e[r]
    BY <1>1, <2>3
  <2>5. Cardinality(rest \cup own(e[r])) = Cardinality(rest) + Cardinality(own(e[r])) - Cardinality(rest \cap own(e[r]))
    BY <1>2, <2>4, FS_Union
  <2>6. Cardinality(rest \cap own(e[r])) = 0
    BY <2>2, FS_EmptySet
  <2>7. Cardinality(rest \cup own(e[r])) = Cardinality(rest) + e[r]
    BY <1>2, <2>3, <2>4, <2>5, <2>6
  <2> QED BY <2>1, <2>7 DEF Total
<1> HIDE DEF rest
<1>4. Total(w, c) = Cardinality(rest) + c[r] /\ Total(w, d) = Cardinality(rest) + d[r]
  BY <1>3
<1>5. c[r] \in Nat /\ d[r] \in Nat
  OBVIOUS
<1> QED BY <1>2, <1>4, <1>5

-----------------------------------------------------------------------------
LEMMA AllowanceType ==
  ASSUME NEW k \in Kinds
  PROVE  /\ Limit(k) \in Nat /\ 1 <= Limit(k)
         /\ \A row \in TaskRows : Left(k, row) \in 0..Limit(k) /\ OpenOf(k, row) \in 0..Limit(k)
<1>1. MaxProviderAttempts \in Nat /\ 1 <= MaxProviderAttempts
  BY ReconciliationAssumption
<1>2. Limit(k) \in Nat /\ 1 <= Limit(k)
  BY <1>1 DEF Limit
<1>3. ASSUME NEW row \in TaskRows PROVE Left(k, row) \in 0..Limit(k)
  <2>1. row.attempts \in 0..MaxProviderAttempts /\ row.replays \in 0..1
    BY DEF TaskRows
  <2> QED BY <1>1, <2>1 DEF Left, Limit
<1>4. ASSUME NEW row \in TaskRows PROVE OpenOf(k, row) \in 0..Limit(k)
  BY <1>2, <1>3, 0 \in 0..Limit(k), Limit(k) \in 0..Limit(k) DEF OpenOf
<1> QED BY <1>2, <1>3, <1>4

LEMMA CreditType ==
  ASSUME NEW k \in Kinds, NEW s, NEW where, NEW copies \in [Runs -> Rows]
  PROVE  CreditOf(k, s, where, copies) \in [Runs -> 0..Limit(k)]
<1>1. ASSUME NEW r \in Runs PROVE Credit(k, s, where[r], copies[r]) \in 0..Limit(k)
  <2>1. copies[r].row \in TaskRows
    BY DEF Rows
  <2>2. Limit(k) \in Nat /\ Left(k, copies[r].row) \in 0..Limit(k)
    BY <2>1, AllowanceType
  <2> QED BY <2>2 DEF Credit
<1> QED BY <1>1 DEF CreditOf

(* What a step of one run changes for a symbol.                            *)
Weight(k, s, r) == Made(k, s) + Credit(k, s, rAt[r], held[r]) + OpenOf(k, task[s])

LEMMA WeightType ==
  ASSUME Types, NEW k \in Kinds, NEW s \in Symbols, NEW r \in Runs
  PROVE  /\ Limit(k) \in Nat /\ 1 <= Limit(k) /\ Made(k, s) \in Nat /\ renewals[s] \in Nat
         /\ Credit(k, s, rAt[r], held[r]) \in 0..Limit(k)
         /\ OpenOf(k, task[s]) \in 0..Limit(k)
<1>1. held \in [Runs -> Rows] /\ task[s] \in TaskRows
  BY DEF Types
<1>2. Credit(k, s, rAt[r], held[r]) \in 0..Limit(k)
  BY <1>1, CreditType DEF CreditOf
<1>3. Made(k, s) \in Nat /\ renewals[s] \in Nat
  BY DEF Made, Types
<1> QED BY <1>1, <1>2, <1>3, AllowanceType

LEMMA BalanceStep ==
  ASSUME Types, Types', NEW k \in Kinds, NEW s \in Symbols, NEW r \in Runs, Balanced(k, s),
         \A q \in Runs \ {r} : rAt'[q] = rAt[q] /\ held'[q] = held[q],
         \/ renewals'[s] = renewals[s] /\ Weight(k, s, r)' <= Weight(k, s, r)
         \/ renewals'[s] = renewals[s] + 1 /\ Weight(k, s, r)' <= Weight(k, s, r) + Limit(k)
  PROVE  Balanced(k, s)'
<1> DEFINE c == CreditOf(k, s, rAt, held)
           d == CreditOf(k, s, rAt', held')
           w == Limit(k)
           m == Made(k, s)
           mm == Made(k, s)'
           o == OpenOf(k, task[s])
           oo == OpenOf(k, task'[s])
           a == 1 + renewals[s]
           aa == 1 + renewals'[s]
<1>1. w \in Nat
  BY AllowanceType
<1>2. c \in [Runs -> 0..w] /\ d \in [Runs -> 0..w]
  BY CreditType DEF Types
<1>3. \A q \in Runs \ {r} : d[q] = c[q]
  BY DEF CreditOf
<1>4. /\ m \in Nat /\ o \in 0..w /\ a \in Nat
      /\ mm \in Nat /\ oo \in 0..w /\ aa \in Nat
  <2>1. task[s] \in TaskRows /\ task'[s] \in TaskRows
    BY DEF Types
  <2>2. m \in Nat /\ mm \in Nat
    BY DEF Types, Made
  <2>3. a \in Nat /\ aa \in Nat
    BY DEF Types
  <2> QED BY <2>1, <2>2, <2>3, AllowanceType
<1>5. c[r] = Credit(k, s, rAt[r], held[r]) /\ d[r] = Credit(k, s, rAt'[r], held'[r])
  BY DEF CreditOf
<1>6. \/ aa = a /\ mm + d[r] + oo <= m + c[r] + o
      \/ aa = a + 1 /\ mm + d[r] + oo <= m + c[r] + o + w
  <2>1. renewals[s] \in Nat
    BY DEF Types
  <2>2. Weight(k, s, r) = m + c[r] + o /\ Weight(k, s, r)' = mm + d[r] + oo
    BY <1>5 DEF Weight
  <2> QED BY <2>1, <2>2
<1>7. m + Total(w, c) + o <= w * a
  BY DEF Balanced
<1>8. Balanced(k, s)' <=> mm + Total(w, d) + oo <= w * aa
  BY DEF Balanced
<1> HIDE DEF c, d, w, m, mm, o, oo, a, aa
<1>9. Total(w, c) \in Nat /\ Total(w, d) \in Nat
  BY <1>1, TotalType
<1>10. Total(w, d) + c[r] = Total(w, c) + d[r]
  BY <1>1, <1>2, <1>3, TotalChange
<1>11. c[r] \in 0..w /\ d[r] \in 0..w
  BY <1>2
<1>12. w * (a + 1) = w * a + w /\ w * a \in Nat
  BY <1>1, <1>4
<1>13. mm + Total(w, d) + oo <= w * aa
  <2>1. CASE aa = a /\ mm + d[r] + oo <= m + c[r] + o
    BY <1>1, <1>4, <1>7, <1>9, <1>10, <1>11, <1>12, <2>1
  <2>2. CASE aa = a + 1 /\ mm + d[r] + oo <= m + c[r] + o + w
    BY <1>1, <1>4, <1>7, <1>9, <1>10, <1>11, <1>12, <2>2
  <2> QED BY <1>6, <2>1, <2>2
<1> QED BY <1>8, <1>13

LEMMA InvStep ==
  ASSUME Inv, Types', NEW r \in Runs,
         \A q \in Runs \ {r} : rAt'[q] = rAt[q] /\ held'[q] = held[q],
         \A k \in Kinds, s \in Symbols :
           \/ renewals'[s] = renewals[s] /\ Weight(k, s, r)' <= Weight(k, s, r)
           \/ renewals'[s] = renewals[s] + 1 /\ Weight(k, s, r)' <= Weight(k, s, r) + Limit(k)
  PROVE  Inv'
<1> SUFFICES ASSUME NEW k \in Kinds, NEW s \in Symbols PROVE Balanced(k, s)'
  BY DEF Inv
<1>1. Types /\ Balanced(k, s)
  BY DEF Inv
<1>2. \/ renewals'[s] = renewals[s] /\ Weight(k, s, r)' <= Weight(k, s, r)
      \/ renewals'[s] = renewals[s] + 1 /\ Weight(k, s, r)' <= Weight(k, s, r) + Limit(k)
  OBVIOUS
<1> QED BY <1>1, <1>2, BalanceStep

LEMMA RowFacts ==
  /\ NoTask \in TaskRows /\ NewTask \in TaskRows /\ NewTask.status = "queued"
  /\ \A k \in Kinds : Left(k, NewTask) = Limit(k)
  /\ Nothing \in Rows
<1>1. MaxProviderAttempts \in Nat
  BY ReconciliationAssumption
<1>2. NoTask \in TaskRows
  BY <1>1 DEF NoTask, TaskRows, TaskStatuses, Active
<1>3. NewTask \in TaskRows /\ NewTask.status = "queued" /\ NewTask.attempts = 0 /\ NewTask.replays = 0
  BY <1>1 DEF NewTask, NoTask, TaskRows, TaskStatuses, Active
<1>4. \A k \in Kinds : Left(k, NewTask) = Limit(k)
  BY <1>1, <1>3 DEF Left, Limit
<1>5. Nothing \in Rows
  BY <1>2, ReconciliationAssumption DEF Nothing, Rows
<1> QED BY <1>2, <1>3, <1>4, <1>5

LEMMA StatusChange ==
  ASSUME NEW row \in TaskRows, NEW st \in TaskStatuses
  PROVE  LET new == [row EXCEPT !.status = st]
         IN new \in TaskRows /\ new.status = st /\ \A k \in Kinds : Left(k, new) = Left(k, row)
BY DEF TaskRows, Left

(* The steps of a run that store its copy with a new status, and maybe let *)
(* go of it; the replay that failed may have taken effect.                 *)
LEMMA SaveStep ==
  ASSUME Inv, NEW r \in Runs, rAt[r] \in Steps \ {"down", "claim"},
         NEW st \in TaskStatuses \ {"none"},
         task' = [task EXCEPT ![Sym(r)] = [Copy(r) EXCEPT !.status = st]],
         \/ LetGo(r, "claim")
         \/ st # "queued" /\ Moves(r, "await") /\ held' = held,
         ripe' \subseteq Symbols, requests' = requests, calls' = calls, renewals' = renewals,
         \/ replays' = replays
         \/ Copy(r).replays = 0 /\ LetGo(r, "claim") /\ st # "queued"
            /\ replays' = [replays EXCEPT ![Sym(r)] = @ + 1]
  PROVE  Inv'
<1> DEFINE new == [Copy(r) EXCEPT !.status = st]
<1>1. Types /\ Sym(r) \in Symbols /\ Copy(r) \in TaskRows
  BY DEF Inv, Types, Rows, Sym, Copy
<1>2. new \in TaskRows /\ new.status = st /\ \A k \in Kinds : Left(k, new) = Left(k, Copy(r))
  BY <1>1, StatusChange
<1> HIDE DEF new
<1>3. Types'
  <2>1. task' \in [Symbols -> TaskRows]
    BY <1>1, <1>2 DEF Types, new
  <2>2. rAt' \in [Runs -> Steps] /\ held' \in [Runs -> Rows]
    BY <1>1, RowFacts DEF Types, LetGo, Moves, Steps
  <2>3. replays' \in [Symbols -> Nat]
    BY <1>1 DEF Types
  <2> QED BY <1>1, <2>1, <2>2, <2>3 DEF Types
<1>4. \A q \in Runs \ {r} : rAt'[q] = rAt[q] /\ held'[q] = held[q]
  BY <1>1 DEF Types, LetGo, Moves
<1>5. ASSUME NEW k \in Kinds, NEW s \in Symbols PROVE Weight(k, s, r)' <= Weight(k, s, r)
  <2>1. /\ Limit(k) \in Nat /\ 1 <= Limit(k) /\ Made(k, s) \in Nat
        /\ Credit(k, s, rAt[r], held[r]) \in 0..Limit(k) /\ OpenOf(k, task[s]) \in 0..Limit(k)
    BY <1>1, WeightType
  <2>2. Left(k, Copy(r)) \in 0..Limit(k)
    BY <1>1, AllowanceType
  <2>3. CASE s # Sym(r)
    <3>1. task'[s] = task[s] /\ Made(k, s)' = Made(k, s)
      BY <1>1, <2>3 DEF Types, Made
    <3>2. Credit(k, s, rAt'[r], held'[r]) = Credit(k, s, rAt[r], held[r])
      BY <1>1, <2>3, RowFacts DEF Types, Credit, LetGo, Moves, Sym
    <3> QED BY <2>1, <3>1, <3>2 DEF Weight
  <2>4. CASE s = Sym(r)
    <3>1. Credit(k, s, rAt[r], held[r]) = Left(k, Copy(r))
      BY <2>4 DEF Credit, Sym, Copy
    <3>2. task'[s] = new
      BY <1>1, <2>4 DEF Types, new
    <3>3. OpenOf(k, task'[s]) = IF st = "queued" THEN Left(k, Copy(r)) ELSE 0
      BY <1>2, <3>2 DEF OpenOf
    <3>4. CASE LetGo(r, "claim")
      <4>1. Credit(k, s, rAt'[r], held'[r]) = 0
        BY <1>1, <3>4 DEF Types, Credit, LetGo, Moves
      <4>2. CASE replays' = replays
        <5>1. Made(k, s)' = Made(k, s)
          BY <4>2 DEF Made
        <5> QED BY <2>1, <2>2, <3>1, <3>3, <4>1, <5>1 DEF Weight
      <4>3. CASE /\ Copy(r).replays = 0 /\ st # "queued"
                 /\ replays' = [replays EXCEPT ![Sym(r)] = @ + 1]
        <5>1. CASE k = "calls"
          <6>1. Made(k, s)' = Made(k, s)
            BY <5>1 DEF Made
          <6> QED BY <2>1, <2>2, <3>1, <3>3, <4>1, <4>3, <6>1 DEF Weight
        <5>2. CASE k # "calls"
          <6>1. Made(k, s)' = Made(k, s) + 1 /\ Left(k, Copy(r)) = 1
            BY <1>1, <2>4, <4>3, <5>2 DEF Made, Left, Limit, Types
          <6> QED BY <2>1, <3>1, <3>3, <4>1, <4>3, <6>1 DEF Weight
        <5> QED BY <5>1, <5>2
      <4> QED BY <4>2, <4>3
    <3>5. CASE st # "queued" /\ Moves(r, "await") /\ held' = held /\ replays' = replays
      <4>1. Credit(k, s, rAt'[r], held'[r]) = Credit(k, s, rAt[r], held[r])
        BY <1>1, <3>5 DEF Types, Credit, Moves
      <4>2. Made(k, s)' = Made(k, s)
        BY <3>5 DEF Made
      <4> QED BY <2>1, <3>3, <3>5, <4>1, <4>2 DEF Weight
    <3> QED BY <3>4, <3>5
  <2> QED BY <2>3, <2>4
<1> QED BY <1>3, <1>4, <1>5, InvStep

(* A run leaves its row as it is.                                          *)
LEMMA LeaveStep ==
  ASSUME Inv, NEW r \in Runs, NEW step \in {"down", "claim"}, LetGo(r, step), task' = task,
         ripe' = ripe, requests' \in [Runs -> Nat], UNCHANGED countVars
  PROVE  Inv'
<1>1. Types
  BY DEF Inv
<1>2. Types'
  BY <1>1, RowFacts DEF Types, LetGo, Moves, Steps, countVars
<1>3. \A q \in Runs \ {r} : rAt'[q] = rAt[q] /\ held'[q] = held[q]
  BY <1>1 DEF Types, LetGo, Moves
<1>4. ASSUME NEW k \in Kinds, NEW s \in Symbols PROVE Weight(k, s, r)' <= Weight(k, s, r)
  <2>1. /\ Limit(k) \in Nat /\ Made(k, s) \in Nat
        /\ Credit(k, s, rAt[r], held[r]) \in 0..Limit(k) /\ OpenOf(k, task[s]) \in 0..Limit(k)
    BY <1>1, WeightType
  <2>2. Credit(k, s, rAt'[r], held'[r]) = 0
    BY <1>1 DEF Types, Credit, LetGo, Moves
  <2>3. Made(k, s)' = Made(k, s)
    BY DEF Made, countVars
  <2> QED BY <2>1, <2>2, <2>3 DEF Weight
<1> QED BY <1>2, <1>3, <1>4, InvStep DEF countVars

-----------------------------------------------------------------------------
LEMMA StartStep ==
  ASSUME Inv, NEW r \in Runs, NEW k0 \in Symbols, NEW requeue \in BOOLEAN, Start(r, k0, requeue)
  PROVE  Inv'
<1> DEFINE missing == {s \in Symbols : s <= k0 /\ s \notin normalized}
           new == {s \in missing : task[s].status = "none"}
           again == {s \in Symbols : requeue /\ task[s].status = "failed"}
<1>1. Types /\ rAt[r] = "down"
  BY DEF Inv, Start
<1>2. /\ task' = [s \in Symbols |-> IF s \in new \cup again THEN NewTask ELSE task[s]]
      /\ renewals' = [s \in Symbols |-> renewals[s] + (IF s \in again THEN 1 ELSE 0)]
      /\ held' = held /\ requests' = requests /\ calls' = calls /\ replays' = replays
      /\ rAt' = [rAt EXCEPT ![r] = "claim"] \/ rAt' = rAt
  BY DEF Start, Moves
<1>3. \A s \in new : task[s].status = "none"
  OBVIOUS
<1>4. \A s \in again : task[s].status = "failed"
  OBVIOUS
<1> HIDE DEF new, again
<1>5. Types'
  <2>1. task' \in [Symbols -> TaskRows] /\ renewals' \in [Symbols -> Nat]
    BY <1>1, <1>2, RowFacts DEF Types
  <2>2. ripe' \subseteq Symbols
    BY <1>1 DEF Types, Start
  <2> QED BY <1>1, <1>2, <2>1, <2>2 DEF Types, Steps
<1>6. \A q \in Runs \ {r} : rAt'[q] = rAt[q] /\ held'[q] = held[q]
  BY <1>1, <1>2 DEF Types
<1>7. ASSUME NEW k \in Kinds, NEW s \in Symbols
      PROVE  \/ renewals'[s] = renewals[s] /\ Weight(k, s, r)' <= Weight(k, s, r)
             \/ renewals'[s] = renewals[s] + 1 /\ Weight(k, s, r)' <= Weight(k, s, r) + Limit(k)
  <2>1. /\ Limit(k) \in Nat /\ Made(k, s) \in Nat /\ renewals[s] \in Nat
        /\ OpenOf(k, task[s]) \in 0..Limit(k)
    BY <1>1, WeightType
  <2>2. Credit(k, s, rAt[r], held[r]) = 0 /\ Credit(k, s, rAt'[r], held'[r]) = 0
    BY <1>1, <1>2 DEF Types, Credit
  <2>3. Made(k, s)' = Made(k, s)
    BY <1>2 DEF Made
  <2>4. OpenOf(k, NewTask) = Limit(k)
    BY RowFacts DEF OpenOf
  <2>5. CASE s \in again
    BY <1>2, <2>1, <2>2, <2>3, <2>4, <2>5 DEF Weight
  <2>6. CASE s \in new \ again
    <3>1. OpenOf(k, task[s]) = Limit(k)
      BY <1>3, <2>6 DEF OpenOf
    <3> QED BY <1>2, <2>1, <2>2, <2>3, <2>4, <2>6, <3>1 DEF Weight
  <2>7. CASE s \notin new \cup again
    BY <1>2, <2>1, <2>2, <2>3, <2>7 DEF Weight
  <2> QED BY <2>5, <2>6, <2>7
<1> QED BY <1>5, <1>6, <1>7, InvStep

LEMMA ClaimStep ==
  ASSUME Inv, NEW r \in Runs, Claim(r)
  PROVE  Inv'
<1>1. Types /\ rAt[r] = "claim"
  BY DEF Inv, Claim
<1>2. PICK s0 \in Due :
        /\ held' = [held EXCEPT ![r] =
             [symbol |-> s0, row |-> [task[s0] EXCEPT !.status = "running"]]]
        /\ task' = [t \in Symbols |->
             IF t = s0 THEN [task[s0] EXCEPT !.status = "running"]
             ELSE IF t \in Recovered THEN [task[t] EXCEPT !.status = "queued"] ELSE task[t]]
  BY DEF Claim
<1>3. /\ renewals' = [t \in Symbols |-> renewals[t] + (IF t \in Recovered THEN 1 ELSE 0)]
      /\ rAt' = [rAt EXCEPT ![r] = "check"]
      /\ requests' = requests /\ calls' = calls /\ replays' = replays
  BY DEF Claim, Moves
<1>4. s0 \in Symbols /\ (s0 \in Recovered \/ task[s0].status = "queued")
  BY <1>1 DEF Types, Due, Recovered
<1>5. /\ \A s \in Symbols : task[s] \in TaskRows
      /\ {"running", "queued"} \subseteq TaskStatuses
  BY <1>1 DEF Types, TaskStatuses, Active
<1>6. ASSUME NEW s \in Symbols, NEW st \in {"running", "queued"}
      PROVE  LET new == [task[s] EXCEPT !.status = st]
             IN new \in TaskRows /\ new.status = st /\ \A k \in Kinds : Left(k, new) = Left(k, task[s])
  BY <1>5, StatusChange
<1>7. Types'
  <2>1. [symbol |-> s0, row |-> [task[s0] EXCEPT !.status = "running"]] \in Rows
    BY <1>4, <1>6 DEF Rows
  <2>2. held' \in [Runs -> Rows]
    BY <1>1, <1>2, <2>1 DEF Types
  <2>3. task' \in [Symbols -> TaskRows]
    BY <1>2, <1>4, <1>5, <1>6
  <2>4. renewals' \in [Symbols -> Nat] /\ ripe' \subseteq Symbols
    BY <1>1, <1>3 DEF Types, Claim
  <2> QED BY <1>1, <1>3, <2>2, <2>3, <2>4 DEF Types, Steps
<1>8. \A q \in Runs \ {r} : rAt'[q] = rAt[q] /\ held'[q] = held[q]
  BY <1>1, <1>2, <1>3 DEF Types
<1>9. ASSUME NEW k \in Kinds, NEW s \in Symbols
      PROVE  \/ renewals'[s] = renewals[s] /\ Weight(k, s, r)' <= Weight(k, s, r)
             \/ renewals'[s] = renewals[s] + 1 /\ Weight(k, s, r)' <= Weight(k, s, r) + Limit(k)
  <2>1. /\ Limit(k) \in Nat /\ Made(k, s) \in Nat /\ renewals[s] \in Nat
        /\ OpenOf(k, task[s]) \in 0..Limit(k) /\ Left(k, task[s]) \in 0..Limit(k)
    BY <1>1, <1>5, WeightType, AllowanceType
  <2>2. Made(k, s)' = Made(k, s) /\ Credit(k, s, rAt[r], held[r]) = 0
    BY <1>1, <1>3 DEF Made, Credit
  <2>3. CASE s = s0
    <3>1. Credit(k, s, rAt'[r], held'[r]) = Left(k, task[s])
      <4>1. rAt'[r] = "check" /\ held'[r].symbol = s
            /\ held'[r].row = [task[s] EXCEPT !.status = "running"]
        BY <1>1, <1>2, <1>3, <2>3 DEF Types
      <4>2. Left(k, [task[s] EXCEPT !.status = "running"]) = Left(k, task[s])
        BY <1>6
      <4> QED BY <4>1, <4>2 DEF Credit
    <3>2. OpenOf(k, task'[s]) = 0
      BY <1>2, <1>6, <2>3 DEF OpenOf
    <3>3. CASE s \in Recovered
      BY <1>3, <2>1, <2>2, <3>1, <3>2, <3>3 DEF Weight
    <3>4. CASE s \notin Recovered
      <4>1. OpenOf(k, task[s]) = Left(k, task[s])
        BY <1>4, <2>3, <3>4 DEF OpenOf
      <4> QED BY <1>3, <2>1, <2>2, <3>1, <3>2, <3>4, <4>1 DEF Weight
    <3> QED BY <3>3, <3>4
  <2>4. CASE s # s0
    <3>1. Credit(k, s, rAt'[r], held'[r]) = 0
      BY <1>1, <1>2, <2>4 DEF Types, Credit
    <3>2. CASE s \in Recovered
      <4>1. OpenOf(k, task'[s]) \in 0..Limit(k)
        BY <1>7, AllowanceType DEF Types
      <4> QED BY <1>3, <2>1, <2>2, <3>1, <3>2, <4>1 DEF Weight
    <3>3. CASE s \notin Recovered
      BY <1>2, <1>3, <2>1, <2>2, <2>4, <3>1, <3>3 DEF Weight
    <3> QED BY <3>2, <3>3
  <2> QED BY <2>3, <2>4
<1> QED BY <1>7, <1>8, <1>9, InvStep

(* The steps that spend what the row has left.                             *)
LEMMA CallStep ==
  ASSUME Inv, NEW r \in Runs, Call(r)
  PROVE  Inv'
<1>1. /\ Types /\ rAt[r] = "check" /\ Sym(r) \in Symbols /\ Copy(r) \in TaskRows
      /\ Copy(r).attempts < MaxProviderAttempts
  BY DEF Inv, Types, Rows, Call, Missing, Sym, Copy
<1>2. /\ held' = [held EXCEPT ![r].row.attempts = @ + 1]
      /\ requests' = [requests EXCEPT ![r] = @ + 1]
      /\ calls' = [calls EXCEPT ![Sym(r)] = @ + 1]
      /\ rAt' = [rAt EXCEPT ![r] = "call"]
      /\ task' = task /\ ripe' = ripe /\ replays' = replays /\ renewals' = renewals
  BY DEF Call, Moves
<1> DEFINE new == [Copy(r) EXCEPT !.attempts = Copy(r).attempts + 1]
<1>3. MaxProviderAttempts \in Nat
  BY ReconciliationAssumption
<1>4. /\ new \in TaskRows /\ new.replays = Copy(r).replays
      /\ new.attempts = Copy(r).attempts + 1 /\ Copy(r).attempts \in Nat
  BY <1>1, <1>3 DEF TaskRows
<1>5. held'[r].symbol = Sym(r) /\ held'[r].row = new /\ held'[r] \in Rows
  BY <1>1, <1>2, <1>4 DEF Types, Rows, Sym, Copy
<1> HIDE DEF new
<1>6. \A q \in Runs \ {r} : rAt'[q] = rAt[q] /\ held'[q] = held[q]
  BY <1>1, <1>2 DEF Types
<1>7. Types'
  <2>1. held' \in [Runs -> Rows]
    <3>1. DOMAIN held' = Runs /\ held' = [q \in Runs |-> held'[q]]
      BY <1>1, <1>2 DEF Types
    <3> QED BY <1>1, <1>5, <1>6, <3>1 DEF Types
  <2> QED BY <1>1, <1>2, <2>1 DEF Types, Steps
<1>8. ASSUME NEW k \in Kinds, NEW s \in Symbols PROVE Weight(k, s, r)' <= Weight(k, s, r)
  <2>1. /\ Limit(k) \in Nat /\ Made(k, s) \in Nat
        /\ Credit(k, s, rAt[r], held[r]) \in 0..Limit(k) /\ OpenOf(k, task[s]) \in 0..Limit(k)
    BY <1>1, WeightType
  <2>2. Credit(k, s, rAt[r], held[r]) = IF s = Sym(r) THEN Left(k, Copy(r)) ELSE 0
    BY <1>1 DEF Credit, Sym, Copy
  <2>3. Credit(k, s, rAt'[r], held'[r]) = IF s = Sym(r) THEN Left(k, new) ELSE 0
    BY <1>1, <1>2, <1>5 DEF Types, Credit
  <2>4. CASE s = Sym(r) /\ k = "calls"
    <3>1. Made(k, s)' = Made(k, s) + 1
      BY <1>1, <1>2, <2>4 DEF Made, Types
    <3>2. Left(k, new) = Left(k, Copy(r)) - 1
      BY <1>3, <1>4, <2>4 DEF Left, Limit
    <3> QED BY <1>2, <2>1, <2>2, <2>3, <2>4, <3>1, <3>2 DEF Weight
  <2>5. CASE s # Sym(r) \/ k # "calls"
    <3>1. Made(k, s)' = Made(k, s)
      BY <1>1, <1>2, <2>5 DEF Made, Types
    <3>2. k # "calls" => Left(k, new) = Left(k, Copy(r))
      BY <1>4 DEF Left
    <3> QED BY <1>2, <2>1, <2>2, <2>3, <2>5, <3>1, <3>2 DEF Weight
  <2> QED BY <2>4, <2>5
<1> QED BY <1>2, <1>6, <1>7, <1>8, InvStep

LEMMA ReplayStep ==
  ASSUME Inv, NEW r \in Runs, Replay(r)
  PROVE  Inv'
<1>1. /\ Types /\ rAt[r] = "check" /\ Sym(r) \in Symbols /\ Copy(r) \in TaskRows
      /\ Copy(r).replays = 0
  BY DEF Inv, Types, Rows, Replay, Missing, Sym, Copy
<1>2. /\ held' = [held EXCEPT ![r].row.replays = 1]
      /\ replays' = [replays EXCEPT ![Sym(r)] = @ + 1]
      /\ rAt' = [rAt EXCEPT ![r] = "hold"]
      /\ task' = task /\ ripe' = ripe /\ requests' = requests /\ calls' = calls /\ renewals' = renewals
  BY DEF Replay, Moves
<1> DEFINE new == [Copy(r) EXCEPT !.replays = 1]
<1>3. new \in TaskRows /\ new.replays = 1 /\ new.attempts = Copy(r).attempts
  BY <1>1 DEF TaskRows
<1>4. held'[r].symbol = Sym(r) /\ held'[r].row = new /\ held'[r] \in Rows
  BY <1>1, <1>2, <1>3 DEF Types, Rows, Sym, Copy
<1> HIDE DEF new
<1>5. \A q \in Runs \ {r} : rAt'[q] = rAt[q] /\ held'[q] = held[q]
  BY <1>1, <1>2 DEF Types
<1>6. Types'
  <2>1. held' \in [Runs -> Rows]
    <3>1. DOMAIN held' = Runs /\ held' = [q \in Runs |-> held'[q]]
      BY <1>1, <1>2 DEF Types
    <3> QED BY <1>1, <1>4, <1>5, <3>1 DEF Types
  <2> QED BY <1>1, <1>2, <2>1 DEF Types, Steps
<1>7. ASSUME NEW k \in Kinds, NEW s \in Symbols PROVE Weight(k, s, r)' <= Weight(k, s, r)
  <2>1. /\ Limit(k) \in Nat /\ Made(k, s) \in Nat
        /\ Credit(k, s, rAt[r], held[r]) \in 0..Limit(k) /\ OpenOf(k, task[s]) \in 0..Limit(k)
    BY <1>1, WeightType
  <2>2. Credit(k, s, rAt[r], held[r]) = IF s = Sym(r) THEN Left(k, Copy(r)) ELSE 0
    BY <1>1 DEF Credit, Sym, Copy
  <2>3. Credit(k, s, rAt'[r], held'[r]) = IF s = Sym(r) THEN Left(k, new) ELSE 0
    BY <1>1, <1>2, <1>4 DEF Types, Credit
  <2>4. CASE s = Sym(r) /\ k # "calls"
    <3>1. Made(k, s)' = Made(k, s) + 1
      BY <1>1, <1>2, <2>4 DEF Made, Types
    <3>2. Left(k, new) = 0 /\ Left(k, Copy(r)) = 1
      BY <1>1, <1>3, <2>4 DEF Left, Limit
    <3> QED BY <1>2, <2>1, <2>2, <2>3, <2>4, <3>1, <3>2 DEF Weight
  <2>5. CASE s # Sym(r) \/ k = "calls"
    <3>1. Made(k, s)' = Made(k, s)
      BY <1>1, <1>2, <2>5 DEF Made, Types
    <3>2. k = "calls" => Left(k, new) = Left(k, Copy(r))
      BY <1>3 DEF Left
    <3> QED BY <1>2, <2>1, <2>2, <2>3, <2>5, <3>1, <3>2 DEF Weight
  <2> QED BY <2>4, <2>5
<1> QED BY <1>2, <1>5, <1>6, <1>7, InvStep

LEMMA CallSucceedsStep ==
  ASSUME Inv, NEW r \in Runs, CallSucceeds(r)
  PROVE  Inv'
<1>1. Types /\ rAt[r] = "call"
  BY DEF Inv, CallSucceeds
<1>2. /\ rAt' = [rAt EXCEPT ![r] = "hold"] /\ held' = held
      /\ task' = task /\ ripe' = ripe /\ requests' = requests /\ UNCHANGED countVars
  BY DEF CallSucceeds, Moves
<1>3. Types'
  BY <1>1, <1>2 DEF Types, Steps, countVars
<1>4. \A q \in Runs \ {r} : rAt'[q] = rAt[q] /\ held'[q] = held[q]
  BY <1>1, <1>2 DEF Types
<1>5. ASSUME NEW k \in Kinds, NEW s \in Symbols PROVE Weight(k, s, r)' <= Weight(k, s, r)
  <2>1. /\ Limit(k) \in Nat /\ Made(k, s) \in Nat
        /\ Credit(k, s, rAt[r], held[r]) \in 0..Limit(k) /\ OpenOf(k, task[s]) \in 0..Limit(k)
    BY <1>1, WeightType
  <2>2. Weight(k, s, r)' = Weight(k, s, r)
    BY <1>1, <1>2 DEF Weight, Credit, Made, countVars, Types
  <2> QED BY <2>1, <2>2 DEF Weight
<1> QED BY <1>2, <1>3, <1>4, <1>5, InvStep DEF countVars

LEMMA StillStep ==
  ASSUME Inv, ripe' \subseteq Symbols, UNCHANGED <<task, rAt, held, requests, countVars>>
  PROVE  Inv'
<1>1. Types'
  BY DEF Inv, Types, countVars
<1>2. ASSUME NEW k \in Kinds, NEW s \in Symbols PROVE Balanced(k, s)'
  BY DEF Inv, Balanced, Made, countVars
<1> QED BY <1>1, <1>2 DEF Inv

-----------------------------------------------------------------------------
LEMMA InitInv == ReconcileInit => Inv
<1> SUFFICES ASSUME ReconcileInit PROVE Inv
  OBVIOUS
<1>1. Types
  BY RowFacts DEF ReconcileInit, Types, Steps
<1>2. ASSUME NEW k \in Kinds, NEW s \in Symbols PROVE Balanced(k, s)
  <2>1. Limit(k) \in Nat
    BY AllowanceType
  <2>2. \A r \in Runs : CreditOf(k, s, rAt, held)[r] = 0
    BY DEF ReconcileInit, CreditOf, Credit
  <2>3. Total(Limit(k), CreditOf(k, s, rAt, held)) = 0
    BY <2>1, <2>2, TotalZero
  <2>4. Made(k, s) = 0 /\ renewals[s] = 0 /\ OpenOf(k, task[s]) = Limit(k)
    BY DEF ReconcileInit, Made, OpenOf, NoTask
  <2>5. Limit(k) * (1 + renewals[s]) = Limit(k)
    BY <2>1, <2>4
  <2> QED BY <2>1, <2>3, <2>4, <2>5 DEF Balanced
<1> QED BY <1>1, <1>2 DEF Inv

LEMMA StepInv == Inv /\ [ReconcileNext]_reconcileVars => Inv'
<1> SUFFICES ASSUME Inv, [ReconcileNext]_reconcileVars PROVE Inv'
  OBVIOUS
<1>0. ripe \subseteq Symbols /\ requests \in [Runs -> Nat]
  BY DEF Inv, Types
<1>1. ASSUME NEW r \in Runs, NEW k \in Symbols, NEW requeue \in BOOLEAN, Start(r, k, requeue)
      PROVE  Inv'
  BY <1>1, StartStep
<1>2. ASSUME NEW r \in Runs, Advance(r) PROVE Inv'
  <2>1. CASE Claim(r)
    BY <2>1, ClaimStep
  <2>2. CASE Finish(r)
    BY <1>0, <2>2, LeaveStep DEF Finish
  <2>3. CASE Observe(r)
    BY <1>0, <2>3, SaveStep DEF Observe, Settle, Save, Steps, TaskStatuses, countVars
  <2>4. CASE NothingLeft(r)
    BY <1>0, <2>4, SaveStep DEF NothingLeft, Missing, Settle, Save, Steps, TaskStatuses, countVars
  <2>5. CASE Replay(r)
    BY <2>5, ReplayStep
  <2>6. CASE ReplayFails(r)
    BY <1>0, <2>6, SaveStep DEF ReplayFails, Missing, Save, Steps, TaskStatuses
  <2>7. CASE Call(r)
    BY <2>7, CallStep
  <2>8. CASE CallSucceeds(r)
    BY <2>8, CallSucceedsStep
  <2>9. CASE CallFails(r)
    <3> DEFINE st == IF Copy(r).attempts < MaxProviderAttempts THEN "queued" ELSE "failed"
    <3>1. /\ st \in TaskStatuses \ {"none"}
          /\ task' = [task EXCEPT ![Sym(r)] = [Copy(r) EXCEPT !.status = st]]
      BY <2>9 DEF CallFails, TaskStatuses, Active
    <3>2. /\ rAt[r] \in Steps \ {"down", "claim"} /\ LetGo(r, "claim") /\ ripe' \subseteq Symbols
          /\ requests' = requests /\ calls' = calls /\ renewals' = renewals /\ replays' = replays
      BY <1>0, <2>9 DEF CallFails, Steps, countVars
    <3> HIDE DEF st
    <3> QED BY <3>1, <3>2, SaveStep
  <2>10. CASE Hold(r)
    BY <1>0, <2>10, SaveStep DEF Hold, Save, Steps, TaskStatuses, Active, countVars
  <2>11. CASE Unobserved(r)
    <3>1. Sym(r) \in Symbols
      BY DEF Inv, Types, Rows, Sym
    <3> QED BY <1>0, <2>11, <3>1, SaveStep DEF Unobserved, Save, Steps, TaskStatuses, Active, countVars
  <2> QED BY <1>2, <2>1, <2>2, <2>3, <2>4, <2>5, <2>6, <2>7, <2>8, <2>9, <2>10, <2>11 DEF Advance
<1>3. ASSUME NEW r \in Runs, StepFails(r) PROVE Inv'
  BY <1>0, <1>3, LeaveStep DEF StepFails
<1>4. ASSUME NEW r \in Runs, Stop(r) PROVE Inv'
  BY <1>0, <1>4, LeaveStep DEF Stop
<1>5. ASSUME NEW s \in Symbols, TimePasses(s) \/ LeaseOutlived(s) \/ Normalize(s) PROVE Inv'
  BY <1>0, <1>5, StillStep DEF TimePasses, LeaseOutlived, Normalize
<1>6. CASE UNCHANGED reconcileVars
  BY <1>0, <1>6, StillStep DEF reconcileVars
<1> QED BY <1>1, <1>2, <1>3, <1>4, <1>5, <1>6 DEF ReconcileNext

LEMMA InvBounds == Inv => PullsAreBounded
<1> SUFFICES ASSUME Inv, NEW s \in Symbols
             PROVE  /\ calls[s] <= MaxProviderAttempts * (1 + renewals[s])
                    /\ replays[s] <= 1 + renewals[s]
  BY DEF PullsAreBounded
<1>1. Types /\ renewals[s] \in Nat /\ calls[s] \in Nat /\ replays[s] \in Nat
  BY DEF Inv, Types
<1>2. ASSUME NEW k \in Kinds PROVE Made(k, s) <= Limit(k) * (1 + renewals[s])
  <2> DEFINE total == Total(Limit(k), CreditOf(k, s, rAt, held))
             bound == Limit(k) * (1 + renewals[s])
             open == OpenOf(k, task[s])
  <2>1. Limit(k) \in Nat /\ open \in 0..Limit(k) /\ Made(k, s) \in Nat
    <3>1. task[s] \in TaskRows
      BY <1>1 DEF Types
    <3> QED BY <1>1, <3>1, AllowanceType DEF Made
  <2>2. total \in Nat /\ bound \in Nat
    BY <1>1, <2>1, TotalType
  <2>3. Made(k, s) + total + open <= bound
    BY DEF Inv, Balanced
  <2> HIDE DEF total, bound, open
  <2>4. Made(k, s) <= bound
    BY <2>1, <2>2, <2>3
  <2> QED BY <2>4 DEF bound
<1>3. calls[s] <= MaxProviderAttempts * (1 + renewals[s])
  BY <1>2, "calls" \in Kinds DEF Made, Limit, Kinds
<1>4. replays[s] <= 1 * (1 + renewals[s])
  BY <1>2, "replays" \in Kinds DEF Made, Limit, Kinds
<1> QED BY <1>1, <1>3, <1>4

(* However many runs overlap, die or outlive their leases, no task is      *)
(* given more provider calls or replays than its attempts and renewals     *)
(* allow.                                                                  *)
THEOREM PullSafety == ReconcileInit /\ [][ReconcileNext]_reconcileVars => []PullsAreBounded
BY InitInv, StepInv, InvBounds, PTL

-----------------------------------------------------------------------------
(* What is left of the types: only a run at work holds a row, no run calls *)
(* past its budget, and only a published event is in the raw ledger.       *)
RestOfTypes ==
  /\ rawRow \subseteq published /\ published \subseteq Symbols /\ normalized \subseteq Symbols
  /\ \A r \in Runs : rAt[r] \in {"down", "claim"} => held[r] = Nothing
  /\ requests \in [Runs -> 0..MaxProviderRequests]
  /\ starts \in 0..MaxStarts /\ errors \in 0..MaxErrors

LEMMA HeldSymbol == Inv => \A r \in Runs : Sym(r) \in Symbols
  BY DEF Inv, Types, Rows, Sym

LEMMA RestOfTypesStep == Inv /\ RestOfTypes /\ [ReconcileNext]_reconcileVars => RestOfTypes'
<1> SUFFICES ASSUME Inv, RestOfTypes, [ReconcileNext]_reconcileVars PROVE RestOfTypes'
  OBVIOUS
<1>0. rAt \in [Runs -> Steps] /\ held \in [Runs -> Rows] /\ MaxProviderRequests \in Nat /\ MaxStarts \in Nat /\ MaxErrors \in Nat
  BY ReconciliationAssumption DEF Inv, Types
<1> USE <1>0 DEF RestOfTypes, Steps, storeVars, countVars, Error, Moves, LetGo
<1>1. ASSUME NEW r \in Runs, NEW k \in Symbols, NEW requeue \in BOOLEAN, Start(r, k, requeue)
      PROVE  RestOfTypes'
  BY <1>1 DEF Start
<1>2. ASSUME NEW r \in Runs, Claim(r) PROVE RestOfTypes'
  BY <1>2 DEF Claim
<1>3. ASSUME NEW r \in Runs, Finish(r) \/ StepFails(r) \/ Stop(r) PROVE RestOfTypes'
  BY <1>3 DEF Finish, StepFails, Stop
<1>4. ASSUME NEW r \in Runs, Observe(r) \/ NothingLeft(r) \/ ReplayFails(r) \/ Unobserved(r) PROVE RestOfTypes'
  BY <1>4 DEF Observe, NothingLeft, ReplayFails, Unobserved, Settle, Save
<1>5. ASSUME NEW r \in Runs, Replay(r) \/ Hold(r) PROVE RestOfTypes'
  BY <1>5 DEF Replay, Hold, Save
<1>6. ASSUME NEW r \in Runs, Call(r) PROVE RestOfTypes'
  BY <1>6 DEF Call
<1>7. ASSUME NEW r \in Runs, CallSucceeds(r) PROVE RestOfTypes'
  BY <1>7, HeldSymbol DEF CallSucceeds
<1>8. ASSUME NEW r \in Runs, CallFails(r) PROVE RestOfTypes'
  BY <1>8, HeldSymbol DEF CallFails
<1>9. ASSUME NEW s \in Symbols, TimePasses(s) \/ LeaseOutlived(s) \/ Normalize(s) PROVE RestOfTypes'
  BY <1>9 DEF TimePasses, LeaseOutlived, Normalize
<1>10. CASE UNCHANGED reconcileVars
  BY <1>10 DEF reconcileVars
<1> QED BY <1>1, <1>2, <1>3, <1>4, <1>5, <1>6, <1>7, <1>8, <1>9, <1>10 DEF ReconcileNext, Advance

(* A run outside a task holds no row and no run calls past its budget,     *)
(* over crashes, failed steps and rows that other runs took over.          *)
THEOREM ReconcileTypes == ReconcileInit /\ [][ReconcileNext]_reconcileVars => []ReconcileTypeOK
<1>1. ReconcileInit => RestOfTypes
  BY ReconciliationAssumption DEF ReconcileInit, RestOfTypes
<1>2. Inv /\ RestOfTypes => ReconcileTypeOK
  BY DEF Inv, Types, RestOfTypes, ReconcileTypeOK, Steps, Rows
<1> QED BY <1>1, <1>2, InitInv, StepInv, RestOfTypesStep, PTL

-----------------------------------------------------------------------------
(* A nonempty set of numbers has the least element that Min chooses.       *)
LEMMA MinIsMember ==
  ASSUME NEW S, S \subseteq Nat, S # {}
  PROVE  Min(S) \in S
<1>1. PICK x \in S : \A y \in S : <<y, x>> \notin OpToRel(<, Nat)
  BY NatLessThanWellFounded, WFMin
<1>2. \A y \in S : x <= y
  <2>1. ASSUME NEW y \in S PROVE ~(y < x)
    <3>1. <<y, x>> \in Nat \X Nat /\ <<y, x>>[1] = y /\ <<y, x>>[2] = x
      OBVIOUS
    <3> QED BY <1>1, <3>1, Zenon DEF OpToRel
  <2> QED BY <2>1
<1> QED BY <1>2 DEF Min

LEMMA MaxOfTwo ==
  ASSUME NEW m \in Nat, NEW n \in Nat, n = Max({m, n})
  PROVE  m <= n
<1>1. \E x \in {m, n} : \A y \in {m, n} : x >= y
  <2>1. CASE m <= n
    <3>1. \A y \in {m, n} : n >= y
      BY <2>1
    <3> QED BY <3>1
  <2>2. CASE n <= m
    <3>1. \A y \in {m, n} : m >= y
      BY <2>2
    <3> QED BY <3>1
  <2> QED BY <2>1, <2>2
<1>2. \A y \in {m, n} : Max({m, n}) >= y
  BY <1>1 DEF Max
<1> QED BY <1>2

-----------------------------------------------------------------------------
JobRows == [asset : Assets, status : JobStatuses, failed : 0..Cardinality(Sessions)]

(* The sessions of a set that the provider has a bar of the asset for.     *)
Owed(a, days) == {d \in days : <<a, d>> \in Bars}

(* A session the worker has pulled of its job was counted as sent, was     *)
(* counted as failed, or had no bar.                                       *)
HeldIsCounted ==
  /\ \A i \in 1..Len(jobs) : jobs[i].status = "queued" => jobs[i].failed = 0
  /\ wJob # 0 =>
       /\ jobs[wJob].status = "running"
       /\ wSent + jobs[wJob].failed <= Cardinality(Sessions \ wRest)
       /\ jobs[wJob].failed = 0 => wSent = Cardinality(Owed(jobs[wJob].asset, Sessions \ wRest))

BackfillInv == BackfillTypeOK /\ HeldIsCounted /\ SucceededIsComplete

(* The last session pulled raises the count by one.                        *)
LEMMA PulledGrows ==
  ASSUME NEW rest, rest \subseteq Sessions, NEW d \in rest, NEW a
  PROVE  /\ Cardinality(Sessions \ (rest \ {d})) = Cardinality(Sessions \ rest) + 1
         /\ Cardinality(Sessions \ (rest \ {d})) <= Cardinality(Sessions)
         /\ Cardinality(Sessions \ rest) \in Nat /\ Cardinality(Sessions) \in Nat
         /\ Cardinality(Owed(a, Sessions \ rest)) \in Nat
         /\ Cardinality(Owed(a, Sessions \ (rest \ {d}))) =
              Cardinality(Owed(a, Sessions \ rest)) + (IF <<a, d>> \in Bars THEN 1 ELSE 0)
<1>1. IsFiniteSet(Sessions) /\ IsFiniteSet(Sessions \ rest)
  BY BackfillAssumption, FS_Difference
<1>2. Sessions \ (rest \ {d}) = (Sessions \ rest) \cup {d}
  OBVIOUS
<1>3. Cardinality(Sessions \ (rest \ {d})) = Cardinality(Sessions \ rest) + 1
  BY <1>1, <1>2, FS_AddElement
<1>4. IsFiniteSet(Owed(a, Sessions \ rest))
  BY <1>1, FS_Subset DEF Owed
<1>5. CASE <<a, d>> \in Bars
  <2>1. Owed(a, Sessions \ (rest \ {d})) = Owed(a, Sessions \ rest) \cup {d} /\ d \notin Owed(a, Sessions \ rest)
    BY <1>2, <1>5 DEF Owed
  <2>2. Cardinality(Owed(a, Sessions \ (rest \ {d}))) = Cardinality(Owed(a, Sessions \ rest)) + 1
    BY <1>4, <2>1, FS_AddElement
  <2> QED BY <1>1, <1>3, <1>4, <1>5, <2>2, FS_Subset, FS_CardinalityType
<1>6. CASE <<a, d>> \notin Bars
  <2>1. Owed(a, Sessions \ (rest \ {d})) = Owed(a, Sessions \ rest)
    BY <1>2, <1>6 DEF Owed
  <2>2. Cardinality(Owed(a, Sessions \ rest)) \in Nat
    BY <1>4, FS_CardinalityType
  <2> QED BY <1>1, <1>3, <1>6, <2>1, <2>2, FS_Subset, FS_CardinalityType
<1> QED BY <1>5, <1>6

LEMMA BackfillStart == BackfillInit => BackfillInv
<1>1. Cardinality(Sessions) \in Nat
  BY BackfillAssumption, FS_CardinalityType
<1> QED BY <1>1, BackfillAssumption
    DEF BackfillInit, BackfillInv, BackfillTypeOK, HeldIsCounted, SucceededIsComplete

LEMMA CreateStep ==
  ASSUME BackfillInv, NEW a \in Assets, CreateJob(a)
  PROVE  BackfillInv'
<1> DEFINE new == [asset |-> a, status |-> "queued", failed |-> 0]
<1>1. /\ jobs \in Seq(JobRows) /\ wJob \in 0..Len(jobs) /\ Len(jobs) < MaxJobs /\ MaxJobs \in Nat
      /\ jobs' = Append(jobs, new)
      /\ UNCHANGED <<stored, complete, wJob, wRest, wSent, breaks>>
  BY BackfillAssumption DEF BackfillInv, BackfillTypeOK, CreateJob, dayVars, workerVars, JobRows
<1>2. Cardinality(Sessions) \in Nat
  BY BackfillAssumption, FS_CardinalityType
<1>3. new \in JobRows /\ new.status = "queued" /\ new.failed = 0
  BY <1>2 DEF JobRows, JobStatuses, ActiveJob
<1> HIDE DEF new
<1>4. /\ jobs' \in Seq(JobRows) /\ Len(jobs') = Len(jobs) + 1 /\ Len(jobs) \in Nat
      /\ \A i \in 1..Len(jobs) : jobs'[i] = jobs[i]
      /\ jobs'[Len(jobs) + 1] = new
  BY <1>1, <1>3, AppendProperties, LenProperties
<1>5. \A i \in 1..Len(jobs') : i \in 1..Len(jobs) \/ i = Len(jobs) + 1
  BY <1>4
<1>6. wJob # 0 => jobs'[wJob] = jobs[wJob]
  BY <1>1, <1>4
<1>7. BackfillTypeOK'
  BY <1>1, <1>4, <1>6 DEF BackfillInv, BackfillTypeOK, JobRows
<1>8. HeldIsCounted'
  BY <1>1, <1>3, <1>4, <1>5, <1>6 DEF BackfillInv, HeldIsCounted
<1>9. SucceededIsComplete'
  BY <1>1, <1>3, <1>4, <1>5 DEF BackfillInv, SucceededIsComplete
<1> QED BY <1>7, <1>8, <1>9 DEF BackfillInv

(* A step that rewrites one job.                                           *)
LEMMA JobChanges ==
  ASSUME jobs \in Seq(JobRows), NEW i \in 1..Len(jobs), NEW row \in JobRows,
         jobs' = [jobs EXCEPT ![i] = row]
  PROVE  /\ jobs' \in Seq(JobRows) /\ Len(jobs') = Len(jobs) /\ jobs'[i] = row
         /\ \A j \in 1..Len(jobs) : j # i => jobs'[j] = jobs[j]
BY ExceptSeq, LenProperties

LEMMA ClaimJobStep ==
  ASSUME BackfillInv, ClaimJob
  PROVE  BackfillInv'
<1> DEFINE queued == {i \in 1..Len(jobs) : jobs[i].status = "queued"}
           m == Min(queued)
           row == [jobs[m] EXCEPT !.status = "running"]
<1>1. /\ jobs \in Seq(JobRows) /\ wJob = 0 /\ queued # {}
      /\ wJob' = m /\ wRest' = Sessions /\ wSent' = 0
      /\ jobs' = [jobs EXCEPT ![m].status = "running"]
      /\ UNCHANGED <<stored, complete, breaks>>
  BY DEF BackfillInv, BackfillTypeOK, ClaimJob, dayVars, JobRows
<1>2. m \in queued
  <2>1. queued \subseteq Nat
    BY LenProperties, <1>1
  <2> QED BY <1>1, <2>1, MinIsMember
<1>3. m \in 1..Len(jobs) /\ jobs[m] \in JobRows /\ jobs[m].status = "queued" /\ jobs[m].failed = 0
  BY <1>1, <1>2, ElementOfSeq DEF BackfillInv, HeldIsCounted
<1> HIDE DEF m, queued
<1>4. jobs' = [jobs EXCEPT ![m] = row]
  BY <1>1
<1>5. /\ row \in JobRows /\ row.status = "running" /\ row.failed = 0
  BY <1>3 DEF JobRows, JobStatuses, ActiveJob
<1> HIDE DEF row
<1>6. /\ jobs' \in Seq(JobRows) /\ Len(jobs') = Len(jobs) /\ jobs'[m] = row
      /\ \A j \in 1..Len(jobs) : j # m => jobs'[j] = jobs[j]
  BY <1>1, <1>3, <1>4, <1>5, JobChanges
<1>7. Len(jobs) \in Nat /\ m # 0 /\ m \in 0..Len(jobs) /\ Cardinality(Sessions) \in Nat
  BY <1>1, <1>3, LenProperties, BackfillAssumption, FS_CardinalityType
<1>8. BackfillTypeOK'
  BY <1>1, <1>5, <1>6, <1>7 DEF BackfillInv, BackfillTypeOK, JobRows
<1>9. HeldIsCounted'
  <2>1. Sessions \ wRest' = {} /\ Owed(jobs'[m].asset, Sessions \ wRest') = {}
    BY <1>1 DEF Owed
  <2>2. Cardinality({}) = 0
    BY FS_EmptySet
  <2>3. \A i \in 1..Len(jobs') : jobs'[i].status = "queued" => jobs'[i].failed = 0
    BY <1>5, <1>6 DEF BackfillInv, HeldIsCounted
  <2>4. Cardinality(Sessions \ wRest') = 0 /\ Cardinality(Owed(jobs'[m].asset, Sessions \ wRest')) = 0
    BY <2>1, <2>2, Zenon
  <2>5. wJob' = m /\ wSent' = 0 /\ jobs'[m] = row
    BY <1>1, <1>6
  <2> QED BY <1>5, <2>3, <2>4, <2>5 DEF HeldIsCounted
<1>10. SucceededIsComplete'
  BY <1>1, <1>5, <1>6 DEF BackfillInv, SucceededIsComplete
<1> QED BY <1>8, <1>9, <1>10 DEF BackfillInv

LEMMA PullStep ==
  ASSUME BackfillInv, Pull
  PROVE  BackfillInv'
<1> DEFINE d == Min(wRest)
           a == jobs[wJob].asset
           day == <<a, d>>
           row == [jobs[wJob] EXCEPT !.failed = jobs[wJob].failed + 1]
<1>1. /\ jobs \in Seq(JobRows) /\ wJob \in 1..Len(jobs) /\ wRest \subseteq Sessions /\ wRest # {}
      /\ complete \subseteq stored /\ stored \subseteq Bars
      /\ wSent \in 0..Cardinality(Sessions) /\ Len(jobs) \in Nat
      /\ wRest' = wRest \ {d} /\ UNCHANGED <<complete, wJob>>
  BY LenProperties DEF BackfillInv, BackfillTypeOK, Pull, JobRows
<1>2. d \in wRest
  BY <1>1, MinIsMember, BackfillAssumption
<1>3. jobs[wJob] \in JobRows
  BY <1>1, ElementOfSeq
<1>4. \/ day \notin Bars /\ UNCHANGED <<jobs, stored, wSent, breaks>>
      \/ /\ day \in Bars /\ stored' = stored \cup {day} /\ wSent' = wSent + 1
         /\ UNCHANGED <<jobs, breaks>>
      \/ /\ Break /\ jobs' = [jobs EXCEPT ![wJob] = row]
         /\ stored' \in {stored, stored \cup ({day} \cap Bars)} /\ wSent' = wSent
  BY DEF Pull
<1> HIDE DEF d
<1>5. /\ Cardinality(Sessions \ wRest') = Cardinality(Sessions \ wRest) + 1
      /\ Cardinality(Sessions \ wRest') <= Cardinality(Sessions)
      /\ Cardinality(Sessions \ wRest) \in Nat /\ Cardinality(Sessions) \in Nat
      /\ Cardinality(Owed(a, Sessions \ wRest)) \in Nat
      /\ Cardinality(Owed(a, Sessions \ wRest')) =
              Cardinality(Owed(a, Sessions \ wRest)) + (IF day \in Bars THEN 1 ELSE 0)
  BY <1>1, <1>2, PulledGrows
<1>6. /\ jobs[wJob].status = "running" /\ jobs[wJob].failed \in Nat /\ wSent \in Nat
      /\ wSent + jobs[wJob].failed <= Cardinality(Sessions \ wRest)
      /\ jobs[wJob].failed = 0 => wSent = Cardinality(Owed(a, Sessions \ wRest))
  BY <1>1, <1>3, <1>5 DEF BackfillInv, HeldIsCounted, JobRows
<1>7. stored' \subseteq Bars /\ complete' \subseteq stored' /\ wRest' \subseteq Sessions
  BY <1>1, <1>4
<1>8. breaks' \in 0..MaxBreaks
  BY <1>4, BackfillAssumption DEF Break, BackfillInv, BackfillTypeOK
<1>9. CASE UNCHANGED jobs /\ (wSent' = wSent \/ (day \in Bars /\ wSent' = wSent + 1))
           /\ (day \in Bars => wSent' = wSent + 1)
  <2> DEFINE b == Cardinality(Sessions \ wRest)
             n == Cardinality(Owed(a, Sessions \ wRest))
             f == jobs[wJob].failed
  <2>1. wSent' + f <= b + 1 /\ wSent' \in Nat
    BY <1>5, <1>6, <1>9
  <2>2. wSent' \in 0..Cardinality(Sessions)
    BY <1>5, <1>6, <2>1
  <2>3. f = 0 => wSent' = n + (IF day \in Bars THEN 1 ELSE 0)
    BY <1>5, <1>6, <1>9
  <2>4. BackfillTypeOK'
    BY <1>1, <1>7, <1>8, <1>9, <2>2 DEF BackfillInv, BackfillTypeOK
  <2>5. HeldIsCounted'
    BY <1>1, <1>5, <1>6, <1>9, <2>1, <2>3 DEF BackfillInv, HeldIsCounted
  <2>6. SucceededIsComplete'
    BY <1>1, <1>9 DEF BackfillInv, SucceededIsComplete
  <2> QED BY <2>4, <2>5, <2>6 DEF BackfillInv
<1>10. CASE jobs' = [jobs EXCEPT ![wJob] = row] /\ wSent' = wSent
  <2>1. jobs[wJob].failed + 1 \in 0..Cardinality(Sessions)
    BY <1>5, <1>6
  <2>2. /\ row \in JobRows /\ row.status = "running" /\ row.asset = a
        /\ row.failed = jobs[wJob].failed + 1
    BY <1>3, <1>6, <2>1 DEF JobRows
  <2> HIDE DEF row
  <2>3. /\ jobs' \in Seq(JobRows) /\ Len(jobs') = Len(jobs) /\ jobs'[wJob] = row
        /\ \A j \in 1..Len(jobs) : j # wJob => jobs'[j] = jobs[j]
    BY <1>1, <1>10, <2>2, JobChanges
  <2>4. BackfillTypeOK'
    BY <1>1, <1>7, <1>8, <1>10, <2>2, <2>3 DEF BackfillInv, BackfillTypeOK, JobRows
  <2>5. HeldIsCounted'
    <3>1. wSent + row.failed <= Cardinality(Sessions \ wRest') /\ row.failed # 0
      BY <1>5, <1>6, <2>2
    <3> QED BY <1>1, <1>10, <2>2, <2>3, <3>1 DEF BackfillInv, HeldIsCounted
  <2>6. SucceededIsComplete'
    BY <1>1, <2>2, <2>3 DEF BackfillInv, SucceededIsComplete
  <2> QED BY <2>4, <2>5, <2>6 DEF BackfillInv
<1> QED BY <1>4, <1>9, <1>10

LEMMA FinalizeStep ==
  ASSUME BackfillInv, Finalize
  PROVE  BackfillInv'
<1> DEFINE st == FinalStatus(wJob, wSent)
           row == [jobs[wJob] EXCEPT !.status = st]
           a == jobs[wJob].asset
           done == {d \in Sessions : <<a, d>> \in complete}
<1>1. /\ jobs \in Seq(JobRows) /\ wJob \in 1..Len(jobs) /\ wRest = {} /\ Len(jobs) \in Nat
      /\ complete \subseteq stored /\ stored \subseteq Bars
      /\ jobs' = [jobs EXCEPT ![wJob] = row]
      /\ wJob' = 0 /\ wSent' = 0 /\ UNCHANGED <<stored, complete, wRest, breaks>>
  BY LenProperties DEF BackfillInv, BackfillTypeOK, Finalize, dayVars, JobRows
<1>2. jobs[wJob] \in JobRows
  BY <1>1, ElementOfSeq
<1>3. st \in JobStatuses /\ st # "queued"
  BY DEF FinalStatus, JobStatuses, ActiveJob
<1>4. ASSUME st = "succeeded" PROVE Owed(a, Sessions) \subseteq done
  <2>1. Sessions \ wRest = Sessions
    BY <1>1
  <2>2. jobs[wJob].failed = 0 /\ Done(wJob) = Max({wSent, Done(wJob)})
    BY <1>2, <1>4 DEF FinalStatus, JobRows
  <2>3. wSent = Cardinality(Owed(a, Sessions)) /\ Done(wJob) = Cardinality(done)
    BY <1>1, <2>1, <2>2 DEF BackfillInv, HeldIsCounted, Done
  <2>4. done \subseteq Owed(a, Sessions)
    BY <1>1 DEF Owed
  <2>5. IsFiniteSet(Owed(a, Sessions))
    BY BackfillAssumption, FS_Subset DEF Owed
  <2> HIDE DEF done
  <2>6. /\ Cardinality(done) <= Cardinality(Owed(a, Sessions))
        /\ Cardinality(done) \in Nat /\ Cardinality(Owed(a, Sessions)) \in Nat
        /\ Cardinality(done) = Cardinality(Owed(a, Sessions)) => done = Owed(a, Sessions)
    BY <2>4, <2>5, FS_Subset, FS_CardinalityType
  <2>7. Cardinality(Owed(a, Sessions)) <= Cardinality(done)
    BY <2>2, <2>3, <2>6, MaxOfTwo
  <2> QED BY <2>6, <2>7
<1> HIDE DEF st
<1>5. row \in JobRows /\ row.status = st /\ row.asset = a
  BY <1>2, <1>3 DEF JobRows
<1> HIDE DEF row
<1>6. /\ jobs' \in Seq(JobRows) /\ Len(jobs') = Len(jobs) /\ jobs'[wJob] = row
      /\ \A j \in 1..Len(jobs) : j # wJob => jobs'[j] = jobs[j]
  BY <1>1, <1>5, JobChanges
<1>7. BackfillTypeOK'
  <2>1. Cardinality(Sessions) \in Nat
    BY BackfillAssumption, FS_CardinalityType
  <2> QED BY <1>1, <1>6, <2>1 DEF BackfillInv, BackfillTypeOK, JobRows
<1>8. HeldIsCounted'
  BY <1>1, <1>3, <1>5, <1>6 DEF BackfillInv, HeldIsCounted
<1>9. SucceededIsComplete'
  <2>1. st = "succeeded" => \A d \in Sessions : <<a, d>> \in Bars => <<a, d>> \in complete
    BY <1>4 DEF Owed
  <2> QED BY <1>1, <1>5, <1>6, <2>1 DEF BackfillInv, SucceededIsComplete
<1> QED BY <1>7, <1>8, <1>9 DEF BackfillInv

LEMMA BackfillStep == BackfillInv /\ [BackfillNext]_backfillVars => BackfillInv'
<1> SUFFICES ASSUME BackfillInv, [BackfillNext]_backfillVars PROVE BackfillInv'
  OBVIOUS
<1>1. CASE AbandonJob
  <2>1. Cardinality(Sessions) \in Nat /\ Len(jobs) \in Nat
    BY BackfillAssumption, FS_CardinalityType, LenProperties DEF BackfillInv, BackfillTypeOK
  <2>2. UNCHANGED <<jobs, stored, complete>> /\ wJob' = 0 /\ wRest' = {} /\ wSent' = 0
    BY <1>1 DEF AbandonJob, dayVars
  <2>3. breaks' \in 0..MaxBreaks
    BY <1>1, BackfillAssumption DEF AbandonJob, Break, BackfillInv, BackfillTypeOK
  <2> QED BY <2>1, <2>2, <2>3 DEF BackfillInv, BackfillTypeOK, HeldIsCounted, SucceededIsComplete
<1>2. ASSUME NEW day \in Days, Complete(day) PROVE BackfillInv'
  BY <1>2 DEF BackfillInv, BackfillTypeOK, HeldIsCounted, SucceededIsComplete, Complete, workerVars
<1>3. CASE UNCHANGED backfillVars
  BY <1>3 DEF BackfillInv, BackfillTypeOK, HeldIsCounted, SucceededIsComplete,
     backfillVars, dayVars, workerVars
<1> QED BY <1>1, <1>2, <1>3, CreateStep, ClaimJobStep, PullStep, FinalizeStep DEF BackfillNext

(* Every counter of a job stays within its window, for any assets, jobs    *)
(* and failures.                                                           *)
THEOREM BackfillTypes == BackfillInit /\ [][BackfillNext]_backfillVars => []BackfillTypeOK
<1>1. BackfillInv => BackfillTypeOK
  BY DEF BackfillInv
<1> QED BY <1>1, BackfillStart, BackfillStep, PTL

(* Every bar of a succeeded job's window is normalized: a job without a    *)
(* failed session has sent exactly the bars of its window, and as many     *)
(* normalized sessions as that can only be those.                          *)
THEOREM BackfillSafety == BackfillInit /\ [][BackfillNext]_backfillVars => []SucceededIsComplete
<1>1. BackfillInv => SucceededIsComplete
  BY DEF BackfillInv
<1> QED BY <1>1, BackfillStart, BackfillStep, PTL
=============================================================================
