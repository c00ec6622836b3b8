------------------------ MODULE SignalLifecycleProofs ------------------------
(***************************************************************************)
(* TLAPS proofs about SignalLifecycle and the detector worker beneath it,  *)
(* for any events, however handler, detector, broker and decoder treat     *)
(* them, and any limit of attempts, messages, decisions and faults.        *)
(***************************************************************************)
EXTENDS SignalLifecycle, SequenceTheorems, TLAPS

(* The topics only grow, a message keeps its offset, and the worker's      *)
(* input asks for no more than MaxAttempts tries.                          *)
TopicInv ==
  /\ route \in {"direct", "normalizer"}
  /\ input \in Seq(Message) /\ Len(input) <= MaxInput
  /\ \A i \in 1..Len(input) : input[i].attempt < MaxAttempts
  /\ retry \in Seq([event : Events, attempt : Attempts \ {0}])
  /\ dead \subseteq Events
  /\ signals \in Seq([sig : Events, time : Nat])
  /\ \A i \in 1..Len(signals) : signals[i].time = i
  /\ faults \in 0..MaxFaults

(* What the worker has passed, committed or not, is settled.               *)
WorkerInv ==
  /\ wAt \in {"poll", "handle", "retry", "commit", "down"}
  /\ wDone \in 0..Len(input) /\ wNext \in (wDone + 1)..(Len(input) + 1)
  /\ wAt \in {"handle", "retry", "commit"} => wNext <= Len(input)
  /\ \A o \in 1..wNext - 1 : InputSettled(o)
  /\ wAt = "commit" => InputSettled(wNext)

(* What the replayer has passed was replayed or dead-lettered.             *)
RetrySettled(i) ==
  \/ retry[i].event \in dead
  \/ \E o \in 1..Len(input) : input[o] = Replayed(retry[i])

ReplayerInv ==
  /\ rAt \in {"poll", "decide", "commit", "down"}
  /\ rDone \in 0..Len(retry) /\ rNext \in (rDone + 1)..(Len(retry) + 1)
  /\ rAt \in {"decide", "commit"} => rNext <= Len(retry)
  /\ \A i \in 1..rNext - 1 : RetrySettled(i)
  /\ rAt = "commit" => RetrySettled(rNext)

(* The persister's offsets; nothing of a signal reaches PostgreSQL before  *)
(* TimescaleDB has it.                                                     *)
PersisterInv ==
  /\ rejected \subseteq 1..Len(signals) /\ lost \subseteq 1..Len(signals)
  /\ pAt \in {"poll", "process", "persist", "commit", "down"}
  /\ pDone \in 0..Len(signals) /\ pNext \in (pDone + 1)..(Len(signals) + 1)
  /\ pAt \in {"process", "persist", "commit"} => pNext <= Len(signals)
  /\ pAt = "persist" => Time \in temporal[Sig]
  /\ \A o \in 1..pNext - 1 : SignalSettled(o) \/ o \in lost
  /\ pAt = "commit" => SignalSettled(pNext)
  /\ Len(signals) <= MaxSignals

DocType ==
  [status : Decisions \cup {"none", "new"}, first : Times, last : Times]

StoreInv ==
  /\ temporal \in [Events -> SUBSET Times]
  /\ ledger \in [Events -> Times]
  /\ docs \in [Kinds -> [Events -> DocType]]
  /\ told \in [Kinds -> [Events -> Decisions \cup {"none"}]]
  /\ decisions \in 0..MaxDecisions
  /\ StoresAgree /\ OperatorDecisionStands

Inv == TopicInv /\ WorkerInv /\ ReplayerInv /\ PersisterInv /\ StoreInv

-----------------------------------------------------------------------------
LEMMA InitInv == Init => Inv
<1> SUFFICES ASSUME Init PROVE Inv
  OBVIOUS
<1> USE DEF Init, DetectorInit
<1>0. /\ MaxInput \in Nat /\ MaxFaults \in Nat /\ MaxSignals \in Nat /\ MaxDecisions \in Nat
  BY DetectorAssumption, LifecycleAssumption
<1>1. TopicInv
  BY <1>0 DEF TopicInv
<1>2. WorkerInv /\ ReplayerInv
  BY DEF WorkerInv, ReplayerInv
<1>3. PersisterInv
  BY <1>0 DEF PersisterInv
<1>4. StoreInv
  <2>1. StoresAgree /\ OperatorDecisionStands
    BY DEF StoresAgree, OperatorDecisionStands
  <2>2. NoDoc \in DocType
    BY <1>0 DEF NoDoc, DocType, Times
  <2> QED BY <1>0, <2>1, <2>2 DEF StoreInv, Times
<1> QED BY <1>1, <1>2, <1>3, <1>4 DEF Inv

-----------------------------------------------------------------------------
(* The topics grow.                                                        *)
Grows ==
  /\ Len(input) \in Nat /\ Len(input') \in Nat /\ Len(input) <= Len(input')
  /\ \A i \in 1..Len(input) : input'[i] = input[i]
  /\ Len(retry) \in Nat /\ Len(retry') \in Nat /\ Len(retry) <= Len(retry')
  /\ \A i \in 1..Len(retry) : retry'[i] = retry[i]
  /\ Len(signals) \in Nat /\ Len(signals') \in Nat /\ Len(signals) <= Len(signals')
  /\ \A i \in 1..Len(signals) : signals'[i] = signals[i]
  /\ dead \subseteq dead' /\ UNCHANGED route

LEMMA Appended ==
  ASSUME NEW S, NEW q \in Seq(S), NEW x \in S
  PROVE  /\ Append(q, x) \in Seq(S)
         /\ Len(q) \in Nat /\ Len(Append(q, x)) = Len(q) + 1
         /\ Append(q, x)[Len(q) + 1] = x
         /\ \A i \in 1..Len(q) : Append(q, x)[i] = q[i]
         /\ \A i : i \in 1..Len(q) + 1 <=> i \in 1..Len(q) \/ i = Len(q) + 1
<1>1. Len(q) \in Nat
  OBVIOUS
<1> QED BY <1>1

LEMMA Element ==
  ASSUME NEW S, NEW q \in Seq(S), NEW i \in 1..Len(q)
  PROVE  q[i] \in S
  OBVIOUS

LEMMA FaultStep ==
  TopicInv /\ (UNCHANGED faults \/ Fault) => faults' \in 0..MaxFaults
  BY DetectorAssumption DEF TopicInv, Fault

LEMMA TopicsKept ==
  ASSUME TopicInv, UNCHANGED <<route, topicVars, signals>>, UNCHANGED faults \/ Fault
  PROVE  TopicInv' /\ Grows
  BY FaultStep DEF TopicInv, Grows, topicVars

LEMMA InputAppended ==
  ASSUME TopicInv, NEW m \in Message, m.attempt < MaxAttempts, Len(input) < MaxInput,
         input' = Append(input, m), UNCHANGED <<route, retry, dead, signals, faults>>
  PROVE  TopicInv' /\ Grows /\ \E o \in 1..Len(input') : input'[o] = m
<1>1. /\ input' \in Seq(Message) /\ Len(input) \in Nat /\ Len(input') = Len(input) + 1
      /\ input'[Len(input) + 1] = m
      /\ \A i \in 1..Len(input) : input'[i] = input[i]
      /\ \A i : i \in 1..Len(input') <=> i \in 1..Len(input) \/ i = Len(input) + 1
  BY Appended DEF TopicInv
<1>2. \A i \in 1..Len(input') : input'[i].attempt < MaxAttempts
  BY <1>1 DEF TopicInv
<1>3. TopicInv'
  BY <1>1, <1>2, DetectorAssumption DEF TopicInv
<1>4. Grows
  BY <1>1 DEF Grows, TopicInv
<1> QED BY <1>1, <1>3, <1>4

LEMMA SignalAppended ==
  ASSUME TopicInv, NEW e \in Events, signals' = Append(signals, [sig |-> e, time |-> Len(signals) + 1]),
         UNCHANGED <<route, topicVars>>, UNCHANGED faults \/ Fault
  PROVE  TopicInv' /\ Grows
<1> DEFINE m == [sig |-> e, time |-> Len(signals) + 1]
<1>1. signals \in Seq([sig : Events, time : Nat]) /\ Len(signals) \in Nat
  BY DEF TopicInv
<1>2. m \in [sig : Events, time : Nat]
  BY <1>1
<1>3. /\ signals' \in Seq([sig : Events, time : Nat])
      /\ Len(signals') = Len(signals) + 1 /\ signals'[Len(signals) + 1] = m
      /\ \A i \in 1..Len(signals) : signals'[i] = signals[i]
      /\ \A i : i \in 1..Len(signals') <=> i \in 1..Len(signals) \/ i = Len(signals) + 1
  BY <1>1, <1>2, Appended
<1>4. \A i \in 1..Len(signals') : signals'[i].time = i
  BY <1>3 DEF TopicInv
<1>5. TopicInv'
  BY <1>3, <1>4, FaultStep DEF TopicInv, topicVars
<1>6. Grows
  BY <1>1, <1>3 DEF Grows, TopicInv, topicVars
<1> QED BY <1>5, <1>6

LEMMA HeldFacts ==
  ASSUME TopicInv, WorkerInv, wAt \in {"handle", "retry", "commit"}
  PROVE  /\ wNext \in 1..Len(input) /\ input[wNext] \in Message /\ Held \in Events
         /\ input[wNext].attempt < MaxAttempts
<1>1. wNext \in 1..Len(input)
  BY DEF WorkerInv
<1>2. input[wNext] \in Message
  BY <1>1, Element DEF TopicInv
<1> QED BY <1>1, <1>2 DEF TopicInv, Held, Message

LEMMA RetryFacts ==
  ASSUME TopicInv, ReplayerInv, rAt \in {"decide", "commit"}
  PROVE  /\ rNext \in 1..Len(retry) /\ retry[rNext].event \in Events
         /\ retry[rNext] \in [event : Events, attempt : Attempts \ {0}]
<1>1. rNext \in 1..Len(retry)
  BY DEF ReplayerInv
<1>2. retry[rNext] \in [event : Events, attempt : Attempts \ {0}]
  BY <1>1, Element DEF TopicInv
<1> QED BY <1>1, <1>2

LEMMA TopicStep ==
  ASSUME TopicInv, WorkerInv, ReplayerInv, DetectorNext
  PROVE  TopicInv' /\ Grows
<1>1. CASE \E e \in Events : Arrive(e)
  <2>1. PICK e \in Events : Arrive(e)
    BY <1>1
  <2>2. [event |-> e, attempt |-> 0] \in Message
    BY DetectorAssumption DEF Message, Attempts
  <2> QED BY <2>1, <2>2, InputAppended, DetectorAssumption DEF Arrive
<1>2. CASE PublishDead
  <2>1. Held \in Events
    BY <1>2, HeldFacts DEF PublishDead
  <2>2. dead' \subseteq Events /\ UNCHANGED <<route, input, retry, signals, faults>> /\ dead \subseteq dead'
    BY <1>2, <2>1 DEF PublishDead, TopicInv
  <2> QED BY <2>2 DEF TopicInv, Grows
<1>3. CASE EmitSignal
  <2>1. Held \in Events
    BY <1>3, HeldFacts DEF EmitSignal
  <2> QED BY <1>3, <2>1, SignalAppended DEF EmitSignal, WithSignal
<1>4. CASE EmitFails
  <2>1. Held \in Events
    BY <1>4, HeldFacts DEF EmitFails
  <2>2. CASE UNCHANGED signals
    BY <1>4, <2>2, TopicsKept DEF EmitFails
  <2>3. CASE signals' = WithSignal
    BY <1>4, <2>1, <2>3, SignalAppended DEF EmitFails, WithSignal
  <2> QED BY <1>4, <2>2, <2>3 DEF EmitFails
<1>5. CASE PublishRetry
  <2> DEFINE R == [event : Events, attempt : Attempts \ {0}]
             m == [event |-> Held, attempt |-> input[wNext].attempt + 1]
  <2>1. m \in R
    BY <1>5, HeldFacts, DetectorAssumption DEF PublishRetry, Message, Attempts
  <2>2. retry \in Seq(R) /\ retry' = Append(retry, m)
    BY <1>5 DEF TopicInv, PublishRetry
  <2>3. /\ retry' \in Seq(R) /\ Len(retry) \in Nat /\ Len(retry') = Len(retry) + 1
        /\ \A i \in 1..Len(retry) : retry'[i] = retry[i]
    <3> HIDE DEF R, m
    <3> QED BY <2>1, <2>2, Appended
  <2>4. UNCHANGED <<route, input, dead, signals, faults>>
    BY <1>5 DEF PublishRetry
  <2> QED BY <2>3, <2>4 DEF TopicInv, Grows
<1>6. CASE Replay
  <2>1. /\ rNext \in 1..Len(retry)
        /\ retry[rNext] \in [event : Events, attempt : Attempts \ {0}]
        /\ retry[rNext].attempt < MaxAttempts
    BY <1>6, RetryFacts DEF Replay, MayReplay
  <2>2. Replayed(retry[rNext]) \in Message /\ Replayed(retry[rNext]).attempt < MaxAttempts
    BY <2>1, DetectorAssumption DEF Replayed, Message, Attempts
  <2> QED BY <1>6, <2>2, InputAppended DEF Replay
<1>7. CASE Exhausted
  <2>1. retry[rNext].event \in Events
    BY <1>7, RetryFacts DEF Exhausted
  <2>2. dead' \subseteq Events /\ UNCHANGED <<route, input, retry, signals, faults>> /\ dead \subseteq dead'
    BY <1>7, <2>1 DEF Exhausted, TopicInv
  <2> QED BY <2>2 DEF TopicInv, Grows
<1>8. CASE UNCHANGED <<route, topicVars, signals>> /\ (UNCHANGED faults \/ Fault)
  BY <1>8, TopicsKept
<1>9. \/ \E e \in Events : Arrive(e)
      \/ PublishDead \/ EmitSignal \/ EmitFails \/ PublishRetry \/ Replay \/ Exhausted
      \/ UNCHANGED <<route, topicVars, signals>> /\ (UNCHANGED faults \/ Fault)
  BY DEF DetectorNext, Worker, Replayer, PollInput, NoMatch, CommitInput, WorkerStops, WorkerStarts,
         PollRetry, CommitRetry, ReplayerStops, ReplayerStarts
<1> QED BY <1>1, <1>2, <1>3, <1>4, <1>5, <1>6, <1>7, <1>8, <1>9

(* What is settled stays settled.                                          *)
LEMMA InputSettledKept ==
  ASSUME Grows, NEW o \in 1..Len(input), InputSettled(o)
  PROVE  InputSettled(o)'
<1>1. input'[o] = input[o]
  BY DEF Grows
<1>2. CASE input[o].event \in Quiet \/ input[o].event \in dead
  BY <1>1, <1>2 DEF InputSettled, Grows
<1>3. CASE Signalled(input[o].event)
  <2>1. PICK i \in 1..Len(signals) : signals[i].sig = input[o].event
    BY <1>3 DEF Signalled
  <2>2. i \in 1..Len(signals') /\ signals'[i].sig = input'[o].event
    BY <1>1, <2>1 DEF Grows
  <2> QED BY <2>2 DEF InputSettled, Signalled
<1>4. CASE \E i \in 1..Len(retry) : retry[i] = [input[o] EXCEPT !.attempt = @ + 1]
  <2>1. PICK i \in 1..Len(retry) : retry[i] = [input[o] EXCEPT !.attempt = @ + 1]
    BY <1>4
  <2>2. i \in 1..Len(retry') /\ retry'[i] = [input'[o] EXCEPT !.attempt = @ + 1]
    BY <1>1, <2>1 DEF Grows
  <2> QED BY <2>2 DEF InputSettled
<1> QED BY <1>2, <1>3, <1>4 DEF InputSettled

LEMMA RetrySettledKept ==
  ASSUME Grows, NEW i \in 1..Len(retry), RetrySettled(i)
  PROVE  RetrySettled(i)'
<1>1. retry'[i] = retry[i] /\ Replayed(retry[i])' = Replayed(retry[i])
  BY DEF Grows, Replayed
<1>2. CASE retry[i].event \in dead
  BY <1>1, <1>2 DEF RetrySettled, Grows
<1>3. CASE \E o \in 1..Len(input) : input[o] = Replayed(retry[i])
  <2>1. PICK o \in 1..Len(input) : input[o] = Replayed(retry[i])
    BY <1>3
  <2>2. o \in 1..Len(input') /\ input'[o] = Replayed(retry[i])'
    BY <1>1, <2>1 DEF Grows
  <2> QED BY <2>2 DEF RetrySettled
<1> QED BY <1>2, <1>3 DEF RetrySettled

-----------------------------------------------------------------------------
LEMMA WorkerKept == ASSUME WorkerInv, Grows, UNCHANGED workerVars PROVE WorkerInv'
<1>1. \A o \in 1..wNext - 1 : o \in 1..Len(input)
  BY DEF WorkerInv, Grows
<1>2. \A o \in 1..wNext - 1 : InputSettled(o)'
  BY <1>1, InputSettledKept DEF WorkerInv
<1>3. ASSUME wAt = "commit", NEW n \in Nat, n = wNext PROVE InputSettled(n)'
  <2>1. n \in 1..Len(input) /\ InputSettled(n)
    BY <1>3 DEF WorkerInv
  <2> QED BY <2>1, InputSettledKept
<1>4. wNext \in Nat /\ wNext' = wNext
  BY DEF WorkerInv, Grows, workerVars
<1>5. wAt' = "commit" => InputSettled(wNext)'
  BY <1>3, <1>4 DEF workerVars
<1> QED BY <1>2, <1>5 DEF WorkerInv, Grows, workerVars

LEMMA WorkerStep ==
  ASSUME TopicInv, WorkerInv, ReplayerInv, DetectorNext, Grows
  PROVE  WorkerInv'
<1>0. /\ \A o \in 1..wNext - 1 : o \in 1..Len(input)
      /\ wNext \in Nat /\ wDone \in Nat /\ Len(input) \in Nat
      /\ \A o \in 1..wNext - 1 : InputSettled(o)'
  <2>1. \A o \in 1..wNext - 1 : o \in 1..Len(input)
    BY DEF WorkerInv, Grows
  <2> QED BY <2>1, InputSettledKept DEF WorkerInv, Grows
<1>1. CASE UNCHANGED workerVars
  BY <1>1, WorkerKept
<1>2. CASE UNCHANGED <<wNext, wDone, input>> /\ wAt = "poll" /\ wNext <= Len(input) /\ wAt' = "handle"
  BY <1>0, <1>2 DEF WorkerInv
<1>3. CASE PublishDead \/ NoMatch \/ EmitSignal \/ PublishRetry
  <2>0. PICK n \in Nat : n = wNext
    BY <1>0
  <2>1. wNext \in 1..Len(input) /\ Held \in Events /\ input[wNext] \in Message
    BY <1>3, HeldFacts DEF PublishDead, NoMatch, EmitSignal, PublishRetry
  <2>2. UNCHANGED <<wNext, wDone, input>> /\ wAt' = "commit"
    BY <1>3 DEF PublishDead, NoMatch, EmitSignal, PublishRetry, topicVars
  <2>3. InputSettled(n)'
    <3>1. CASE PublishDead \/ NoMatch
      <4>1. input'[n].event \in Quiet \/ input'[n].event \in dead'
        BY <2>0, <2>2, <3>1 DEF PublishDead, NoMatch, Held
      <4> QED BY <4>1 DEF InputSettled
    <3>2. CASE EmitSignal
      <4>1. /\ Len(signals') = Len(signals) + 1 /\ Len(signals) \in Nat
            /\ signals'[Len(signals) + 1] = [sig |-> Held, time |-> Len(signals) + 1]
        BY <2>1, <3>2 DEF EmitSignal, WithSignal, TopicInv
      <4>2. Len(signals) + 1 \in 1..Len(signals') /\ signals'[Len(signals) + 1].sig = input'[n].event
        BY <2>0, <2>2, <4>1 DEF Held
      <4> QED BY <4>2 DEF InputSettled, Signalled
    <3>3. CASE PublishRetry
      <4> DEFINE m == [event |-> Held, attempt |-> input[wNext].attempt + 1]
      <4>1. /\ Len(retry') = Len(retry) + 1 /\ Len(retry) \in Nat
            /\ retry'[Len(retry) + 1] = m
        BY <3>3 DEF PublishRetry, TopicInv
      <4>2. m = [input[wNext] EXCEPT !.attempt = @ + 1]
        BY <2>1 DEF Held, Message
      <4>3. Len(retry) + 1 \in 1..Len(retry')
            /\ retry'[Len(retry) + 1] = [input'[n] EXCEPT !.attempt = @ + 1]
        BY <2>0, <2>2, <4>1, <4>2
      <4> QED BY <4>3 DEF InputSettled
    <3> QED BY <1>3, <3>1, <3>2, <3>3
  <2>4. InputSettled(wNext)' /\ wNext' = wNext
    BY <2>0, <2>2, <2>3
  <2> QED BY <1>0, <2>1, <2>2, <2>4 DEF WorkerInv
<1>4. CASE EmitFails
  <2>1. wNext \in 1..Len(input) /\ UNCHANGED <<wNext, wDone, input>> /\ wAt' = "retry"
    BY <1>4, HeldFacts DEF EmitFails, topicVars
  <2> QED BY <1>0, <2>1 DEF WorkerInv
<1>5. CASE CommitInput
  <2>0. PICK n \in Nat : n = wNext
    BY <1>0
  <2>1. InputSettled(n)'
    <3>1. n \in 1..Len(input) /\ InputSettled(n)
      BY <1>5, <2>0, HeldFacts DEF CommitInput, WorkerInv
    <3> QED BY <3>1, InputSettledKept
  <2>2. wDone' = wNext /\ wNext' = wNext + 1 /\ wAt' = "poll" /\ UNCHANGED input
    BY <1>5 DEF CommitInput, topicVars
  <2>3. wNext \in 1..Len(input)
    BY <1>5, HeldFacts DEF CommitInput
  <2>4. \A o \in 1..wNext' - 1 : InputSettled(o)'
    <3>1. \A o \in 1..wNext' - 1 : o \in 1..wNext - 1 \/ o = n
      BY <1>0, <2>0, <2>2, <2>3
    <3> QED BY <1>0, <2>1, <3>1
  <2> QED BY <1>0, <2>2, <2>3, <2>4 DEF WorkerInv
<1>6. CASE WorkerStops
  <2>1. wNext' = wDone + 1 /\ wDone' = wDone /\ wAt' = "down" /\ UNCHANGED input
    BY <1>6 DEF WorkerStops, topicVars
  <2>2. \A o \in 1..wNext' - 1 : o \in 1..wNext - 1
    BY <2>1 DEF WorkerInv, Grows
  <2> QED BY <1>0, <2>1, <2>2 DEF WorkerInv
<1>7. CASE WorkerStarts
  BY <1>0, <1>7 DEF WorkerInv, WorkerStarts, topicVars
<1>8. \/ UNCHANGED workerVars
      \/ UNCHANGED <<wNext, wDone, input>> /\ wAt = "poll" /\ wNext <= Len(input) /\ wAt' = "handle"
      \/ PublishDead \/ NoMatch \/ EmitSignal \/ PublishRetry
      \/ EmitFails \/ CommitInput \/ WorkerStops \/ WorkerStarts
  BY DEF DetectorNext, Worker, Replayer, PollInput, Arrive, topicVars,
         PollRetry, Replay, Exhausted, CommitRetry, ReplayerStops, ReplayerStarts
<1> QED BY <1>1, <1>2, <1>3, <1>4, <1>5, <1>6, <1>7, <1>8

LEMMA ReplayerKept == ASSUME ReplayerInv, Grows, UNCHANGED replayerVars PROVE ReplayerInv'
<1>1. \A i \in 1..rNext - 1 : i \in 1..Len(retry)
  BY DEF ReplayerInv, Grows
<1>2. \A i \in 1..rNext - 1 : RetrySettled(i)'
  BY <1>1, RetrySettledKept DEF ReplayerInv
<1>3. ASSUME rAt = "commit", NEW n \in Nat, n = rNext PROVE RetrySettled(n)'
  <2>1. n \in 1..Len(retry) /\ RetrySettled(n)
    BY <1>3 DEF ReplayerInv
  <2> QED BY <2>1, RetrySettledKept
<1>4. rNext \in Nat /\ rNext' = rNext
  BY DEF ReplayerInv, Grows, replayerVars
<1>5. rAt' = "commit" => RetrySettled(rNext)'
  BY <1>3, <1>4 DEF replayerVars
<1>6. rDone \in Nat /\ rDone < rNext /\ rNext <= Len(retry) + 1
  BY DEF ReplayerInv
<1>7. rDone' = rDone /\ rAt' = rAt /\ Len(retry) <= Len(retry') /\ Len(retry) \in Nat /\ Len(retry') \in Nat
  BY DEF Grows, replayerVars
<1>8. /\ rAt' \in {"poll", "decide", "commit", "down"}
      /\ rDone' \in 0..Len(retry') /\ rNext' \in (rDone' + 1)..(Len(retry') + 1)
      /\ rAt' \in {"decide", "commit"} => rNext' <= Len(retry')
  <2>1. rAt \in {"poll", "decide", "commit", "down"} /\ (rAt \in {"decide", "commit"} => rNext <= Len(retry))
    BY DEF ReplayerInv
  <2> QED BY <1>4, <1>6, <1>7, <2>1
<1>9. \A i \in 1..rNext' - 1 : RetrySettled(i)'
  BY <1>2, <1>4
<1> QED BY <1>5, <1>8, <1>9 DEF ReplayerInv

LEMMA ReplayerStep ==
  ASSUME TopicInv, WorkerInv, ReplayerInv, DetectorNext, Grows
  PROVE  ReplayerInv'
<1>0. /\ rNext \in Nat /\ rDone \in Nat /\ Len(retry) \in Nat
      /\ \A i \in 1..rNext - 1 : RetrySettled(i)'
  <2>1. \A i \in 1..rNext - 1 : i \in 1..Len(retry)
    BY DEF ReplayerInv, Grows
  <2> QED BY <2>1, RetrySettledKept DEF ReplayerInv, Grows
<1>1. CASE UNCHANGED replayerVars
  BY <1>1, ReplayerKept
<1>2. CASE PollRetry
  BY <1>0, <1>2 DEF ReplayerInv, PollRetry, topicVars
<1>3. CASE Replay \/ Exhausted
  <2>1. rNext \in 1..Len(retry) /\ retry[rNext] \in [event : Events, attempt : Attempts \ {0}]
    BY <1>3, RetryFacts DEF Replay, Exhausted
  <2>2. UNCHANGED <<rNext, rDone, retry, route>> /\ rAt' = "commit"
    BY <1>3 DEF Replay, Exhausted
  <2>3. RetrySettled(rNext)' /\ rNext' = rNext
    <3>1. CASE Exhausted
      BY <2>2, <3>1 DEF Exhausted, RetrySettled
    <3>2. CASE Replay
      <4>1. Len(input') = Len(input) + 1 /\ Len(input) \in Nat
            /\ input'[Len(input) + 1] = Replayed(retry[rNext])
        BY <3>2 DEF Replay, TopicInv
      <4>2. Replayed(retry[rNext])' = Replayed(retry[rNext])
        BY <2>2 DEF Replayed
      <4>3. Len(input) + 1 \in 1..Len(input') /\ input'[Len(input) + 1] = Replayed(retry[rNext])'
        BY <4>1, <4>2
      <4> QED BY <2>2, <4>3 DEF RetrySettled
    <3> QED BY <1>3, <2>2, <3>1, <3>2
  <2> QED BY <1>0, <2>1, <2>2, <2>3 DEF ReplayerInv
<1>4. CASE CommitRetry
  <2>1. rNext \in 1..Len(retry)
    BY <1>4, RetryFacts DEF CommitRetry
  <2>0. PICK n \in Nat : n = rNext
    BY <1>0
  <2>2. RetrySettled(n)'
    <3>1. n \in 1..Len(retry) /\ RetrySettled(n)
      BY <1>4, <2>0, <2>1 DEF CommitRetry, ReplayerInv
    <3> QED BY <3>1, RetrySettledKept
  <2>3. rDone' = rNext /\ rNext' = rNext + 1 /\ rAt' = "poll" /\ UNCHANGED <<route, topicVars>>
    BY <1>4 DEF CommitRetry
  <2>4. \A i \in 1..rNext' - 1 : RetrySettled(i)'
    <3>1. \A i \in 1..rNext' - 1 : i \in 1..rNext - 1 \/ i = n
      BY <1>0, <2>0, <2>1, <2>3
    <3> QED BY <1>0, <2>2, <3>1
  <2> QED BY <1>0, <2>1, <2>3, <2>4 DEF ReplayerInv, topicVars
<1>5. CASE ReplayerStops
  <2>1. rNext' = rDone + 1 /\ rDone' = rDone /\ rAt' = "down" /\ UNCHANGED retry
    BY <1>5 DEF ReplayerStops, topicVars
  <2>2. \A i \in 1..rNext' - 1 : i \in 1..rNext - 1
    BY <2>1 DEF ReplayerInv, Grows
  <2> QED BY <1>0, <2>1, <2>2 DEF ReplayerInv
<1>6. CASE ReplayerStarts
  BY <1>0, <1>6 DEF ReplayerInv, ReplayerStarts, topicVars
<1>7. \/ UNCHANGED replayerVars
      \/ PollRetry \/ Replay \/ Exhausted \/ CommitRetry \/ ReplayerStops \/ ReplayerStarts
  BY DEF DetectorNext, Worker, Replayer, PollInput, Arrive, PublishDead, NoMatch, EmitSignal,
         EmitFails, PublishRetry, CommitInput, WorkerStops, WorkerStarts
<1> QED BY <1>1, <1>2, <1>3, <1>4, <1>5, <1>6, <1>7

-----------------------------------------------------------------------------
(* The persister and the operators, while the signal topic stands still.   *)

LEMMA SigFacts ==
  ASSUME TopicInv, PersisterInv, pAt \in {"process", "persist", "commit"}
  PROVE  /\ pNext \in 1..Len(signals) /\ Sig \in Events
         /\ Time \in Times /\ Time # 0
<1>1. pNext \in 1..Len(signals)
  BY DEF PersisterInv
<1>2. signals[pNext] \in [sig : Events, time : Nat]
  BY <1>1, Element DEF TopicInv
<1>3. signals[pNext].time = pNext
  BY <1>1 DEF TopicInv
<1>4. pNext \in Times /\ pNext # 0
  BY <1>1, LifecycleAssumption DEF Times, PersisterInv, TopicInv
<1> QED BY <1>1, <1>2, <1>3, <1>4 DEF Sig, Time

(* A document upserted at a time keeps its status and covers that time.    *)
LEMMA UpsertFacts ==
  ASSUME NEW doc \in DocType, NEW t \in Times
  PROVE  /\ Upserted(doc, t) \in DocType
         /\ t \in Upserted(doc, t).first..Upserted(doc, t).last
         /\ doc.status # "none" => Upserted(doc, t).status = doc.status
         /\ Upserted(doc, t).first <= doc.first \/ doc.status = "none"
<1>1. Times \subseteq Nat
  BY DEF Times
<1>2. CASE doc.status = "none"
  BY <1>1, <1>2 DEF Upserted, DocType
<1>3. CASE doc.status # "none"
  <2>1. Upserted(doc, t) = [doc EXCEPT !.first = Earlier(doc.first, t), !.last = Later(doc.last, t)]
    BY <1>3 DEF Upserted
  <2>2. doc.first \in Times /\ doc.last \in Times
    BY DEF DocType
  <2>3. Earlier(doc.first, t) \in Times /\ Later(doc.last, t) \in Times
    BY <2>2 DEF Earlier, Later
  <2>4. Earlier(doc.first, t) <= t /\ t <= Later(doc.last, t) /\ Earlier(doc.first, t) <= doc.first
    <3>1. doc.first \in Nat /\ doc.last \in Nat /\ t \in Nat
      BY <1>1, <2>2
    <3> QED BY <3>1 DEF Earlier, Later
  <2>5. /\ Upserted(doc, t).first = Earlier(doc.first, t) /\ Upserted(doc, t).last = Later(doc.last, t)
        /\ Upserted(doc, t).status = doc.status /\ Upserted(doc, t) \in DocType
    BY <2>1, <2>3 DEF DocType
  <2> QED BY <1>1, <1>3, <2>3, <2>4, <2>5
<1> QED BY <1>2, <1>3

LEMMA StoreKept == StoreInv /\ UNCHANGED <<storeVars, told, decisions>> => StoreInv'
  BY DEF StoreInv, StoresAgree, OperatorDecisionStands, storeVars

LEMMA UpsertTemporalStores ==
  ASSUME TopicInv, PersisterInv, StoreInv, UpsertTemporal
  PROVE  StoreInv' /\ \A e \in Events : temporal[e] \subseteq temporal'[e]
<1>1. Sig \in Events /\ Time \in Times
  BY SigFacts DEF UpsertTemporal
<1>2. /\ temporal' \in [Events -> SUBSET Times]
      /\ \A e \in Events : temporal[e] \subseteq temporal'[e]
  BY <1>1 DEF StoreInv, UpsertTemporal
<1>3. UNCHANGED <<ledger, docs, told, decisions>>
  BY DEF UpsertTemporal
<1>4. StoresAgree'
  <2>1. \A e \in Events : ledger'[e] # 0 => ledger'[e] \in temporal'[e]
    BY <1>2, <1>3 DEF StoreInv, StoresAgree
  <2> QED BY <1>3, <2>1 DEF StoreInv, StoresAgree
<1> QED BY <1>2, <1>3, <1>4 DEF StoreInv, OperatorDecisionStands

LEMMA PersistStores ==
  ASSUME TopicInv, PersisterInv, StoreInv, Persist
  PROVE  /\ StoreInv' /\ ledger'[Sig] # 0
         /\ \A e \in Events : ledger[e] # 0 => ledger'[e] # 0
<1>0. PICK s \in Events, t \in Times : s = Sig /\ t = Time /\ t # 0
  BY SigFacts DEF Persist
<1>1. /\ ledger' = [ledger EXCEPT ![s] = t]
      /\ docs' = [k \in Kinds |->
           IF k \in Derived(s) THEN [docs[k] EXCEPT ![s] = Upserted(@, t)] ELSE docs[k]]
      /\ UNCHANGED <<temporal, told, decisions>>
      /\ t \in temporal[s]
  BY <1>0 DEF Persist, PersisterInv
<1>2. /\ ledger \in [Events -> Times] /\ docs \in [Kinds -> [Events -> DocType]]
      /\ told \in [Kinds -> [Events -> Decisions \cup {"none"}]]
      /\ temporal \in [Events -> SUBSET Times] /\ decisions \in 0..MaxDecisions
      /\ StoresAgree /\ OperatorDecisionStands
  BY DEF StoreInv
<1>3. \A k \in Kinds, e \in Events : docs[k][e] \in DocType
  BY <1>2
<1>4. /\ ledger' \in [Events -> Times] /\ ledger'[s] = t
      /\ \A e \in Events : e # s => ledger'[e] = ledger[e]
  BY <1>1, <1>2
<1>5. \A k \in Kinds, e \in Events :
        docs'[k][e] = IF k \in Derived(e) /\ e = s THEN Upserted(docs[k][e], t) ELSE docs[k][e]
  BY <1>1, <1>2
<1>6. docs' \in [Kinds -> [Events -> DocType]]
  <2>1. \A k \in Kinds : docs[k] \in [Events -> DocType]
    BY <1>2
  <2>2. \A k \in Kinds : Upserted(docs[k][s], t) \in DocType
    BY <1>3, UpsertFacts
  <2>3. \A k \in Kinds : [docs[k] EXCEPT ![s] = Upserted(docs[k][s], t)] \in [Events -> DocType]
    BY <2>1, <2>2
  <2> QED BY <1>1, <2>1, <2>3
<1>7. StoresAgree'
  <2> SUFFICES ASSUME NEW e \in Events, NEW k \in Kinds
               PROVE  /\ ledger'[e] # 0 => ledger'[e] \in temporal'[e]
                      /\ IF ledger'[e] # 0 /\ k \in Derived(e)
                         THEN ledger'[e] \in docs'[k][e].first..docs'[k][e].last
                         ELSE docs'[k][e] = NoDoc
    <3>1. "alert" \in Kinds
      BY DEF Kinds
    <3> QED BY <3>1 DEF StoresAgree
  <2>1. CASE e # s
    BY <1>1, <1>2, <1>4, <1>5, <2>1 DEF StoresAgree
  <2>2. CASE e = s
    <3>1. ledger'[e] = t /\ t # 0 /\ t \in temporal'[e]
      BY <1>0, <1>1, <1>4, <2>2
    <3>2. CASE k \in Derived(e)
      BY <1>3, <1>5, <2>2, <3>1, <3>2, UpsertFacts
    <3>3. CASE k \notin Derived(e)
      BY <1>2, <1>5, <3>1, <3>3 DEF StoresAgree
    <3> QED BY <3>1, <3>2, <3>3
  <2> QED BY <2>1, <2>2
<1>8. OperatorDecisionStands'
  <2> SUFFICES ASSUME NEW k \in Kinds, NEW e \in Events, told[k][e] # "none"
               PROVE  docs'[k][e].status = told[k][e]
    BY <1>1 DEF OperatorDecisionStands
  <2>1. docs[k][e].status = told[k][e] /\ docs[k][e].status # "none" /\ docs[k][e] \in DocType
    BY <1>2, <1>3 DEF OperatorDecisionStands
  <2>2. Upserted(docs[k][e], t).status = docs[k][e].status
    BY <2>1, UpsertFacts
  <2> QED BY <1>5, <2>1, <2>2
<1> QED BY <1>0, <1>1, <1>2, <1>4, <1>6, <1>7, <1>8 DEF StoreInv

LEMMA DecideStores ==
  ASSUME StoreInv, NEW k \in Kinds, NEW e \in Events, NEW status \in Decisions,
         Decide(k, e, status)
  PROVE  StoreInv'
<1>1. /\ docs \in [Kinds -> [Events -> DocType]]
      /\ told \in [Kinds -> [Events -> Decisions \cup {"none"}]]
      /\ StoresAgree /\ OperatorDecisionStands
  BY DEF StoreInv
<1>2. docs[k] \in [Events -> DocType] /\ docs[k][e] \in DocType
      /\ told[k] \in [Events -> Decisions \cup {"none"}]
  BY <1>1
<1> DEFINE new == [docs[k][e] EXCEPT !.status = status]
<1>3. /\ new \in DocType /\ new.status = status
      /\ new.first = docs[k][e].first /\ new.last = docs[k][e].last
  BY <1>2 DEF DocType
<1>4. docs' = [docs EXCEPT ![k] = [docs[k] EXCEPT ![e] = new]]
  BY <1>1 DEF Decide
<1>5. told' = [told EXCEPT ![k] = [told[k] EXCEPT ![e] = status]]
  BY <1>1 DEF Decide
<1> HIDE DEF new
<1>6. [docs[k] EXCEPT ![e] = new] \in [Events -> DocType]
      /\ [told[k] EXCEPT ![e] = status] \in [Events -> Decisions \cup {"none"}]
  BY <1>2, <1>3
<1>7. docs' \in [Kinds -> [Events -> DocType]]
  BY <1>1, <1>4, <1>6
<1>8. told' \in [Kinds -> [Events -> Decisions \cup {"none"}]]
  BY <1>1, <1>5, <1>6
<1>9. /\ docs'[k][e] = new /\ told'[k][e] = status
      /\ \A j \in Kinds, x \in Events : j # k \/ x # e =>
           docs'[j][x] = docs[j][x] /\ told'[j][x] = told[j][x]
  BY <1>1, <1>2, <1>4, <1>5
<1>10. UNCHANGED <<temporal, ledger>> /\ decisions' \in 0..MaxDecisions
  BY LifecycleAssumption DEF Decide, StoreInv
<1>11. docs[k][e] # NoDoc
  BY DEF Decide, NoDoc
<1>12. StoresAgree'
  <2>1. ledger[e] # 0 /\ k \in Derived(e) /\ ledger[e] \in docs[k][e].first..docs[k][e].last
    BY <1>1, <1>11 DEF StoresAgree
  <2>2. ASSUME NEW x \in Events, NEW j \in Kinds
        PROVE  IF ledger'[x] # 0 /\ j \in Derived(x)
               THEN ledger'[x] \in docs'[j][x].first..docs'[j][x].last
               ELSE docs'[j][x] = NoDoc
    <3>1. CASE j = k /\ x = e
      BY <1>3, <1>9, <1>10, <2>1, <3>1
    <3>2. CASE j # k \/ x # e
      BY <1>1, <1>9, <1>10, <3>2 DEF StoresAgree
    <3> QED BY <3>1, <3>2
  <2>3. \A x \in Events : ledger'[x] # 0 => ledger'[x] \in temporal'[x]
    BY <1>1, <1>10 DEF StoresAgree
  <2> QED BY <2>2, <2>3 DEF StoresAgree
<1>13. OperatorDecisionStands'
  BY <1>1, <1>3, <1>9 DEF OperatorDecisionStands
<1> QED BY <1>7, <1>8, <1>10, <1>12, <1>13 DEF StoreInv

(* Every step of the persister and the operators on the stores.            *)
LEMMA StoreStep ==
  ASSUME TopicInv, PersisterInv, StoreInv, LifecycleNext
  PROVE  /\ StoreInv'
         /\ \A e \in Events : ledger[e] # 0 => ledger'[e] # 0
         /\ \A e \in Events : temporal[e] \subseteq temporal'[e]
         /\ UNCHANGED detectorVars /\ (UNCHANGED faults \/ Fault)
<1>1. CASE UpsertTemporal
  BY <1>1, UpsertTemporalStores DEF UpsertTemporal
<1>2. CASE Persist
  BY <1>2, PersistStores DEF Persist
<1>3. CASE \E k \in Kinds, e \in Events, status \in Decisions : Decide(k, e, status)
  BY <1>3, DecideStores DEF Decide
<1>4. CASE PollSignal \/ RejectSignal \/ CommitSignal \/ PersistFails
             \/ PersisterStops \/ PersisterStarts
  <2>1. UNCHANGED <<storeVars, told, decisions, detectorVars>> /\ (UNCHANGED faults \/ Fault)
    BY <1>4 DEF PollSignal, RejectSignal, CommitSignal, PersistFails, PersisterStops, PersisterStarts
  <2> QED BY <2>1, StoreKept DEF storeVars
<1> QED BY <1>1, <1>2, <1>3, <1>4 DEF LifecycleNext, Persister

(* Passed signals stay settled.                                            *)
LEMMA SignalSettledKept ==
  ASSUME TopicInv, StoreInv, NEW o \in 1..Len(signals), SignalSettled(o),
         signals'[o] = signals[o], rejected \subseteq rejected',
         \A e \in Events : ledger[e] # 0 => ledger'[e] # 0
  PROVE  SignalSettled(o)'
<1>1. signals[o] \in [sig : Events, time : Nat]
  BY Element DEF TopicInv
<1>2. signals[o].sig \in Events
  BY <1>1
<1> QED BY <1>2 DEF SignalSettled

LEMMA PersisterKept ==
  ASSUME TopicInv, PersisterInv, StoreInv, Grows, Len(signals') <= MaxSignals,
         UNCHANGED <<persisterVars, rejected, lost>>,
         \A e \in Events : ledger[e] # 0 => ledger'[e] # 0,
         \A e \in Events : temporal[e] \subseteq temporal'[e]
  PROVE  PersisterInv'
<1>0. /\ \A o \in 1..pNext - 1 : o \in 1..Len(signals)
      /\ pNext \in Nat /\ pDone \in Nat
  BY DEF PersisterInv, Grows
<1>1. ASSUME NEW o \in 1..Len(signals), SignalSettled(o) PROVE SignalSettled(o)'
  BY <1>1, SignalSettledKept DEF Grows
<1>2. \A o \in 1..pNext - 1 : (SignalSettled(o) \/ o \in lost)'
  BY <1>0, <1>1 DEF PersisterInv
<1>3. pAt = "commit" => SignalSettled(pNext)'
  <2>1. ASSUME pAt = "commit", NEW n \in Nat, n = pNext PROVE SignalSettled(n)'
    <3>1. n \in 1..Len(signals) /\ SignalSettled(n)
      BY <2>1 DEF PersisterInv
    <3> QED BY <1>1, <3>1
  <2>2. pNext' = pNext
    BY DEF persisterVars
  <2> QED BY <1>0, <2>1, <2>2
<1>4. pAt = "persist" => (Time \in temporal[Sig])'
  <2> SUFFICES ASSUME pAt = "persist" PROVE (Time \in temporal[Sig])'
    OBVIOUS
  <2>1. pNext \in 1..Len(signals) /\ Sig \in Events
    BY SigFacts
  <2>2. Sig' = Sig /\ Time' = Time
    BY <2>1 DEF Sig, Time, Grows, persisterVars
  <2> QED BY <2>1, <2>2 DEF PersisterInv
<1> QED BY <1>0, <1>2, <1>3, <1>4 DEF PersisterInv, Grows, persisterVars

LEMMA PersisterStep ==
  ASSUME TopicInv, PersisterInv, StoreInv, LifecycleNext
  PROVE  PersisterInv'
<1>0. /\ \A o \in 1..pNext - 1 : o \in 1..Len(signals)
      /\ pNext \in Nat /\ pDone \in Nat /\ Len(signals) \in Nat
  BY DEF PersisterInv, TopicInv
<1>1. /\ \A e \in Events : ledger[e] # 0 => ledger'[e] # 0
      /\ \A e \in Events : temporal[e] \subseteq temporal'[e]
      /\ UNCHANGED signals
  BY StoreStep DEF detectorVars
<1>2. rejected \subseteq rejected' /\ lost \subseteq lost'
  BY DEF LifecycleNext, Persister, PollSignal, RejectSignal, UpsertTemporal, Persist, CommitSignal,
         PersistFails, PersisterStops, PersisterStarts, Decide
<1>3. ASSUME NEW o \in 1..Len(signals), SignalSettled(o) PROVE SignalSettled(o)'
  BY <1>1, <1>2, <1>3, SignalSettledKept
<1>4. \A o \in 1..pNext - 1 : SignalSettled(o)' \/ o \in lost'
  BY <1>0, <1>2, <1>3 DEF PersisterInv
<1>5. CASE PollSignal
  <2>1. /\ pAt' = "process" /\ pNext' = pNext /\ pDone' = pDone /\ pNext <= Len(signals)
        /\ UNCHANGED <<rejected, lost>>
    BY <1>5 DEF PollSignal
  <2> QED BY <1>0, <1>1, <1>4, <2>1 DEF PersisterInv
<1>6. CASE RejectSignal
  <2>1. pNext \in 1..Len(signals)
    BY <1>6, SigFacts DEF RejectSignal
  <2>2. /\ pAt' = "commit" /\ pNext' = pNext /\ pDone' = pDone
        /\ rejected' = rejected \cup {pNext} /\ lost' = lost
    BY <1>6 DEF RejectSignal
  <2>3. SignalSettled(pNext)'
    BY <2>2 DEF SignalSettled
  <2> QED BY <1>0, <1>1, <1>4, <2>1, <2>2, <2>3 DEF PersisterInv
<1>7. CASE UpsertTemporal
  <2>1. pNext \in 1..Len(signals) /\ Sig \in Events
    BY <1>7, SigFacts DEF UpsertTemporal
  <2>2. /\ pAt' = "persist" /\ pNext' = pNext /\ pDone' = pDone
        /\ UNCHANGED <<rejected, lost>>
        /\ temporal' = [temporal EXCEPT ![Sig] = @ \cup {Time}]
    BY <1>7 DEF UpsertTemporal
  <2>3. Time \in temporal'[Sig]
    BY <2>1, <2>2 DEF StoreInv
  <2>4. Time' = Time /\ Sig' = Sig
    BY <1>1, <2>2 DEF Time, Sig
  <2> QED BY <1>0, <1>1, <1>4, <2>1, <2>2, <2>3, <2>4 DEF PersisterInv
<1>8. CASE Persist
  <2>1. pNext \in 1..Len(signals) /\ ledger'[Sig] # 0
    BY <1>8, SigFacts, PersistStores DEF Persist
  <2>2. pAt' = "commit" /\ pNext' = pNext /\ pDone' = pDone /\ UNCHANGED <<rejected, lost>>
    BY <1>8 DEF Persist
  <2>3. SignalSettled(pNext)'
    BY <1>1, <2>1, <2>2 DEF SignalSettled, Sig
  <2> QED BY <1>0, <1>1, <1>4, <2>1, <2>2, <2>3 DEF PersisterInv
<1>9. CASE PersistFails
  <2>1. pNext \in 1..Len(signals)
    BY <1>9, SigFacts DEF PersistFails
  <2>2. /\ pAt' = "poll" /\ pNext' = pNext + 1 /\ pDone' = pDone
        /\ lost' = lost \cup {pNext} /\ rejected' = rejected
    BY <1>9 DEF PersistFails
  <2>3. \A o \in 1..pNext' - 1 : o \in 1..pNext - 1 \/ o \in lost'
    BY <1>0, <2>2
  <2>4. \A o \in 1..pNext' - 1 : SignalSettled(o)' \/ o \in lost'
    BY <1>4, <2>3
  <2> QED BY <1>0, <1>1, <2>1, <2>2, <2>4 DEF PersisterInv
<1>10. CASE CommitSignal
  <2>0. PICK n \in Nat : n = pNext
    BY <1>0
  <2>1. n \in 1..Len(signals) /\ SignalSettled(n)
    BY <1>10, <2>0, SigFacts DEF CommitSignal, PersisterInv
  <2>2. /\ pAt' = "poll" /\ pNext' = n + 1 /\ pDone' = n
        /\ UNCHANGED <<rejected, lost>>
    BY <1>10, <2>0 DEF CommitSignal
  <2>3. SignalSettled(n)'
    BY <1>3, <2>1
  <2>4. \A o \in 1..pNext' - 1 : o \in 1..pNext - 1 \/ o = n
    BY <1>0, <2>0, <2>2
  <2>5. \A o \in 1..pNext' - 1 : SignalSettled(o)' \/ o \in lost'
    BY <1>4, <2>3, <2>4
  <2> QED BY <1>0, <1>1, <2>1, <2>2, <2>5 DEF PersisterInv
<1>11. CASE PersisterStops
  <2>1. pAt' = "down" /\ pNext' = pDone + 1 /\ pDone' = pDone /\ UNCHANGED <<rejected, lost>>
    BY <1>11 DEF PersisterStops
  <2>2. \A o \in 1..pNext' - 1 : o \in 1..pNext - 1
    BY <1>0, <2>1 DEF PersisterInv
  <2>3. \A o \in 1..pNext' - 1 : SignalSettled(o)' \/ o \in lost'
    BY <1>4, <2>2
  <2> QED BY <1>0, <1>1, <2>1, <2>3 DEF PersisterInv
<1>12. CASE PersisterStarts
  <2>1. pAt' = "poll" /\ pNext' = pNext /\ pDone' = pDone /\ UNCHANGED <<rejected, lost>>
    BY <1>12 DEF PersisterStarts
  <2> QED BY <1>0, <1>1, <1>4, <2>1 DEF PersisterInv
<1>13. CASE \E k \in Kinds, e \in Events, status \in Decisions : Decide(k, e, status)
  <2>1. UNCHANGED <<persisterVars, rejected, lost, topicVars, route, signals>> /\ Len(signals') <= MaxSignals
    BY <1>1, <1>13 DEF Decide, detectorVars, PersisterInv
  <2>2. Grows
    BY <2>1 DEF Grows, TopicInv, topicVars
  <2> QED BY <1>1, <2>1, <2>2, PersisterKept
<1> QED BY <1>5, <1>6, <1>7, <1>8, <1>9, <1>10, <1>11, <1>12, <1>13 DEF LifecycleNext, Persister

-----------------------------------------------------------------------------
LEMMA NextInv == Inv /\ [Next]_vars => Inv'
<1> SUFFICES ASSUME Inv, [Next]_vars PROVE Inv'
  OBVIOUS
<1>0. TopicInv /\ WorkerInv /\ ReplayerInv /\ PersisterInv /\ StoreInv
  BY DEF Inv
<1>1. CASE DetectorNext /\ Len(signals') <= MaxSignals /\ UNCHANGED lifecycleVars
  <2>1. TopicInv' /\ Grows
    BY <1>0, <1>1, TopicStep
  <2>2. WorkerInv' /\ ReplayerInv'
    BY <1>0, <1>1, <2>1, WorkerStep, ReplayerStep
  <2>3. StoreInv'
    BY <1>0, <1>1, StoreKept DEF lifecycleVars
  <2>4. PersisterInv'
    BY <1>0, <1>1, <2>1, PersisterKept DEF lifecycleVars, storeVars
  <2> QED BY <2>1, <2>2, <2>3, <2>4 DEF Inv
<1>2. CASE LifecycleNext
  <2>1. StoreInv' /\ UNCHANGED detectorVars /\ (UNCHANGED faults \/ Fault)
    BY <1>0, <1>2, StoreStep
  <2>2. TopicInv' /\ Grows
    BY <1>0, <2>1, TopicsKept DEF detectorVars
  <2>3. WorkerInv' /\ ReplayerInv'
    BY <1>0, <2>1, <2>2, WorkerKept, ReplayerKept DEF detectorVars
  <2>4. PersisterInv'
    BY <1>0, <1>2, PersisterStep
  <2> QED BY <2>1, <2>2, <2>3, <2>4 DEF Inv
<1>3. CASE UNCHANGED vars
  <2>1. UNCHANGED <<detectorVars, faults, lifecycleVars>>
    BY <1>3 DEF vars
  <2>2. TopicInv' /\ Grows
    BY <1>0, <2>1, TopicsKept DEF detectorVars
  <2>3. WorkerInv' /\ ReplayerInv' /\ StoreInv'
    BY <1>0, <2>1, <2>2, WorkerKept, ReplayerKept, StoreKept DEF detectorVars, lifecycleVars
  <2>4. Len(signals') <= MaxSignals
    BY <1>0, <2>1 DEF detectorVars, PersisterInv
  <2>5. PersisterInv'
    BY <1>0, <2>1, <2>2, <2>4, PersisterKept DEF lifecycleVars, storeVars
  <2> QED BY <2>2, <2>3, <2>5 DEF Inv
<1> QED BY <1>1, <1>2, <1>3 DEF Next

LEMMA Invariance == Spec => []Inv
<1>1. Init => Inv
  BY InitInv
<1>2. Inv /\ [Next]_vars => Inv'
  BY NextInv
<1> QED BY <1>1, <1>2, PTL DEF Spec

(* Every variable keeps its type: the attempt of a retry record stays      *)
(* within MaxAttempts only because the replayer refuses the last one.      *)
THEOREM TypeCorrect == Spec => []TypeOK
<1>1. Inv => TypeOK
  <2> SUFFICES ASSUME Inv PROVE TypeOK
    OBVIOUS
  <2>1. DetectorTypeOK
    <3>1. TopicInv /\ WorkerInv /\ ReplayerInv
      BY DEF Inv
    <3> QED BY <3>1 DEF TopicInv, WorkerInv, ReplayerInv, DetectorTypeOK
  <2>2. PersisterInv /\ StoreInv
    BY DEF Inv
  <2> QED BY <2>1, <2>2 DEF PersisterInv, StoreInv, DocType, TypeOK
<1> QED BY <1>1, Invariance, PTL

(* The retry replayer: no record asks for more than MaxAttempts tries, and *)
(* a record whose offset has passed was replayed or dead-lettered, over    *)
(* its crashes and the worker's (retry_replay.py:119-137).                 *)
THEOREM RetrySafety == Spec => []RetryLimit
<1>1. Inv => RetryLimit
  <2> SUFFICES ASSUME Inv PROVE RetryLimit
    OBVIOUS
  <2>1. \A i \in 1..Len(input) : input[i].attempt < MaxAttempts
    BY DEF Inv, TopicInv
  <2>2. \A i \in 1..rDone : i \in 1..rNext - 1
    BY DEF Inv, ReplayerInv
  <2>3. \A i \in 1..rDone : RetrySettled(i)
    BY <2>2 DEF Inv, ReplayerInv
  <2> QED BY <2>1, <2>3 DEF RetryLimit, RetrySettled
<1> QED BY <1>1, Invariance, PTL

(* No redelivery undoes an operator's decision: the upserts of the signal  *)
(* persister keep the status columns (repository.go:553-563, :588-599).    *)
THEOREM DecisionSafety == Spec => []OperatorDecisionStands
<1>1. Inv => OperatorDecisionStands
  BY DEF Inv, StoreInv
<1> QED BY <1>1, Invariance, PTL

(* TimescaleDB, the PostgreSQL ledger and the derived documents agree at   *)
(* every moment, also between the two writes (repository.go:643-680).      *)
THEOREM StoresSafety == Spec => []StoresAgree
<1>1. Inv => StoresAgree
  BY DEF Inv, StoreInv
<1> QED BY <1>1, Invariance, PTL

(* The signal persister's committed offset is accounted for: stored,       *)
(* rejected, or lost to a failure the loop passed over                     *)
(* (cmd/signal-persister/main.go:64-97).                                   *)
THEOREM PersisterSafety == Spec => []PersisterCommitIsAccountedFor
<1>1. Inv => PersisterCommitIsAccountedFor
  <2> SUFFICES ASSUME Inv PROVE PersisterCommitIsAccountedFor
    OBVIOUS
  <2>1. \A o \in 1..pDone : o \in 1..pNext - 1
    BY DEF Inv, PersisterInv
  <2> QED BY <2>1 DEF Inv, PersisterInv, PersisterCommitIsAccountedFor
<1> QED BY <1>1, Invariance, PTL

-----------------------------------------------------------------------------
(* The refinement of DurableConsumer by the detector worker.               *)

Settled == {o \in 1..Len(input) : InputSettled(o)}

LEMMA SettledGrows ==
  ASSUME Grows PROVE Settled \subseteq Settled' /\ \A o \in Settled' : o \in 1..Len(input')
<1>1. ASSUME NEW o \in Settled PROVE o \in Settled'
  <2>1. o \in 1..Len(input) /\ InputSettled(o)
    BY <1>1 DEF Settled
  <2>2. o \in 1..Len(input') /\ InputSettled(o)'
    BY <2>1, InputSettledKept DEF Grows
  <2> QED BY <2>2 DEF Settled
<1>2. \A o \in Settled' : o \in 1..Len(input')
  BY DEF Settled
<1> QED BY <1>1, <1>2

LEMMA StepMaps ==
  ASSUME Inv, [Next]_vars
  PROVE  [WorkerConsumer!Next]_<<Len(input), Settled, {}, wDone>>
<1> USE DEF WorkerConsumer!Next, WorkerConsumer!Publish, WorkerConsumer!Progress,
            WorkerConsumer!Commit, WorkerConsumer!Offsets
<1>0. TopicInv /\ WorkerInv /\ ReplayerInv /\ PersisterInv /\ StoreInv
  BY DEF Inv
<1>1. Grows
  <2>1. CASE DetectorNext
    BY <1>0, <2>1, TopicStep
  <2>2. CASE LifecycleNext
    BY <1>0, <2>2, StoreStep, TopicsKept DEF detectorVars
  <2>3. CASE UNCHANGED vars
    BY <1>0, <2>3, TopicsKept DEF vars, detectorVars
  <2> QED BY <2>1, <2>2, <2>3 DEF Next
<1>2. Settled \subseteq Settled' /\ \A o \in Settled' : o \in 1..Len(input')
  BY <1>1, SettledGrows
<1>3. CASE UNCHANGED <<input, wDone>>
  BY <1>2, <1>3 DEF Settled
<1>4. CASE (\E e \in Events : Arrive(e)) \/ Replay
  <2>1. /\ Len(input') = Len(input) + 1 /\ Len(input) \in Nat
        /\ \A i \in 1..Len(input) : input'[i] = input[i]
        /\ UNCHANGED <<dead, signals, retry, wDone>>
    <3>1. PICK m : input' = Append(input, m)
      BY <1>4 DEF Arrive, Replay
    <3>2. UNCHANGED <<dead, signals, retry, wDone>>
      BY <1>4 DEF Arrive, Replay, workerVars
    <3>3. input \in Seq(Message)
      BY <1>0 DEF TopicInv
    <3> QED BY <3>1, <3>2, <3>3
  <2>2. \A o \in 1..Len(input) : InputSettled(o)' <=> InputSettled(o)
    BY <2>1 DEF InputSettled, Signalled
  <2>3. \A o : o \in 1..Len(input') <=> o \in 1..Len(input) \/ o = Len(input) + 1
    BY <2>1
  <2>4. \A o \in Settled' : o \in Settled \/ o = Len(input) + 1
    BY <2>2, <2>3 DEF Settled
  <2>5. Settled' = Settled \/ Settled' = Settled \cup {Len(input) + 1}
    BY <1>2, <2>4
  <2> QED BY <2>1, <2>5 DEF Settled
<1>5. CASE CommitInput
  <2>1. wDone' = wNext /\ UNCHANGED <<input, retry, dead, signals>>
    BY <1>5 DEF CommitInput, topicVars
  <2>2. wNext \in 1..Len(input)
    BY <1>0, <1>5, HeldFacts DEF CommitInput
  <2>3. \A o \in 1..wNext : o \in 1..wNext - 1 \/ o = wNext
    BY <2>2
  <2>4. \A o \in 1..wNext : o \in 1..Len(input) /\ InputSettled(o)
    BY <1>0, <1>1, <1>5, <2>2, <2>3 DEF WorkerInv, CommitInput, Grows
  <2>5. 1..wDone' \subseteq Settled
    BY <2>1, <2>4 DEF Settled
  <2>6. Settled' = Settled
    BY <2>1 DEF Settled, InputSettled, Signalled
  <2>7. wDone' \in 0..Len(input)
    BY <1>1, <2>1, <2>2 DEF Grows
  <2> QED BY <2>1, <2>5, <2>6, <2>7 DEF Settled
<1>6. \/ UNCHANGED <<input, wDone>>
      \/ (\E e \in Events : Arrive(e)) \/ Replay
      \/ CommitInput
  BY StoreStep, <1>0
     DEF Next, DetectorNext, Worker, Replayer, PollInput, PublishDead, NoMatch, EmitSignal,
         EmitFails, PublishRetry, WorkerStops, WorkerStarts, PollRetry, Exhausted,
         CommitRetry, ReplayerStops, ReplayerStarts, topicVars, workerVars, detectorVars, vars
<1> QED BY <1>3, <1>4, <1>5, <1>6

(* The detector worker implements the durable consumer without skipping a  *)
(* message: its offset passes an event only after the signal, the retry    *)
(* record or the DLQ record is on its topic (docs/python_worker.md:133).   *)
THEOREM WorkerRefinement == Spec => WorkerImplementsDurableConsumer
<1>1. Init => WorkerConsumer!Init
  BY DEF Init, DetectorInit, WorkerConsumer!Init
<1>2. Inv /\ [Next]_vars => [WorkerConsumer!Next]_WorkerConsumer!vars
  BY StepMaps DEF WorkerConsumer!vars, Settled
<1> QED BY <1>1, <1>2, Invariance, PTL
        DEF Spec, WorkerImplementsDurableConsumer, WorkerConsumer!Spec
=============================================================================
