---------------------------- MODULE DetectorWorker ----------------------------
(***************************************************************************)
(* The detector worker (python/signalops_workers/worker.py) and the retry  *)
(* replayer (retry_replay.py), over the topics of broker.py: the worker's  *)
(* input, the retry topic, the algorithm DLQ and the signal topic.         *)
(*                                                                         *)
(* An event is a model value; the constant sets say what the handler, the  *)
(* detector and the broker do with it, every time it is tried.  Both       *)
(* processes hold one message at a time and commit its offset              *)
(* synchronously; offset 0 stands for "nothing committed".                 *)
(***************************************************************************)
EXTENDS Naturals, Sequences, FiniteSets

CONSTANTS
  Events,       \* normalized events
  Broken,       \* rejected by the handler, or the detector raises
  Quiet,        \* the detector finds no match
  Oversized,    \* matched, and the broker never takes the signal
  MaxAttempts,  \* SIGNALOPS_RETRY_REPLAY_MAX_ATTEMPTS
  MaxEvents,    \* bound: events that arrive, of those
  MaxInput,     \* bound: messages on the input topic
  MaxFaults     \* bound: crashes and broker errors

ASSUME DetectorAssumption ==
  /\ IsFiniteSet(Events)
  /\ Broken \cup Quiet \cup Oversized \subseteq Events
  /\ Broken \cap Quiet = {} /\ Broken \cap Oversized = {} /\ Quiet \cap Oversized = {}
  /\ MaxAttempts \in Nat \ {0}
  /\ MaxEvents \in Nat /\ MaxInput \in Nat /\ MaxFaults \in Nat

VARIABLES
  route,    \* what the replayer's raw topic is: "direct" the worker's own
            \* input, "normalizer" the topic the normalizer consumes
  input,    \* the worker's input topic: [event, attempt]
  retry,    \* the retry topic: [event, attempt]
  dead,     \* events in the algorithm DLQ
  signals,  \* the signal topic: [sig, time]; a signal is named by its event
  wAt,      \* where the worker is in run_worker
  wNext,    \* the input offset it polls or holds
  wDone,    \* the group's committed input offset
  rAt, rNext, rDone,  \* the same of the replayer and the retry topic
  faults    \* how many faults have happened

workerVars == <<wAt, wNext, wDone>>
replayerVars == <<rAt, rNext, rDone>>
topicVars == <<input, retry, dead>>
detectorVars == <<route, topicVars, signals, workerVars, replayerVars>>

Attempts == 0..MaxAttempts
Message == [event : Events, attempt : Attempts]

DetectorTypeOK ==
  /\ route \in {"direct", "normalizer"}
  /\ input \in Seq(Message) /\ Len(input) <= MaxInput
  /\ retry \in Seq([event : Events, attempt : Attempts \ {0}])
  /\ dead \subseteq Events
  /\ signals \in Seq([sig : Events, time : Nat])
  /\ wAt \in {"poll", "handle", "retry", "commit", "down"}
  /\ wDone \in 0..Len(input) /\ wNext \in 1..(Len(input) + 1)
  /\ wAt \in {"handle", "retry", "commit"} => wNext <= Len(input)
  /\ rAt \in {"poll", "decide", "commit", "down"}
  /\ rDone \in 0..Len(retry) /\ rNext \in 1..(Len(retry) + 1)
  /\ rAt \in {"decide", "commit"} => rNext <= Len(retry)
  /\ faults \in 0..MaxFaults

DetectorInit ==
  /\ route \in {"direct", "normalizer"}
  /\ input = <<>> /\ retry = <<>> /\ dead = {} /\ signals = <<>>
  /\ wAt = "poll" /\ wNext = 1 /\ wDone = 0
  /\ rAt = "poll" /\ rNext = 1 /\ rDone = 0
  /\ faults = 0

Fault == faults < MaxFaults /\ faults' = faults + 1

(* The normalizer publishes an event; its own faults are RawPipeline's.    *)
Arrive(e) ==
  /\ Len(input) < MaxInput
  /\ \A i \in 1..Len(input) : input[i].event # e
  /\ Cardinality({input[i].event : i \in 1..Len(input)}) < MaxEvents
  /\ input' = Append(input, [event |-> e, attempt |-> 0])
  /\ UNCHANGED <<route, retry, dead, signals, workerVars, replayerVars, faults>>

-----------------------------------------------------------------------------
(* run_worker: poll, handle and detect, publish the outcome, commit.       *)

Held == input[wNext].event

PollInput ==
  /\ wAt = "poll" /\ wNext <= Len(input)
  /\ wAt' = "handle"
  /\ UNCHANGED <<route, topicVars, signals, wNext, wDone, replayerVars, faults>>

PublishDead ==
  /\ wAt = "handle" /\ Held \in Broken
  /\ dead' = dead \cup {Held}
  /\ wAt' = "commit"
  /\ UNCHANGED <<route, input, retry, signals, wNext, wDone, replayerVars, faults>>

NoMatch ==
  /\ wAt = "handle" /\ Held \in Quiet
  /\ wAt' = "commit"
  /\ UNCHANGED <<route, topicVars, signals, wNext, wDone, replayerVars, faults>>

(* build_signal_event stamps the signal with the time it is built.         *)
WithSignal == Append(signals, [sig |-> Held, time |-> Len(signals) + 1])

EmitSignal ==
  /\ wAt = "handle" /\ Held \notin Broken \cup Quiet \cup Oversized
  /\ signals' = WithSignal
  /\ wAt' = "commit"
  /\ UNCHANGED <<route, topicVars, wNext, wDone, replayerVars, faults>>

(* "failed to publish emitted signal": the broker refused the record, or   *)
(* took it and the acknowledgement timed out.                              *)
EmitFails ==
  /\ wAt = "handle" /\ Held \notin Broken \cup Quiet
  /\ \/ Held \in Oversized /\ UNCHANGED <<signals, faults>>
     \/ Held \notin Oversized /\ Fault /\ signals' \in {signals, WithSignal}
  /\ wAt' = "retry"
  /\ UNCHANGED <<route, topicVars, wNext, wDone, replayerVars>>

(* Wrong variant: a retryable failure is logged and committed.             *)
ForgetRetry ==
  /\ wAt = "retry"
  /\ wAt' = "commit"
  /\ UNCHANGED <<route, topicVars, signals, wNext, wDone, replayerVars, faults>>

PublishRetry ==
  /\ wAt = "retry"
  /\ retry' = Append(retry, [event |-> Held, attempt |-> input[wNext].attempt + 1])
  /\ wAt' = "commit"
  /\ UNCHANGED <<route, input, dead, signals, wNext, wDone, replayerVars, faults>>

CommitInput ==
  /\ wAt = "commit"
  /\ wDone' = wNext /\ wNext' = wNext + 1
  /\ wAt' = "poll"
  /\ UNCHANGED <<route, topicVars, signals, replayerVars, faults>>

(* A crash, or a retry, DLQ or commit call that raises out of the loop;    *)
(* the uncommitted message is delivered again after the restart.           *)
WorkerStops ==
  /\ wAt # "down" /\ Fault
  /\ wAt' = "down" /\ wNext' = wDone + 1
  /\ UNCHANGED <<route, topicVars, signals, wDone, replayerVars>>

WorkerStarts ==
  /\ wAt = "down" /\ wAt' = "poll"
  /\ UNCHANGED <<route, topicVars, signals, wNext, wDone, replayerVars, faults>>

-----------------------------------------------------------------------------
(* run_retry_replayer.                                                     *)

PollRetry ==
  /\ rAt = "poll" /\ rNext <= Len(retry)
  /\ rAt' = "decide"
  /\ UNCHANGED <<route, topicVars, signals, workerVars, rNext, rDone, faults>>

(* Wrong variant: one more replay than the limit allows.                   *)
StillTrying(m) == m.attempt <= MaxAttempts

(* retry_replay_decision *)
MayReplay(m) == m.attempt < MaxAttempts

(* The source message carries its attempt in a header.  The normalizer     *)
(* publishes a new message with headers of its own.                        *)
Replayed(m) == [m EXCEPT !.attempt = IF route = "direct" THEN @ ELSE 0]

Replay ==
  /\ rAt = "decide" /\ MayReplay(retry[rNext])
  /\ Len(input) < MaxInput
  /\ input' = Append(input, Replayed(retry[rNext]))
  /\ rAt' = "commit"
  /\ UNCHANGED <<route, retry, dead, signals, workerVars, rNext, rDone, faults>>

(* Wrong variant: an exhausted record is only logged.                      *)
DropExhausted ==
  /\ rAt = "decide" /\ ~MayReplay(retry[rNext])
  /\ rAt' = "commit"
  /\ UNCHANGED <<route, topicVars, signals, workerVars, rNext, rDone, faults>>

Exhausted ==
  /\ rAt = "decide" /\ ~MayReplay(retry[rNext])
  /\ dead' = dead \cup {retry[rNext].event}
  /\ rAt' = "commit"
  /\ UNCHANGED <<route, input, retry, signals, workerVars, rNext, rDone, faults>>

CommitRetry ==
  /\ rAt = "commit"
  /\ rDone' = rNext /\ rNext' = rNext + 1
  /\ rAt' = "poll"
  /\ UNCHANGED <<route, topicVars, signals, workerVars, faults>>

ReplayerStops ==
  /\ rAt # "down" /\ Fault
  /\ rAt' = "down" /\ rNext' = rDone + 1
  /\ UNCHANGED <<route, topicVars, signals, workerVars, rDone>>

ReplayerStarts ==
  /\ rAt = "down" /\ rAt' = "poll"
  /\ UNCHANGED <<route, topicVars, signals, workerVars, rNext, rDone, faults>>

-----------------------------------------------------------------------------
Worker ==
  PollInput \/ PublishDead \/ NoMatch \/ EmitSignal \/ EmitFails \/ PublishRetry \/ CommitInput

Replayer == PollRetry \/ Replay \/ Exhausted \/ CommitRetry

DetectorNext ==
  \/ \E e \in Events : Arrive(e)
  \/ Worker \/ WorkerStops \/ WorkerStarts
  \/ Replayer \/ ReplayerStops \/ ReplayerStarts

DetectorSpec == DetectorInit /\ [][DetectorNext]_<<detectorVars, faults>>

-----------------------------------------------------------------------------
Signalled(e) == \E i \in 1..Len(signals) : signals[i].sig = e

(* What the worker owes an input message before its offset may pass.       *)
InputSettled(o) ==
  LET m == input[o] IN
  \/ m.event \in Quiet
  \/ m.event \in dead
  \/ Signalled(m.event)
  \/ \E i \in 1..Len(retry) : retry[i] = [m EXCEPT !.attempt = @ + 1]

(* docs/python_worker.md:133,140: the worker commits a source offset only  *)
(* after the signal, the retry record or the DLQ record is acknowledged.   *)
(* Unlike the normalizer it never skips a message.                         *)
WorkerConsumer == INSTANCE DurableConsumer WITH
  published <- Len(input),
  settled <- {o \in 1..Len(input) : InputSettled(o)},
  skipped <- {},
  committed <- wDone

WorkerImplementsDurableConsumer == WorkerConsumer!Spec

(* A message that comes back to the worker itself keeps its count, so no   *)
(* record asks for more than MaxAttempts tries; and a retry record whose   *)
(* offset has passed was replayed one attempt on or dead-lettered, crash   *)
(* or not (retry_replay_decision, retry_replay.py:119-137).                *)
RetryLimit ==
  /\ \A i \in 1..Len(input) : input[i].attempt < MaxAttempts
  /\ \A i \in 1..rDone :
       \/ retry[i].event \in dead
       \/ \E o \in 1..Len(input) : input[o] = Replayed(retry[i])
=============================================================================
