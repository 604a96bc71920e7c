--------------------------- MODULE BatchScheduler ---------------------------
(***************************************************************************)
(* The micro-batching of the diarization sidecar                           *)
(* (services/diarization/model.py): _BatchScheduler, the streams that      *)
(* submit their inference steps to it from executor threads, and close().  *)
(*                                                                         *)
(* A stream has at most one request outstanding (submit() waits for its    *)
(* future), so a request is named by its stream.  The queue is a           *)
(* queue.Queue and submit() and close() hold the lifecycle lock, so each   *)
(* of their bodies is one action; the scheduler thread takes one item, or  *)
(* runs one group of compatible requests, per action.  The tensor state of *)
(* a stream is abstracted to whose it is and how many steps it has seen.   *)
(***************************************************************************)
EXTENDS Naturals, Sequences, FiniteSets

CONSTANTS
  Streams,    \* the sessions that share the checkpoint
  Keys,       \* values of compatibility_key()
  MaxBatch,   \* _max_batch_size
  MaxSteps,   \* bound: inference steps of a stream
  STOP        \* _SCHEDULER_STOP

ASSUME SchedulerAssumption ==
  /\ IsFiniteSet(Streams) /\ STOP \notin Streams
  /\ MaxBatch \in Nat \ {0}
  /\ MaxSteps \in Nat

VARIABLES
  phase,     \* per stream: "ready", "waiting" in future.result(), or "failed"
  key,       \* compatibility_key() of the stream's last request
  state,     \* SortformerStream._state
  answered,  \* history: requests of the stream answered with a result
  ahead,     \* history: compatible requests submitted before the stream's, unanswered
  queue,     \* _queue
  pending,   \* the batch being collected or run, in the order taken
  left,      \* the requests of the batch not answered yet
  sched,     \* the scheduler thread
  closed     \* _closed

vars == <<phase, key, state, answered, ahead, queue, pending, left, sched, closed>>

ModelStates == [owner : Streams, step : 0..MaxSteps]

TypeOK ==
  /\ phase \in [Streams -> {"ready", "waiting", "failed"}]
  /\ key \in [Streams -> Keys]
  /\ state \in [Streams -> ModelStates]
  /\ answered \in [Streams -> 0..MaxSteps]
  /\ ahead \in [Streams -> SUBSET Streams]
  /\ queue \in Seq(Streams \cup {STOP})
  /\ pending \in Seq(Streams) /\ Len(pending) <= MaxBatch
  /\ left \subseteq Streams
  /\ sched \in {"idle", "collecting", "running", "ended"}
  /\ closed \in BOOLEAN

Init ==
  /\ phase = [s \in Streams |-> "ready"]
  /\ key \in [Streams -> Keys]
  /\ state = [s \in Streams |-> [owner |-> s, step |-> 0]]
  /\ answered = [s \in Streams |-> 0]
  /\ ahead = [s \in Streams |-> {}]
  /\ queue = <<>> /\ pending = <<>> /\ left = {}
  /\ sched = "idle" /\ closed = FALSE

-----------------------------------------------------------------------------
(* The threads of the streams, and close(). *)

\* _infer_step: the window and the state decide the compatibility key.
Submit_UnlockedCheck(s, k) ==
  /\ phase[s] = "ready" /\ answered[s] < MaxSteps
  /\ phase' = [phase EXCEPT ![s] = "waiting"]
  /\ key' = [key EXCEPT ![s] = k]
  /\ ahead' = [ahead EXCEPT ![s] = {t \in Streams : phase[t] = "waiting" /\ key[t] = k}]
  /\ queue' = Append(queue, s)
  /\ UNCHANGED <<state, answered, pending, left, sched, closed>>
Submit(s, k) ==
  /\ phase[s] = "ready" /\ answered[s] < MaxSteps
  /\ ~closed
  /\ phase' = [phase EXCEPT ![s] = "waiting"]
  /\ key' = [key EXCEPT ![s] = k]
  /\ ahead' = [ahead EXCEPT ![s] = {t \in Streams : phase[t] = "waiting" /\ key[t] = k}]
  /\ queue' = Append(queue, s)
  /\ UNCHANGED <<state, answered, pending, left, sched, closed>>

\* "scheduler is closed": feed() raises and the session of the stream is over.
SubmitRefused(s) ==
  /\ phase[s] = "ready" /\ answered[s] < MaxSteps
  /\ closed
  /\ phase' = [phase EXCEPT ![s] = "failed"]
  /\ UNCHANGED <<key, state, answered, ahead, queue, pending, left, sched, closed>>

Close ==
  /\ ~closed
  /\ closed' = TRUE
  /\ queue' = Append(queue, STOP)
  /\ UNCHANGED <<phase, key, state, answered, ahead, pending, left, sched>>

-----------------------------------------------------------------------------
(* The scheduler thread. *)

TakeFirst_Newest ==
  /\ sched = "idle" /\ queue # <<>>
  /\ queue' = SubSeq(queue, 1, Len(queue) - 1)
  /\ IF queue[Len(queue)] = STOP
       THEN sched' = "ended" /\ UNCHANGED <<pending, left>>
       ELSE /\ sched' = "collecting"
            /\ pending' = <<queue[Len(queue)]>> /\ left' = {queue[Len(queue)]}
  /\ UNCHANGED <<phase, key, state, answered, ahead, closed>>
TakeFirst ==
  /\ sched = "idle" /\ queue # <<>>
  /\ queue' = Tail(queue)
  /\ IF Head(queue) = STOP
       THEN sched' = "ended" /\ UNCHANGED <<pending, left>>
       ELSE sched' = "collecting" /\ pending' = <<Head(queue)>> /\ left' = {Head(queue)}
  /\ UNCHANGED <<phase, key, state, answered, ahead, closed>>

CollectNext ==
  /\ sched = "collecting" /\ Len(pending) < MaxBatch
  /\ queue # <<>> /\ Head(queue) # STOP
  /\ queue' = Tail(queue)
  /\ pending' = Append(pending, Head(queue))
  /\ left' = left \cup {Head(queue)}
  /\ UNCHANGED <<phase, key, state, answered, ahead, sched, closed>>

\* The stop mark met in the middle of a batch goes back, to be met again.
CollectStop_Swallowed ==
  /\ sched = "collecting" /\ Len(pending) < MaxBatch
  /\ queue # <<>> /\ Head(queue) = STOP
  /\ queue' = Tail(queue)
  /\ sched' = "running"
  /\ UNCHANGED <<phase, key, state, answered, ahead, pending, left, closed>>
CollectStop ==
  /\ sched = "collecting" /\ Len(pending) < MaxBatch
  /\ queue # <<>> /\ Head(queue) = STOP
  /\ queue' = Append(Tail(queue), STOP)
  /\ sched' = "running"
  /\ UNCHANGED <<phase, key, state, answered, ahead, pending, left, closed>>

\* The batch is full, or its deadline has passed.
StopCollecting ==
  /\ sched = "collecting"
  /\ sched' = "running"
  /\ UNCHANGED <<phase, key, state, answered, ahead, queue, pending, left, closed>>

\* groups: the requests by key; the group run next is that of the first request
\* not yet answered.
Leader ==
  CHOOSE i \in DOMAIN pending :
    pending[i] \in left /\ \A h \in 1..(i - 1) : pending[h] \notin left
Group_Everyone == left
Group == {s \in left : key[s] = key[pending[Leader]]}

\* _run_inference_batch: the states are stacked in the order of the requests and
\* split again, so a result is found at the place of its request.
Place_Misaligned(s) == CHOOSE i \in DOMAIN pending : pending[i] \in Group
Place(s) == CHOOSE i \in DOMAIN pending : pending[i] = s
Result(i) == [state[pending[i]] EXCEPT !.step = @ + 1]

AfterGroup ==
  /\ left' = left \ Group
  /\ ahead' = [s \in Streams |-> IF s \in Group THEN {} ELSE ahead[s] \ Group]
  /\ IF left' = {}
       THEN pending' = <<>> /\ sched' = "idle"
       ELSE UNCHANGED <<pending, sched>>

\* A future may get a result once.
GroupSucceeds ==
  /\ sched = "running"
  /\ phase' = [s \in Streams |-> IF s \in Group THEN "ready" ELSE phase[s]]
  /\ state' = [s \in Streams |-> IF s \in Group THEN Result(Place(s)) ELSE state[s]]
  /\ answered' = [s \in Streams |-> IF s \in Group THEN answered[s] + 1 ELSE answered[s]]
  /\ AfterGroup
  /\ UNCHANGED <<key, queue, closed>>

\* _run_batch raises, or returns the wrong number of results.
GroupFails ==
  /\ sched = "running"
  /\ phase' = [s \in Streams |-> IF s \in Group THEN "failed" ELSE phase[s]]
  /\ AfterGroup
  /\ UNCHANGED <<key, state, answered, queue, closed>>

-----------------------------------------------------------------------------
Scheduler ==
  \/ TakeFirst \/ CollectNext \/ CollectStop \/ StopCollecting
  \/ GroupSucceeds \/ GroupFails

Next ==
  \/ \E s \in Streams, k \in Keys : Submit(s, k)
  \/ \E s \in Streams : SubmitRefused(s)
  \/ Close
  \/ Scheduler

\* The scheduler's thread runs, its batch deadline passes and the model returns.
Fairness == WF_vars(Scheduler)

Spec == Init /\ [][Next]_vars /\ Fairness

-----------------------------------------------------------------------------
(* Properties. *)

\* Sessions share the checkpoint but never a state: whatever batches a stream's
\* steps ran in, its state is its own and has seen exactly its steps.
StreamsKeepTheirState ==
  \A s \in Streams : state[s] = [owner |-> s, step |-> answered[s]]

\* Nothing is queued behind the stop mark, so putting it back when it is met in
\* the middle of a batch leaves it in its place.
StopIsLast == \A i \in DOMAIN queue : queue[i] = STOP => i = Len(queue)

Answered(s) == phase[s] = "waiting" /\ phase'[s] # "waiting"

\* Requests answered together are compatible and no more than a batch: neither
\* a success nor a failure crosses from one group into another.
BatchesAreSound ==
  [][ /\ \A s, t \in Streams : Answered(s) /\ Answered(t) => key[s] = key[t]
      /\ Cardinality({s \in Streams : Answered(s)}) <= MaxBatch ]_vars

\* Among requests of one key the first come is the first served.
NoOvertaking ==
  [][ \A s \in Streams : Answered(s) => \A t \in ahead[s] : Answered(t) ]_vars

\* No thread waits for ever in future.result(), a shutdown at any moment
\* included.
EveryRequestAnswered == \A s \in Streams : phase[s] = "waiting" ~> phase[s] # "waiting"

\* close() stops the thread, wherever it meets the stop mark.
SchedulerEnds == closed ~> sched = "ended"
=============================================================================
