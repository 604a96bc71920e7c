------------------------------ MODULE JobStore ------------------------------
(***************************************************************************)
(* The in-process job store behind the asynchronous REST endpoints         *)
(* (backend/jobstore.py, its shells backend/asr/jobs.py and                *)
(* backend/emotion/jobs.py, and their callers in backend/main.py).         *)
(*                                                                         *)
(* One asyncio loop runs everything: what happens between two suspension   *)
(* points is one action.  The store's lock is never held across a          *)
(* suspension, so the only places a runner task waits are the semaphore    *)
(* and the model call inside run_job_payload.                              *)
(*                                                                         *)
(* configure_limits() builds a NEW semaphore each time it is called, while *)
(* tasks keep waiting on, and holding permits of, the one they started     *)
(* with: semaphores are numbered, and each job remembers its own.          *)
(***************************************************************************)
EXTENDS Naturals, FiniteSets, Sequences

CONSTANTS
  Jobs,           \* the job ids that new_job_id() may draw
  QueueMax,       \* _queue_max
  MaxConcurrent,  \* _max_concurrent
  Reconfigures,   \* TRUE: every submission configures the store first, as the
                  \* endpoints of main.py do; FALSE: configured once, as in tests
  MaxSemaphores   \* bound on the semaphores a behaviour creates

ASSUME JobsAssumption == IsFiniteSet(Jobs)
ASSUME LimitsAssumption ==
  /\ QueueMax \in Nat \ {0}
  /\ MaxConcurrent \in Nat \ {0}
  /\ MaxSemaphores \in Nat \ {0}
  /\ Reconfigures \in BOOLEAN

VARIABLES
  status,     \* BaseJob.status; "none" before the id is drawn, "gone" once purged
  stale,      \* jobs whose updated_at is before now - _ttl_sec
  payload,    \* jobs whose input recording is still in memory
  task,       \* where the job's _run_job task is
  semOf,      \* the semaphore the job's task took or waits on (0: none yet)
  semaphore,  \* self._semaphore: the number of the current one
  value,      \* per semaphore, its free permits
  waiters,    \* per semaphore, its FIFO of waiting tasks
  polled,     \* what the last GET of the job returned
  kept        \* history: finished jobs whose result is not yet one TTL old

vars == <<status, stale, payload, task, semOf, semaphore, value, waiters, polled, kept>>

ActiveStatuses == {"queued", "running"}
TerminalStatuses == {"succeeded", "failed"}
Semaphores == 1..MaxSemaphores

Active == {j \in Jobs : status[j] \in ActiveStatuses}
Terminal == {j \in Jobs : status[j] \in TerminalStatuses}

TypeOK ==
  /\ status \in [Jobs -> {"none", "gone"} \cup ActiveStatuses \cup TerminalStatuses]
  /\ stale \subseteq Jobs
  /\ payload \subseteq Jobs
  /\ task \in [Jobs -> {"none", "created", "waiting", "granted", "executing", "ended"}]
  /\ semOf \in [Jobs -> 0..MaxSemaphores]
  /\ semaphore \in Semaphores
  /\ value \in [Semaphores -> 0..MaxConcurrent]
  /\ waiters \in [Semaphores -> Seq(Jobs)]
  /\ polled \in [Jobs -> {"never", "404"} \cup ActiveStatuses \cup TerminalStatuses]
  /\ kept \subseteq Jobs

Init ==
  /\ status = [j \in Jobs |-> "none"]
  /\ stale = {}
  /\ payload = {}
  /\ task = [j \in Jobs |-> "none"]
  /\ semOf = [j \in Jobs |-> 0]
  /\ semaphore = 1
  /\ value = [s \in Semaphores |-> MaxConcurrent]
  /\ waiters = [s \in Semaphores |-> <<>>]
  /\ polled = [j \in Jobs |-> "never"]
  /\ kept = {}

-----------------------------------------------------------------------------
(* Submission and polling. *)

Expired_ActiveToo == {j \in stale : status[j] \notin {"none", "gone"}}
Expired == {j \in stale : status[j] \in TerminalStatuses}

Purged == [j \in Jobs |-> IF j \in Expired THEN "gone" ELSE status[j]]

\* store.configure(cfg), called by the endpoint and again by submit(): the
\* semaphore built by the first call is replaced before any task can see it.
ConfigureLimits ==
  IF Reconfigures
    THEN semaphore < MaxSemaphores /\ semaphore' = semaphore + 1
    ELSE UNCHANGED semaphore

QueueHasRoom_OffByOne == Cardinality(Active) <= QueueMax
QueueHasRoom == Cardinality(Active) < QueueMax

\* submit() + enqueue(): purge, admit, and create the runner task.
Admit(j) ==
  /\ status[j] = "none"
  /\ QueueHasRoom
  /\ ConfigureLimits
  /\ status' = [Purged EXCEPT ![j] = "queued"]
  /\ payload' = payload \cup {j}
  /\ task' = [task EXCEPT ![j] = "created"]
  /\ stale' = stale \ Expired
  /\ UNCHANGED <<semOf, value, waiters, polled, kept>>

\* JobQueueFullError: the endpoint answers 503, but it has already purged and
\* reconfigured.
Reject ==
  /\ ~QueueHasRoom
  /\ ConfigureLimits
  /\ status' = Purged
  /\ stale' = stale \ Expired
  /\ UNCHANGED <<payload, task, semOf, value, waiters, polled, kept>>

\* GET /.../{job_id}
Poll(j) ==
  /\ status[j] # "none"
  /\ status' = Purged
  /\ stale' = stale \ Expired
  /\ polled' = [polled EXCEPT ![j] = IF Purged[j] = "gone" THEN "404" ELSE Purged[j]]
  /\ UNCHANGED <<payload, task, semOf, semaphore, value, waiters, kept>>

\* One _ttl_sec passes since the job's updated_at.
Age(j) ==
  /\ status[j] \notin {"none", "gone"}
  /\ j \notin stale
  /\ stale' = stale \cup {j}
  /\ kept' = kept \ {j}
  /\ UNCHANGED <<status, payload, task, semOf, semaphore, value, waiters, polled>>

-----------------------------------------------------------------------------
(* The runner task of a job. *)

\* _set_status(RUNNING), _execute's lookup and the call of run_job_payload.
EnterRunning(j) ==
  /\ status' = [status EXCEPT ![j] = "running"]
  /\ task' = [task EXCEPT ![j] = "executing"]
  /\ stale' = stale \ {j}

\* The task reads self._semaphore when it first runs, not when it is created.
Acquire(j) ==
  /\ task[j] = "created"
  /\ value[semaphore] > 0
  /\ semOf' = [semOf EXCEPT ![j] = semaphore]
  /\ value' = [value EXCEPT ![semaphore] = @ - 1]
  /\ EnterRunning(j)
  /\ UNCHANGED <<payload, semaphore, waiters, polled, kept>>

Wait(j) ==
  /\ task[j] = "created"
  /\ value[semaphore] = 0
  /\ semOf' = [semOf EXCEPT ![j] = semaphore]
  /\ waiters' = [waiters EXCEPT ![semaphore] = Append(@, j)]
  /\ task' = [task EXCEPT ![j] = "waiting"]
  /\ UNCHANGED <<status, stale, payload, semaphore, value, polled, kept>>

Resume(j) ==
  /\ task[j] = "granted"
  /\ EnterRunning(j)
  /\ UNCHANGED <<payload, semOf, semaphore, value, waiters, polled, kept>>

\* transcribe_pcm_i16's release_input and progress callbacks.
Progress(j) ==
  /\ task[j] = "executing"
  /\ stale' = stale \ {j}
  /\ payload' \in {payload, payload \ {j}}
  /\ UNCHANGED <<status, task, semOf, semaphore, value, waiters, polled, kept>>

\* asyncio.Semaphore.release(): the permit goes to the first waiter, if any.
Release_Leak(s, ended) ==
  /\ task' = ended
  /\ UNCHANGED <<value, waiters>>
Release(s, ended) ==
  \/ /\ waiters[s] = <<>>
     /\ value' = [value EXCEPT ![s] = @ + 1]
     /\ task' = ended
     /\ UNCHANGED waiters
  \/ /\ waiters[s] # <<>>
     /\ task' = [ended EXCEPT ![Head(waiters[s])] = "granted"]
     /\ waiters' = [waiters EXCEPT ![s] = Tail(@)]
     /\ UNCHANGED value

\* The payload returns or raises: the terminal status, its timestamp, the
\* release of the payload and of the semaphore.
Finish_KeepsTimestamp(j, outcome) ==
  /\ task[j] = "executing"
  /\ status' = [status EXCEPT ![j] = outcome]
  /\ payload' = payload \ {j}
  /\ kept' = kept \cup {j}
  /\ Release(semOf[j], [task EXCEPT ![j] = "ended"])
  /\ UNCHANGED <<stale, semOf, semaphore, polled>>
Finish(j, outcome) ==
  /\ task[j] = "executing"
  /\ status' = [status EXCEPT ![j] = outcome]
  /\ stale' = stale \ {j}
  /\ payload' = payload \ {j}
  /\ kept' = kept \cup {j}
  /\ Release(semOf[j], [task EXCEPT ![j] = "ended"])
  /\ UNCHANGED <<semOf, semaphore, polled>>

-----------------------------------------------------------------------------
Runner(j) ==
  \/ Acquire(j)
  \/ Wait(j)
  \/ Resume(j)
  \/ \E outcome \in TerminalStatuses : Finish(j, outcome)

Next ==
  \/ \E j \in Jobs : Admit(j)
  \/ Reject
  \/ \E j \in Jobs : Poll(j)
  \/ \E j \in Jobs : Age(j)
  \/ \E j \in Jobs : Progress(j)
  \/ \E j \in Jobs : Runner(j)

\* A ready task runs, and every upstream call of a payload has a timeout.
Fairness == \A j \in Jobs : WF_vars(Runner(j))

Spec == Init /\ [][Next]_vars /\ Fairness

-----------------------------------------------------------------------------
(* Properties. *)

\* The cap that turns into HTTP 503: never more than queue_max queued or
\* running jobs, whatever the order of submissions, completions and purges.
ActiveBound == Cardinality(Active) <= QueueMax

\* Memory: the recordings held by the store are bounded by the queue cap, so a
\* finished, failed or purged job never pins its upload.
PayloadOnlyWhileActive == payload \subseteq Active

\* max_concurrent as configured: this many jobs at most run at once.
RunningBound == Cardinality({j \in Jobs : status[j] = "running"}) <= MaxConcurrent

\* Permits are conserved: what a semaphore has free and what tasks hold of it
\* add up to its size, for the replaced semaphores too.
Holders(s) == {j \in Jobs : task[j] \in {"granted", "executing"} /\ semOf[j] = s}
PermitsConserved ==
  \A s \in Semaphores : value[s] + Cardinality(Holders(s)) = MaxConcurrent

\* The purge never takes a job away from its runner: a task between its creation
\* and its end always finds the job in the state it left it in.
RunnerOwnsJob ==
  \A j \in Jobs :
    /\ task[j] \in {"created", "waiting", "granted"} <=> status[j] = "queued"
    /\ task[j] = "executing" <=> status[j] = "running"

\* A finished job stays available for a whole TTL counted from the moment it
\* finished, however long it waited and ran before.
ResultKept == kept \subseteq Terminal

\* What successive GETs of one job see only moves forward: queued, running, one
\* terminal status that never changes, then 404 for ever.
Rank(p) == CASE p = "never" -> 0 [] p = "queued" -> 1 [] p = "running" -> 2
            [] p \in TerminalStatuses -> 3 [] p = "404" -> 4
PollsMoveForward ==
  [][\A j \in Jobs : polled'[j] # polled[j] => Rank(polled'[j]) > Rank(polled[j])]_polled

\* Every admitted job reaches a terminal status, whichever semaphore it got.
EveryJobFinishes ==
  \A j \in Jobs : status[j] = "queued" ~> status[j] \notin ActiveStatuses

\* The store implements the lifecycle it promises.
PhaseOf == [none |-> "new", queued |-> "waiting", running |-> "working",
            succeeded |-> "over", failed |-> "over", gone |-> "forgotten"]
phase == [j \in Jobs |-> PhaseOf[status[j]]]
Lifecycle == INSTANCE JobLifecycle WITH
  Loads <- {S \in SUBSET Jobs : Cardinality(S) <= QueueMax}
ImplementsLifecycle == Lifecycle!Spec
=============================================================================
