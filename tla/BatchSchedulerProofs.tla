------------------------ MODULE BatchSchedulerProofs ------------------------
(***************************************************************************)
(* Safety of the micro-batching for any number of streams, any             *)
(* compatibility keys and any size of batch: proofs over BatchScheduler.   *)
(***************************************************************************)
EXTENDS BatchScheduler, FiniteSetTheorems, TLAPS

\* The queue holds each request once, before the batch takes it, and the stop
\* mark once, last, after close().
QueueInv ==
  /\ \A i, j \in DOMAIN queue : queue[i] = queue[j] => i = j
  /\ \A i \in DOMAIN queue :
       \/ queue[i] = STOP /\ closed /\ i = Len(queue)
       \/ /\ queue[i] \in Streams \ left
          /\ phase[queue[i]] = "waiting"

\* The batch holds each of its requests once; all of them are unanswered while
\* it is collected, none between batches.
BatchInv ==
  /\ \A i, j \in DOMAIN pending : pending[i] = pending[j] => i = j
  /\ \A s \in left : phase[s] = "waiting" /\ \E i \in DOMAIN pending : pending[i] = s
  /\ sched \in {"idle", "ended"} => pending = <<>> /\ left = {}
  /\ sched = "collecting" => \A i \in DOMAIN pending : pending[i] \in left

\* An unanswered request is in the batch or in the queue: none is lost.
NoneLost ==
  \A s \in Streams : phase[s] = "waiting" =>
    /\ answered[s] < MaxSteps
    /\ s \in left \/ \E i \in DOMAIN queue : queue[i] = s

\* The requests that came before one of their key are still before it.
AheadInv ==
  /\ \A s \in Streams : \A t \in ahead[s] :
       phase[s] = "waiting" /\ phase[t] = "waiting" /\ key[t] = key[s]
  /\ \A s \in left : ahead[s] \subseteq left
  /\ \A j \in DOMAIN queue : queue[j] # STOP =>
       \A t \in ahead[queue[j]] : t \in left \/ \E i \in 1..(j - 1) : queue[i] = t

BatchingInv ==
  TypeOK /\ QueueInv /\ BatchInv /\ NoneLost /\ AheadInv /\ StreamsKeepTheirState

LEMMA BatchingInit == Init => BatchingInv
<1> SUFFICES ASSUME Init PROVE BatchingInv
  OBVIOUS
<1>1. state \in [Streams -> ModelStates] /\ answered \in [Streams -> 0..MaxSteps]
  <2>1. 0 \in 0..MaxSteps
    BY SchedulerAssumption
  <2>2. \A s \in Streams : [owner |-> s, step |-> 0] \in ModelStates
    BY <2>1 DEF ModelStates
  <2> QED
    BY <2>1, <2>2 DEF Init
<1>2. TypeOK
  <2>1. /\ phase \in [Streams -> {"ready", "waiting", "failed"}]
        /\ key \in [Streams -> Keys] /\ ahead \in [Streams -> SUBSET Streams]
    BY DEF Init
  <2>2. queue \in Seq(Streams \cup {STOP}) /\ pending \in Seq(Streams) /\ Len(pending) = 0
    BY DEF Init
  <2>3. left \subseteq Streams /\ sched = "idle" /\ closed \in BOOLEAN
    BY DEF Init
  <2> QED
    BY <1>1, <2>1, <2>2, <2>3, SchedulerAssumption DEF TypeOK
<1>3. QueueInv /\ BatchInv /\ NoneLost /\ AheadInv
  BY DEF Init, QueueInv, BatchInv, NoneLost, AheadInv
<1>4. StreamsKeepTheirState
  BY DEF Init, StreamsKeepTheirState
<1> QED
  BY <1>2, <1>3, <1>4 DEF BatchingInv

-----------------------------------------------------------------------------
(* The steps of the streams and of close(). *)

\* A new request joins the end of the queue, behind every unanswered one.
LEMMA SubmitKeeps ==
  ASSUME BatchingInv, NEW s \in Streams, NEW k \in Keys, Submit(s, k)
  PROVE  BatchingInv'
<1> USE SchedulerAssumption DEF BatchingInv
<1>1. TypeOK'
  BY DEF Submit, TypeOK
<1>2. /\ Len(queue') = Len(queue) + 1
      /\ queue'[Len(queue')] = s
      /\ \A i \in DOMAIN queue : queue'[i] = queue[i]
      /\ DOMAIN queue' = 1..Len(queue') /\ DOMAIN queue = 1..Len(queue)
      /\ Len(queue) \in Nat
  BY DEF Submit, TypeOK
<1>3. \A i \in DOMAIN queue : queue[i] # s /\ queue[i] # STOP
  BY DEF Submit, QueueInv, TypeOK
<1>4. s \notin left /\ \A t \in Streams : s \notin ahead[t]
  <2>1. phase[s] # "waiting"
    BY DEF Submit
  <2> QED
    BY <2>1 DEF BatchInv, AheadInv
<1>5. QueueInv'
  BY <1>2, <1>3, <1>4 DEF Submit, QueueInv, TypeOK
<1>6. BatchInv'
  BY <1>4 DEF Submit, BatchInv, TypeOK
<1>7. NoneLost'
  <2> SUFFICES ASSUME NEW t \in Streams, phase'[t] = "waiting"
               PROVE  /\ answered'[t] < MaxSteps
                      /\ t \in left' \/ \E i \in DOMAIN queue' : queue'[i] = t
    BY DEF NoneLost
  <2>1. CASE t = s
    BY <1>2, <2>1 DEF Submit
  <2>2. CASE t # s
    <3>1. phase[t] = "waiting"
      BY <2>2 DEF Submit, TypeOK
    <3>2. answered[t] < MaxSteps /\ (t \in left \/ \E i \in DOMAIN queue : queue[i] = t)
      BY <3>1 DEF NoneLost
    <3> QED
      BY <1>2, <3>2 DEF Submit
  <2> QED
    BY <2>1, <2>2
<1>8. AheadInv'
  <2>1. \A t \in Streams : \A u \in ahead'[t] :
          phase'[t] = "waiting" /\ phase'[u] = "waiting" /\ key'[u] = key'[t]
    BY <1>4 DEF Submit, AheadInv, TypeOK
  <2>2. \A t \in left' : ahead'[t] \subseteq left'
    BY <1>4 DEF Submit, AheadInv, TypeOK
  <2>3. ASSUME NEW j \in DOMAIN queue', queue'[j] # STOP, NEW t \in ahead'[queue'[j]]
        PROVE  t \in left' \/ \E i \in 1..(j - 1) : queue'[i] = t
    <3>1. CASE j \in DOMAIN queue
      <4>1. queue'[j] = queue[j] /\ queue[j] \in Streams
        BY <1>2, <1>3, <3>1 DEF QueueInv
      <4>2. t \in ahead[queue[j]]
        BY <4>1, <1>3, <2>3, <3>1 DEF Submit, TypeOK
      <4>3. t \in left \/ \E i \in 1..(j - 1) : queue[i] = t
        BY <4>1, <4>2, <1>3, <3>1 DEF AheadInv
      <4> QED
        BY <4>3, <1>2, <3>1 DEF Submit
    <3>2. CASE j = Len(queue')
      <4>1. t \in Streams /\ phase[t] = "waiting"
        BY <1>2, <2>3, <3>2 DEF Submit, TypeOK
      <4>2. t \in left \/ \E i \in DOMAIN queue : queue[i] = t
        BY <4>1 DEF NoneLost
      <4> QED
        BY <4>2, <1>2, <3>2 DEF Submit
    <3> QED
      BY <1>2, <2>3, <3>1, <3>2
  <2> QED
    BY <2>1, <2>2, <2>3 DEF AheadInv
<1>9. StreamsKeepTheirState'
  BY DEF Submit, StreamsKeepTheirState
<1> QED
  BY <1>1, <1>5, <1>6, <1>7, <1>8, <1>9

\* A refused request was in no queue, and the stop mark closes a queue that had
\* none.
LEMMA ClosingKeeps ==
  ASSUME BatchingInv, Close \/ \E s \in Streams : SubmitRefused(s)
  PROVE  BatchingInv'
<1> USE SchedulerAssumption DEF BatchingInv
<1>1. ASSUME NEW s \in Streams, SubmitRefused(s) PROVE BatchingInv'
  <2>1. TypeOK' /\ StreamsKeepTheirState'
    BY <1>1 DEF SubmitRefused, TypeOK, StreamsKeepTheirState
  <2>2. QueueInv'
    BY <1>1 DEF SubmitRefused, TypeOK, QueueInv
  <2>3. BatchInv'
    BY <1>1 DEF SubmitRefused, TypeOK, BatchInv
  <2>4. NoneLost'
    BY <1>1 DEF SubmitRefused, TypeOK, NoneLost
  <2>5. AheadInv'
    BY <1>1 DEF SubmitRefused, TypeOK, AheadInv
  <2> QED
    BY <2>1, <2>2, <2>3, <2>4, <2>5
<1>2. ASSUME Close PROVE BatchingInv'
  <2>1. TypeOK' /\ StreamsKeepTheirState'
    BY <1>2 DEF Close, TypeOK, StreamsKeepTheirState
  <2>2. /\ Len(queue') = Len(queue) + 1
        /\ queue'[Len(queue')] = STOP
        /\ \A i \in DOMAIN queue : queue'[i] = queue[i]
        /\ DOMAIN queue' = 1..Len(queue') /\ DOMAIN queue = 1..Len(queue)
        /\ Len(queue) \in Nat
    BY <1>2 DEF Close, TypeOK
  <2>3. \A i \in DOMAIN queue : queue[i] # STOP
    BY <1>2 DEF Close, QueueInv
  <2>4. QueueInv'
    BY <1>2, <2>2, <2>3 DEF Close, TypeOK, QueueInv
  <2>5. BatchInv'
    BY <1>2 DEF Close, BatchInv
  <2>6. NoneLost'
    BY <1>2, <2>2 DEF Close, NoneLost
  <2>7. AheadInv'
    BY <1>2, <2>2, <2>3 DEF Close, AheadInv
  <2> QED
    BY <2>1, <2>4, <2>5, <2>6, <2>7
<1> QED
  BY <1>1, <1>2

-----------------------------------------------------------------------------
(* The steps of the scheduler's thread. *)

\* Taking the first of a queue moves the others one place up.
LEMMA TailMovesUp ==
  ASSUME NEW S, NEW q \in Seq(S), q # <<>>
  PROVE  /\ Len(q) \in Nat \ {0}
         /\ Head(q) = q[1] /\ 1 \in DOMAIN q
         /\ DOMAIN q = 1..Len(q)
         /\ Tail(q) \in Seq(S)
         /\ Len(Tail(q)) = Len(q) - 1
         /\ DOMAIN Tail(q) = 1..(Len(q) - 1)
         /\ \A i \in 1..(Len(q) - 1) : i + 1 \in DOMAIN q /\ Tail(q)[i] = q[i + 1]
  OBVIOUS

\* The first request of the queue becomes the last of the batch.
LEMMA TakeKeeps ==
  ASSUME BatchingInv, queue # <<>>, Head(queue) # STOP,
         sched \in {"idle", "collecting"}, Len(pending) < MaxBatch,
         sched' = "collecting", queue' = Tail(queue),
         pending' = Append(pending, Head(queue)), left' = left \cup {Head(queue)},
         UNCHANGED <<phase, key, state, answered, ahead, closed>>
  PROVE  BatchingInv'
<1> USE SchedulerAssumption DEF BatchingInv
<1> DEFINE h == Head(queue)
<1>1. /\ Len(queue) \in Nat \ {0}
      /\ h = queue[1] /\ 1 \in DOMAIN queue
      /\ DOMAIN queue = 1..Len(queue)
      /\ queue' \in Seq(Streams \cup {STOP})
      /\ Len(queue') = Len(queue) - 1
      /\ DOMAIN queue' = 1..(Len(queue) - 1)
      /\ \A i \in 1..(Len(queue) - 1) : i + 1 \in DOMAIN queue /\ queue'[i] = queue[i + 1]
  <2>1. queue \in Seq(Streams \cup {STOP})
    BY DEF TypeOK
  <2> QED
    BY <2>1, TailMovesUp
<1>2. h \in Streams \ left /\ phase[h] = "waiting"
  BY <1>1 DEF QueueInv
<1> HIDE DEF h
<1>3. /\ Len(pending) \in Nat /\ Len(pending') = Len(pending) + 1
      /\ DOMAIN pending = 1..Len(pending) /\ DOMAIN pending' = 1..Len(pending')
      /\ pending'[Len(pending')] = h
      /\ \A i \in DOMAIN pending : pending'[i] = pending[i] /\ pending[i] \in left
      /\ pending' \in Seq(Streams)
  <2>1. \A i \in DOMAIN pending : pending[i] \in left
    BY DEF BatchInv
  <2> QED
    BY <1>2, <2>1 DEF TypeOK, h
<1>4. TypeOK'
  BY <1>1, <1>2, <1>3 DEF TypeOK, h
<1>5. QueueInv'
  <2>1. \A i, j \in DOMAIN queue' : queue'[i] = queue'[j] => i = j
    BY <1>1 DEF QueueInv
  <2>2. ASSUME NEW i \in DOMAIN queue'
        PROVE  \/ queue'[i] = STOP /\ closed' /\ i = Len(queue')
               \/ queue'[i] \in Streams \ left' /\ phase'[queue'[i]] = "waiting"
    <3>1. i + 1 \in DOMAIN queue /\ queue'[i] = queue[i + 1] /\ i + 1 # 1
      BY <1>1
    <3>2. queue'[i] # h
      BY <1>1, <3>1 DEF QueueInv
    <3>3. \/ queue[i + 1] = STOP /\ closed /\ i + 1 = Len(queue)
          \/ queue[i + 1] \in Streams \ left /\ phase[queue[i + 1]] = "waiting"
      BY <3>1 DEF QueueInv
    <3> QED
      BY <1>1, <3>1, <3>2, <3>3 DEF h
  <2> QED
    BY <2>1, <2>2 DEF QueueInv
<1>6. BatchInv'
  <2>1. \A i, j \in DOMAIN pending' : pending'[i] = pending'[j] => i = j
    BY <1>2, <1>3 DEF BatchInv
  <2>2. \A s \in left' : phase'[s] = "waiting" /\ \E i \in DOMAIN pending' : pending'[i] = s
    BY <1>2, <1>3 DEF BatchInv, h
  <2>3. \A i \in DOMAIN pending' : pending'[i] \in left'
    BY <1>3 DEF h
  <2> QED
    BY <2>1, <2>2, <2>3 DEF BatchInv
<1>7. NoneLost'
  <2> SUFFICES ASSUME NEW s \in Streams, phase[s] = "waiting"
               PROVE  s \in left' \/ \E i \in DOMAIN queue' : queue'[i] = s
    BY DEF NoneLost
  <2>1. CASE s \in left \/ s = h
    BY <2>1 DEF h
  <2>2. CASE s \notin left /\ s # h
    <3>1. PICK i \in DOMAIN queue : queue[i] = s
      BY <2>2 DEF NoneLost
    <3>2. i - 1 \in 1..(Len(queue) - 1) /\ (i - 1) + 1 = i
      BY <1>1, <2>2, <3>1
    <3> QED
      BY <1>1, <3>1, <3>2
  <2> QED
    BY <2>1, <2>2
<1>8. AheadInv'
  <2>1. \A s \in left' : ahead[s] \subseteq left'
    <3>1. ahead[h] \subseteq left
      BY <1>1, <1>2 DEF AheadInv, h
    <3> QED
      BY <3>1 DEF AheadInv, h
  <2>2. ASSUME NEW j \in DOMAIN queue', queue'[j] # STOP, NEW t \in ahead[queue'[j]]
        PROVE  t \in left' \/ \E i \in 1..(j - 1) : queue'[i] = t
    <3>1. j + 1 \in DOMAIN queue /\ queue'[j] = queue[j + 1]
      BY <1>1
    <3>2. CASE t \in left
      BY <3>2
    <3>3. ASSUME NEW i \in 1..((j + 1) - 1), queue[i] = t
          PROVE  t \in left' \/ \E n \in 1..(j - 1) : queue'[n] = t
      <4>1. CASE i = 1
        BY <1>1, <3>3, <4>1 DEF h
      <4>2. CASE i # 1
        <5>1. i - 1 \in 1..(j - 1) /\ i - 1 \in 1..(Len(queue) - 1) /\ (i - 1) + 1 = i
          BY <1>1, <4>2
        <5> QED
          BY <1>1, <3>3, <5>1
      <4> QED
        BY <4>1, <4>2
    <3> QED
      BY <2>2, <3>1, <3>2, <3>3 DEF AheadInv
  <2> QED
    BY <2>1, <2>2 DEF AheadInv
<1>9. StreamsKeepTheirState'
  BY DEF StreamsKeepTheirState
<1> QED
  BY <1>4, <1>5, <1>6, <1>7, <1>8, <1>9

\* A stop mark met at the head of the queue is all there is in it.
LEMMA StopStandsAlone ==
  ASSUME BatchingInv, queue # <<>>, Head(queue) = STOP
  PROVE  queue = <<STOP>>
<1>1. queue \in Seq(Streams \cup {STOP})
  BY DEF BatchingInv, TypeOK
<1>2. queue[1] = STOP /\ 1 \in DOMAIN queue
  BY <1>1, TailMovesUp
<1>3. Len(queue) = 1
  BY <1>2, SchedulerAssumption DEF BatchingInv, QueueInv
<1> QED
  BY <1>1, <1>2, <1>3

\* Collecting a batch, and the stop mark met at any moment of it.
LEMMA CollectingKeeps ==
  ASSUME BatchingInv, TakeFirst \/ CollectNext \/ CollectStop \/ StopCollecting
  PROVE  BatchingInv'
<1> USE SchedulerAssumption DEF BatchingInv
<1>1. CASE TakeFirst
  <2>1. pending = <<>> /\ left = {} /\ queue # <<>> /\ Len(pending) < MaxBatch
    BY <1>1 DEF TakeFirst, BatchInv
  <2>2. CASE Head(queue) # STOP
    <3>1. pending' = Append(pending, Head(queue)) /\ left' = left \cup {Head(queue)}
      BY <1>1, <2>1, <2>2 DEF TakeFirst
    <3> QED
      BY <1>1, <2>1, <2>2, <3>1, TakeKeeps DEF TakeFirst
  <2>3. CASE Head(queue) = STOP
    <3>1. queue = <<STOP>>
      BY <2>1, <2>3, StopStandsAlone
    <3>2. DOMAIN queue = {1} /\ queue[1] = STOP
      BY <3>1
    <3>3. queue' = <<>>
      BY <1>1, <3>1 DEF TakeFirst
    <3>4. \A s \in Streams : phase[s] # "waiting"
      BY <2>1, <3>2 DEF NoneLost
    <3>5. UNCHANGED <<phase, key, state, answered, ahead, pending, left, closed>>
          /\ sched' = "ended"
      BY <1>1, <2>3 DEF TakeFirst
    <3>6. TypeOK' /\ StreamsKeepTheirState'
      BY <3>3, <3>5 DEF TypeOK, StreamsKeepTheirState
    <3>7. QueueInv' /\ BatchInv' /\ NoneLost' /\ AheadInv'
      BY <2>1, <3>3, <3>4, <3>5 DEF QueueInv, BatchInv, NoneLost, AheadInv
    <3> QED
      BY <3>6, <3>7
  <2> QED
    BY <2>2, <2>3
<1>2. CASE CollectNext
  BY <1>2, TakeKeeps DEF CollectNext
<1>3. CASE CollectStop \/ StopCollecting
  <2>1. queue' = queue
    <3>1. CASE CollectStop
      <4>1. queue = <<STOP>>
        BY <3>1, StopStandsAlone DEF CollectStop
      <4>2. Append(Tail(<<STOP>>), STOP) = <<STOP>>
        OBVIOUS
      <4> QED
        BY <3>1, <4>1, <4>2 DEF CollectStop
    <3>2. CASE StopCollecting
      BY <3>2 DEF StopCollecting
    <3> QED
      BY <1>3, <3>1, <3>2
  <2>2. UNCHANGED <<phase, key, state, answered, ahead, pending, left, closed>>
        /\ sched = "collecting" /\ sched' = "running"
    BY <1>3 DEF CollectStop, StopCollecting
  <2>3. TypeOK' /\ StreamsKeepTheirState'
    BY <2>1, <2>2 DEF TypeOK, StreamsKeepTheirState
  <2>4. QueueInv' /\ BatchInv' /\ NoneLost' /\ AheadInv'
    BY <2>1, <2>2 DEF QueueInv, BatchInv, NoneLost, AheadInv
  <2> QED
    BY <2>3, <2>4
<1> QED
  BY <1>1, <1>2, <1>3

\* A group is some of the unanswered requests, of one key.
LEMMA GroupIsOfOneKey ==
  ASSUME BatchingInv
  PROVE  /\ Group \subseteq left
         /\ \A s \in Group : /\ s \in Streams /\ phase[s] = "waiting"
                             /\ answered[s] < MaxSteps
                             /\ pending[Place(s)] = s
         /\ \A s, t \in Group : key[s] = key[t]
         /\ \A s \in Group, t \in left : key[t] = key[s] => t \in Group
<1>1. Group \subseteq left
  BY DEF Group
<1>2. ASSUME NEW s \in Group
      PROVE  /\ s \in Streams /\ phase[s] = "waiting"
             /\ answered[s] < MaxSteps /\ pending[Place(s)] = s
  <2>1. s \in Streams /\ phase[s] = "waiting" /\ answered[s] < MaxSteps
    BY <1>1 DEF BatchingInv, TypeOK, BatchInv, NoneLost
  <2>2. \E i \in DOMAIN pending : pending[i] = s
    BY <1>1 DEF BatchingInv, BatchInv
  <2> QED
    BY <2>1, <2>2 DEF Place
<1> QED
  BY <1>1, <1>2 DEF Group

\* Answering a group, whatever the answer: its requests leave the batch, and
\* with each of them go all that were ahead of it.
LEMMA AnsweringKeeps ==
  ASSUME BatchingInv, sched = "running", AfterGroup,
         phase' \in [Streams -> {"ready", "waiting", "failed"}],
         \A s \in Streams : IF s \in Group THEN phase'[s] # "waiting" ELSE phase'[s] = phase[s],
         \A s \in Streams \ Group : answered'[s] = answered[s],
         UNCHANGED <<key, queue, closed>>
  PROVE  /\ ahead' \in [Streams -> SUBSET Streams]
         /\ pending' \in Seq(Streams) /\ Len(pending') <= MaxBatch
         /\ left' \subseteq Streams
         /\ sched' \in {"idle", "running"}
         /\ QueueInv' /\ BatchInv' /\ NoneLost' /\ AheadInv'
<1> USE DEF BatchingInv
<1>1. /\ Group \subseteq left /\ left \subseteq Streams
      /\ left' = left \ Group
      /\ ahead' = [s \in Streams |-> IF s \in Group THEN {} ELSE ahead[s] \ Group]
      /\ \/ left' = {} /\ pending' = <<>> /\ sched' = "idle"
         \/ left' # {} /\ pending' = pending /\ sched' = "running"
  BY GroupIsOfOneKey DEF AfterGroup, TypeOK
<1>2. /\ ahead' \in [Streams -> SUBSET Streams]
      /\ pending' \in Seq(Streams) /\ Len(pending') <= MaxBatch
      /\ left' \subseteq Streams /\ sched' \in {"idle", "running"}
  <2>1. ahead' \in [Streams -> SUBSET Streams]
    BY <1>1 DEF TypeOK
  <2>2. pending' \in Seq(Streams) /\ Len(pending') <= MaxBatch
    <3>1. <<>> \in Seq(Streams) /\ Len(<<>>) = 0
      OBVIOUS
    <3>2. CASE pending' = <<>>
      BY <3>1, <3>2, SchedulerAssumption
    <3>3. CASE pending' = pending
      BY <3>3 DEF TypeOK
    <3> QED
      BY <1>1, <3>2, <3>3
  <2> QED
    BY <1>1, <2>1, <2>2
<1>3. QueueInv'
  BY <1>1 DEF QueueInv
<1>4. BatchInv'
  <2>1. \A i, j \in DOMAIN pending' : pending'[i] = pending'[j] => i = j
    BY <1>1 DEF BatchInv
  <2>2. \A s \in left' : phase'[s] = "waiting" /\ \E i \in DOMAIN pending' : pending'[i] = s
    BY <1>1 DEF BatchInv
  <2> QED
    BY <1>1, <2>1, <2>2 DEF BatchInv
<1>5. NoneLost'
  BY <1>1 DEF NoneLost
<1>6. AheadInv'
  <2>1. ASSUME NEW s \in Streams, NEW t \in ahead'[s]
        PROVE  /\ t \in ahead[s] /\ s \notin Group /\ t \notin Group
               /\ t \in Streams
    BY <1>1, <2>1 DEF TypeOK
  <2>2. \A s \in Streams : \A t \in ahead'[s] :
          phase'[s] = "waiting" /\ phase'[t] = "waiting" /\ key'[t] = key'[s]
    BY <2>1 DEF AheadInv
  <2>3. \A s \in left' : ahead'[s] \subseteq left'
    BY <1>1, <2>1 DEF AheadInv
  <2>4. ASSUME NEW j \in DOMAIN queue, queue[j] # STOP, NEW t \in ahead'[queue[j]]
        PROVE  t \in left' \/ \E i \in 1..(j - 1) : queue[i] = t
    <3>1. queue[j] \in Streams
      BY <2>4 DEF QueueInv
    <3>2. t \in ahead[queue[j]] /\ t \notin Group
      BY <2>1, <2>4, <3>1
    <3> QED
      BY <1>1, <2>4, <3>2 DEF AheadInv
  <2> QED
    BY <2>2, <2>3, <2>4 DEF AheadInv
<1> QED
  BY <1>2, <1>3, <1>4, <1>5, <1>6

\* A group that succeeds: every request gets its own result, the step of its
\* own state.
LEMMA GroupKeeps ==
  ASSUME BatchingInv, GroupSucceeds \/ GroupFails
  PROVE  BatchingInv'
<1> USE DEF BatchingInv
<1>1. CASE GroupSucceeds
  <2>1. \A s \in Group : /\ s \in Streams /\ answered[s] < MaxSteps
                         /\ Result(Place(s)) = [owner |-> s, step |-> answered[s] + 1]
    <3> SUFFICES ASSUME NEW s \in Group
                 PROVE  /\ s \in Streams /\ answered[s] < MaxSteps
                        /\ Result(Place(s)) = [owner |-> s, step |-> answered[s] + 1]
      OBVIOUS
    <3>1. s \in Streams /\ answered[s] < MaxSteps /\ pending[Place(s)] = s
      BY GroupIsOfOneKey
    <3>2. state[s] = [owner |-> s, step |-> answered[s]]
      BY <3>1 DEF StreamsKeepTheirState
    <3>3. Result(Place(s)) = [state[s] EXCEPT !.step = @ + 1]
      BY <3>1 DEF Result
    <3> QED
      BY <3>1, <3>2, <3>3
  <2>2. /\ phase' = [s \in Streams |-> IF s \in Group THEN "ready" ELSE phase[s]]
        /\ state' = [s \in Streams |-> IF s \in Group THEN Result(Place(s)) ELSE state[s]]
        /\ answered' = [s \in Streams |-> IF s \in Group THEN answered[s] + 1 ELSE answered[s]]
        /\ sched = "running" /\ AfterGroup /\ UNCHANGED <<key, queue, closed>>
    BY <1>1 DEF GroupSucceeds
  <2>3. phase' \in [Streams -> {"ready", "waiting", "failed"}]
    BY <2>2 DEF TypeOK
  <2>4. answered' \in [Streams -> 0..MaxSteps]
    <3> SUFFICES ASSUME NEW s \in Streams PROVE answered'[s] \in 0..MaxSteps
      BY <2>2
    <3>1. answered[s] \in 0..MaxSteps
      BY DEF TypeOK
    <3> QED
      BY <2>1, <2>2, <3>1, SchedulerAssumption
  <2>5. StreamsKeepTheirState'
    BY <2>1, <2>2 DEF StreamsKeepTheirState
  <2>6. state' \in [Streams -> ModelStates]
    <3> SUFFICES ASSUME NEW s \in Streams PROVE state'[s] \in ModelStates
      BY <2>2
    <3>1. state'[s] = [owner |-> s, step |-> answered'[s]] /\ answered'[s] \in 0..MaxSteps
      BY <2>4, <2>5 DEF StreamsKeepTheirState
    <3> QED
      BY <3>1 DEF ModelStates
  <2>7. /\ \A s \in Streams : IF s \in Group THEN phase'[s] # "waiting" ELSE phase'[s] = phase[s]
        /\ \A s \in Streams \ Group : answered'[s] = answered[s]
    BY <2>2
  <2>8. /\ ahead' \in [Streams -> SUBSET Streams]
        /\ pending' \in Seq(Streams) /\ Len(pending') <= MaxBatch
        /\ left' \subseteq Streams /\ sched' \in {"idle", "running"}
        /\ QueueInv' /\ BatchInv' /\ NoneLost' /\ AheadInv'
    BY <2>2, <2>3, <2>7, AnsweringKeeps
  <2>9. TypeOK'
    BY <2>2, <2>3, <2>4, <2>6, <2>8 DEF TypeOK
  <2> QED
    BY <2>5, <2>8, <2>9
<1>2. CASE GroupFails
  <2>1. /\ phase' = [s \in Streams |-> IF s \in Group THEN "failed" ELSE phase[s]]
        /\ sched = "running" /\ AfterGroup
        /\ UNCHANGED <<key, state, answered, queue, closed>>
    BY <1>2 DEF GroupFails
  <2>2. phase' \in [Streams -> {"ready", "waiting", "failed"}]
    BY <2>1 DEF TypeOK
  <2>3. \A s \in Streams : IF s \in Group THEN phase'[s] # "waiting" ELSE phase'[s] = phase[s]
    BY <2>1
  <2>4. /\ ahead' \in [Streams -> SUBSET Streams]
        /\ pending' \in Seq(Streams) /\ Len(pending') <= MaxBatch
        /\ left' \subseteq Streams /\ sched' \in {"idle", "running"}
        /\ QueueInv' /\ BatchInv' /\ NoneLost' /\ AheadInv'
    BY <2>1, <2>2, <2>3, AnsweringKeeps
  <2>5. TypeOK' /\ StreamsKeepTheirState'
    BY <2>1, <2>2, <2>4 DEF TypeOK, StreamsKeepTheirState
  <2> QED
    BY <2>4, <2>5
<1> QED
  BY <1>1, <1>2

LEMMA BatchingStep == BatchingInv /\ [Next]_vars => BatchingInv'
<1> SUFFICES ASSUME BatchingInv, [Next]_vars PROVE BatchingInv'
  OBVIOUS
<1>1. ASSUME NEW s \in Streams, NEW k \in Keys, Submit(s, k) PROVE BatchingInv'
  BY <1>1, SubmitKeeps
<1>2. CASE Close \/ \E s \in Streams : SubmitRefused(s)
  BY <1>2, ClosingKeeps
<1>3. CASE Scheduler
  BY <1>3, CollectingKeeps, GroupKeeps DEF Scheduler
<1>4. CASE UNCHANGED vars
  BY <1>4 DEF vars, BatchingInv, TypeOK, QueueInv, BatchInv, NoneLost, AheadInv,
              StreamsKeepTheirState
<1> QED
  BY <1>1, <1>2, <1>3, <1>4 DEF Next

LEMMA BatchingAlways == Spec => []BatchingInv
  BY BatchingInit, BatchingStep, PTL DEF Spec

-----------------------------------------------------------------------------
(* The theorems. *)

\* The batch never outgrows _max_batch_size and every variable has its type.
THEOREM SchedulerTypes == Spec => []TypeOK
<1>1. BatchingInv => TypeOK
  BY DEF BatchingInv
<1> QED
  BY <1>1, BatchingAlways, PTL

\* A stream's state is its own and has seen exactly the stream's steps, whatever
\* batches they ran in and whatever failed in them.
THEOREM StatesStayApart == Spec => []StreamsKeepTheirState
<1>1. BatchingInv => StreamsKeepTheirState
  BY DEF BatchingInv
<1> QED
  BY <1>1, BatchingAlways, PTL

\* Nothing is queued behind the stop mark of close().
THEOREM StopMarkStaysLast == Spec => []StopIsLast
<1>1. BatchingInv => StopIsLast
  BY SchedulerAssumption DEF BatchingInv, QueueInv, StopIsLast
<1> QED
  BY <1>1, BatchingAlways, PTL

\* A request is answered only by the run of its group.
LEMMA OnlyGroupsAnswer ==
  ASSUME BatchingInv, [Next]_vars, NEW s \in Streams, Answered(s)
  PROVE  s \in Group /\ (GroupSucceeds \/ GroupFails)
<1>1. GroupSucceeds \/ GroupFails
  BY DEF BatchingInv, TypeOK, Answered, Next, Scheduler, vars, Submit, SubmitRefused, Close,
         TakeFirst, CollectNext, CollectStop, StopCollecting
<1>2. s \in Group
  BY <1>1 DEF GroupSucceeds, GroupFails, Answered
<1> QED
  BY <1>1, <1>2

\* A batch has no more unanswered requests than its places.
LEMMA BatchIsBounded ==
  ASSUME BatchingInv
  PROVE  IsFiniteSet(left) /\ Cardinality(left) <= MaxBatch
<1> DEFINE InBatch == {pending[i] : i \in 1..Len(pending)}
           at == [i \in 1..Len(pending) |-> pending[i]]
<1>1. Len(pending) \in Nat /\ Len(pending) <= MaxBatch /\ DOMAIN pending = 1..Len(pending)
  BY DEF BatchingInv, TypeOK
<1>2. IsFiniteSet(1..Len(pending)) /\ Cardinality(1..Len(pending)) = Len(pending)
  <2>1. /\ IsFiniteSet(1..Len(pending))
        /\ Cardinality(1..Len(pending))
             = IF 1 > Len(pending) THEN 0 ELSE Len(pending) - 1 + 1
    <3>1. 1 \in Int /\ Len(pending) \in Int
      BY <1>1
    <3> QED
      BY <3>1, FS_Interval, Zenon
  <2> QED
    BY <1>1, <2>1
<1>3. at \in Surjection(1..Len(pending), InBatch)
  BY DEF Surjection
<1>4. IsFiniteSet(InBatch) /\ Cardinality(InBatch) <= Len(pending)
  BY <1>2, <1>3, FS_Surjection
<1>5. left \subseteq InBatch
  BY <1>1 DEF BatchingInv, BatchInv
<1>6. IsFiniteSet(left) /\ Cardinality(left) <= Cardinality(InBatch)
  BY <1>4, <1>5, FS_Subset
<1>7. Cardinality(left) \in Nat /\ Cardinality(InBatch) \in Nat
  BY <1>4, <1>6, FS_CardinalityType
<1> QED
  BY <1>1, <1>4, <1>6, <1>7, SchedulerAssumption

\* What is answered together is of one key and no more than a batch.
THEOREM AnswersAreBatched == Spec => BatchesAreSound
<1>1. BatchingInv /\ [Next]_vars
        => [ /\ \A s, t \in Streams : Answered(s) /\ Answered(t) => key[s] = key[t]
             /\ Cardinality({s \in Streams : Answered(s)}) <= MaxBatch ]_vars
  <2> SUFFICES ASSUME BatchingInv, [Next]_vars
               PROVE  /\ \A s, t \in Streams : Answered(s) /\ Answered(t) => key[s] = key[t]
                      /\ Cardinality({s \in Streams : Answered(s)}) <= MaxBatch
    OBVIOUS
  <2> DEFINE Now == {s \in Streams : Answered(s)}
  <2>1. Now \subseteq Group /\ Group \subseteq left
    BY OnlyGroupsAnswer, GroupIsOfOneKey
  <2>2. \A s, t \in Now : key[s] = key[t]
    BY <2>1, GroupIsOfOneKey
  <2>3. IsFiniteSet(left) /\ Cardinality(left) <= MaxBatch
    BY BatchIsBounded
  <2>4. IsFiniteSet(Now) /\ Cardinality(Now) <= Cardinality(left)
    BY <2>1, <2>3, FS_Subset
  <2>5. Cardinality(Now) \in Nat /\ Cardinality(left) \in Nat
    BY <2>3, <2>4, FS_CardinalityType
  <2>6. Cardinality(Now) <= MaxBatch
    BY <2>3, <2>4, <2>5, SchedulerAssumption
  <2> QED
    BY <2>2, <2>6
<1> QED
  BY <1>1, BatchingAlways, PTL DEF Spec, BatchesAreSound

\* No request is answered before one of its key that came first.
THEOREM FirstComeFirstServed == Spec => NoOvertaking
<1>1. BatchingInv /\ [Next]_vars
        => [ \A s \in Streams : Answered(s) => \A t \in ahead[s] : Answered(t) ]_vars
  <2> SUFFICES ASSUME BatchingInv, [Next]_vars,
                      NEW s \in Streams, Answered(s), NEW t \in ahead[s]
               PROVE  Answered(t)
    OBVIOUS
  <2>1. s \in Group /\ (GroupSucceeds \/ GroupFails)
    BY OnlyGroupsAnswer
  <2>2. t \in left /\ key[t] = key[s] /\ phase[t] = "waiting" /\ t \in Streams
    BY <2>1, GroupIsOfOneKey DEF BatchingInv, AheadInv, TypeOK
  <2>3. t \in Group
    BY <2>1, <2>2, GroupIsOfOneKey
  <2> QED
    BY <2>1, <2>2, <2>3 DEF Answered, GroupSucceeds, GroupFails
<1> QED
  BY <1>1, BatchingAlways, PTL DEF Spec, NoOvertaking
=============================================================================
