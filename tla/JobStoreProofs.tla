-------------------------- MODULE JobStoreProofs --------------------------
(***************************************************************************)
(* Safety of the job store for any number of jobs, any limits and any      *)
(* number of semaphores: proofs over JobStore.                             *)
(***************************************************************************)
EXTENDS JobStore, FiniteSetTheorems, TLAPS

\* The waiters of a semaphore are tasks that wait on it, each of them once.
WaitersWait ==
  \A s \in Semaphores :
    /\ \A i \in DOMAIN waiters[s] :
         task[waiters[s][i]] = "waiting" /\ semOf[waiters[s][i]] = s
    /\ \A i, k \in DOMAIN waiters[s] : waiters[s][i] = waiters[s][k] => i = k

HoldersHaveSemaphore ==
  \A j \in Jobs : task[j] \in {"waiting", "granted", "executing"} => semOf[j] \in Semaphores

PermitInv == TypeOK /\ RunnerOwnsJob /\ WaitersWait /\ HoldersHaveSemaphore /\ PermitsConserved

\* The holders of a semaphore are finitely many.
LEMMA HoldersFinite == ASSUME NEW s PROVE IsFiniteSet(Holders(s))
  BY JobsAssumption, FS_Subset DEF Holders

\* The unfinished jobs are finitely many.
LEMMA ActiveFinite == IsFiniteSet(Active)
  BY JobsAssumption, FS_Subset DEF Active

\* The initial state: nothing runs and every permit is free.
LEMMA PermitInit == Init => PermitInv
<1> SUFFICES ASSUME Init PROVE PermitInv
  OBVIOUS
<1>1. TypeOK
  BY LimitsAssumption DEF Init, TypeOK, Semaphores
<1>2. RunnerOwnsJob /\ WaitersWait /\ HoldersHaveSemaphore
  BY DEF Init, RunnerOwnsJob, WaitersWait, HoldersHaveSemaphore
<1>3. PermitsConserved
  <2>1. ASSUME NEW s \in Semaphores PROVE value[s] + Cardinality(Holders(s)) = MaxConcurrent
    <3>1. Holders(s) = {}
      BY DEF Init, Holders
    <3> QED
      BY <2>1, <3>1, FS_EmptySet, LimitsAssumption DEF Init
  <2> QED
    BY <2>1 DEF PermitsConserved
<1> QED
  BY <1>1, <1>2, <1>3 DEF PermitInv

-----------------------------------------------------------------------------
(* The steps. *)

\* Submissions, polls and the passage of time touch no task's permit.
LEMMA PermitClient ==
  ASSUME PermitInv,
         \/ \E j \in Jobs : Admit(j) \/ Poll(j) \/ Age(j)
         \/ Reject
  PROVE  PermitInv'
<1> USE DEF PermitInv
<1>1. ASSUME NEW j \in Jobs, Admit(j) PROVE PermitInv'
  <2>1. task[j] # "waiting" /\ task[j] # "granted" /\ task[j] # "executing"
    BY <1>1 DEF Admit, RunnerOwnsJob
  <2>2. TypeOK'
    BY <1>1, LimitsAssumption
    DEF TypeOK, Admit, ConfigureLimits, Semaphores, Purged, ActiveStatuses, TerminalStatuses
  <2>3. RunnerOwnsJob'
    BY <1>1 DEF TypeOK, Admit, RunnerOwnsJob, Purged, Expired, ActiveStatuses, TerminalStatuses
  <2>4. WaitersWait'
    BY <1>1, <2>1 DEF TypeOK, Admit, WaitersWait
  <2>5. HoldersHaveSemaphore'
    BY <1>1 DEF TypeOK, Admit, HoldersHaveSemaphore
  <2>6. ASSUME NEW s \in Semaphores PROVE Holders(s)' = Holders(s)
    BY <1>1, <2>1 DEF TypeOK, Admit, Holders
  <2>7. PermitsConserved'
    BY <1>1, <2>6 DEF Admit, PermitsConserved
  <2> QED
    BY <2>2, <2>3, <2>4, <2>5, <2>7
<1>2. CASE Reject \/ \E j \in Jobs : Poll(j) \/ Age(j)
  <2>1. UNCHANGED <<task, semOf, value, waiters, payload>>
    BY <1>2 DEF Poll, Age, Reject
  <2>2. Expired \subseteq Jobs /\ Expired \subseteq stale
    BY DEF Expired, TypeOK
  <2>3. /\ status' \in {status, Purged}
        /\ stale' \subseteq Jobs
        /\ kept' \subseteq Jobs
    BY <1>2 DEF Reject, Poll, Age, TypeOK
  <2>4. Purged \in [Jobs -> {"none", "gone"} \cup ActiveStatuses \cup TerminalStatuses]
    BY DEF Purged, TypeOK
  <2>5. polled' \in [Jobs -> {"never", "404"} \cup ActiveStatuses \cup TerminalStatuses]
    <3>1. CASE Reject \/ \E j \in Jobs : Age(j)
      BY <3>1 DEF Reject, Age, TypeOK
    <3>2. ASSUME NEW j \in Jobs, Poll(j)
          PROVE  polled' \in [Jobs -> {"never", "404"} \cup ActiveStatuses \cup TerminalStatuses]
      <4>1. Purged[j] \in {"gone"} \cup ActiveStatuses \cup TerminalStatuses
        BY <3>2, <2>4 DEF Poll, Purged, TypeOK
      <4> QED
        BY <4>1, <3>2 DEF Poll, TypeOK
    <3> QED
      BY <1>2, <3>1, <3>2
  <2>6. semaphore' \in Semaphores
    BY <1>2, LimitsAssumption DEF Reject, Poll, Age, ConfigureLimits, TypeOK, Semaphores
  <2>7. TypeOK'
    BY <2>1, <2>3, <2>4, <2>5, <2>6 DEF TypeOK
  <2>8. RunnerOwnsJob'
    BY <2>1, <2>3 DEF RunnerOwnsJob, Purged, Expired, TerminalStatuses
  <2>9. WaitersWait' /\ HoldersHaveSemaphore' /\ PermitsConserved'
    BY <2>1 DEF WaitersWait, HoldersHaveSemaphore, PermitsConserved, Holders
  <2> QED
    BY <2>7, <2>8, <2>9
<1> QED
  BY <1>1, <1>2

\* A task that takes a free permit becomes a holder of its semaphore.
LEMMA PermitAcquire ==
  ASSUME PermitInv, NEW j \in Jobs, Acquire(j)
  PROVE  PermitInv'
<1> USE DEF PermitInv
<1>1. TypeOK'
  BY LimitsAssumption DEF TypeOK, Acquire, EnterRunning, ActiveStatuses, Semaphores
<1>2. RunnerOwnsJob'
  BY DEF TypeOK, Acquire, EnterRunning, RunnerOwnsJob
<1>3. WaitersWait' /\ HoldersHaveSemaphore'
  BY DEF TypeOK, Acquire, EnterRunning, WaitersWait, HoldersHaveSemaphore
<1>4. ASSUME NEW s \in Semaphores PROVE (value[s] + Cardinality(Holders(s)) = MaxConcurrent)'
  <2>1. CASE s = semaphore
    <3>1. Holders(s)' = Holders(s) \cup {j} /\ j \notin Holders(s)
      BY <2>1 DEF TypeOK, Acquire, EnterRunning, Holders
    <3>2. Cardinality(Holders(s))' = Cardinality(Holders(s)) + 1
      BY <3>1, HoldersFinite, FS_AddElement
    <3>3. Cardinality(Holders(s)) \in Nat
      BY HoldersFinite, FS_CardinalityType
    <3>4. value'[s] = value[s] - 1 /\ value[s] \in Nat
      BY <2>1 DEF TypeOK, Acquire
    <3> QED
      BY <3>2, <3>3, <3>4 DEF PermitsConserved
  <2>2. CASE s # semaphore
    <3>1. Holders(s)' = Holders(s)
      BY <2>2 DEF TypeOK, Acquire, EnterRunning, Holders
    <3> QED
      BY <2>2, <3>1 DEF TypeOK, Acquire, PermitsConserved
  <2> QED
    BY <2>1, <2>2
<1> QED
  BY <1>1, <1>2, <1>3, <1>4 DEF PermitsConserved

\* Waiting, resuming after a grant and reporting progress move no permit.
LEMMA PermitWait ==
  ASSUME PermitInv, NEW j \in Jobs, Wait(j) \/ Resume(j) \/ Progress(j)
  PROVE  PermitInv'
<1> USE DEF PermitInv
<1>1. CASE Wait(j)
  <2>1. TypeOK'
    BY <1>1 DEF TypeOK, Wait, Semaphores
  <2>2. RunnerOwnsJob' /\ HoldersHaveSemaphore'
    BY <1>1 DEF TypeOK, Wait, RunnerOwnsJob, HoldersHaveSemaphore
  <2>3. WaitersWait'
    BY <1>1 DEF TypeOK, Wait, WaitersWait
  <2>4. ASSUME NEW s \in Semaphores PROVE Holders(s)' = Holders(s)
    BY <1>1 DEF TypeOK, Wait, Holders
  <2> QED
    BY <1>1, <2>1, <2>2, <2>3, <2>4 DEF Wait, PermitsConserved
<1>2. CASE Resume(j) \/ Progress(j)
  <2>1. TypeOK'
    BY <1>2 DEF TypeOK, Resume, Progress, EnterRunning, ActiveStatuses
  <2>2. RunnerOwnsJob' /\ HoldersHaveSemaphore'
    BY <1>2
    DEF TypeOK, Resume, Progress, EnterRunning, RunnerOwnsJob, HoldersHaveSemaphore
  <2>4. WaitersWait'
    <3>1. UNCHANGED <<waiters, semOf>>
      BY <1>2 DEF Resume, Progress
    <3>2. \A k \in Jobs : task[k] = "waiting" => task'[k] = "waiting"
      BY <1>2 DEF TypeOK, Resume, Progress, EnterRunning
    <3>3. \A s \in Semaphores : \A i \in DOMAIN waiters[s] : waiters[s][i] \in Jobs
      BY DEF TypeOK
    <3> QED
      BY <3>1, <3>2, <3>3 DEF WaitersWait
  <2>3. ASSUME NEW s \in Semaphores PROVE Holders(s)' = Holders(s)
    BY <1>2 DEF TypeOK, Resume, Progress, EnterRunning, Holders
  <2> QED
    BY <1>2, <2>1, <2>2, <2>3, <2>4 DEF Resume, Progress, PermitsConserved
<1> QED
  BY <1>1, <1>2

\* A task that ends frees its permit, or hands it to the first waiter.
LEMMA PermitFinish ==
  ASSUME PermitInv, NEW j \in Jobs, NEW outcome \in TerminalStatuses, Finish(j, outcome)
  PROVE  PermitInv'
<1> USE DEF PermitInv
<1> DEFINE s0 == semOf[j]
           w == Head(waiters[s0])
<1>1. s0 \in Semaphores /\ j \in Holders(s0)
  BY DEF Finish, HoldersHaveSemaphore, Holders
<1>2. \A s \in Semaphores : Cardinality(Holders(s)) \in Nat
  BY HoldersFinite, FS_CardinalityType
<1>3. \A s \in Semaphores : value[s] \in Nat /\ value[s] + Cardinality(Holders(s)) = MaxConcurrent
  BY LimitsAssumption DEF TypeOK, PermitsConserved
<1>4. Cardinality(Holders(s0)) > 0
  BY <1>1, <1>2, HoldersFinite, FS_EmptySet
<1>5. CASE waiters[s0] = <<>>
  <2>1. /\ value' = [value EXCEPT ![s0] = @ + 1]
        /\ task' = [task EXCEPT ![j] = "ended"]
        /\ UNCHANGED <<waiters, semOf, semaphore, polled>>
        /\ status' = [status EXCEPT ![j] = outcome]
        /\ stale' = stale \ {j} /\ payload' = payload \ {j} /\ kept' = kept \cup {j}
    BY <1>5 DEF Finish, Release
  <2>2. TypeOK'
    BY <1>1, <1>2, <1>3, <1>4, <2>1, LimitsAssumption DEF TypeOK
  <2>3. RunnerOwnsJob' /\ WaitersWait' /\ HoldersHaveSemaphore'
    BY <2>1 DEF TypeOK, Finish, RunnerOwnsJob, WaitersWait, HoldersHaveSemaphore, TerminalStatuses
  <2>4. Holders(s0)' = Holders(s0) \ {j}
    BY <2>1 DEF TypeOK, Holders
  <2>5. Cardinality(Holders(s0)') = Cardinality(Holders(s0)) - 1
    BY <1>1, <2>4, HoldersFinite, FS_RemoveElement
  <2>6. \A s \in Semaphores \ {s0} : Holders(s)' = Holders(s) /\ value'[s] = value[s]
    BY <1>1, <2>1 DEF TypeOK, Holders
  <2>7. value'[s0] = value[s0] + 1
    BY <1>1, <2>1 DEF TypeOK
  <2>8. PermitsConserved'
    <3>1. (value[s0] + Cardinality(Holders(s0)) = MaxConcurrent)'
      BY <1>1, <1>2, <1>3, <2>1, <2>5, <2>7
    <3>2. \A s \in Semaphores \ {s0} : (value[s] + Cardinality(Holders(s)) = MaxConcurrent)'
      BY <1>3, <2>6
    <3> QED
      BY <2>1, <3>1, <3>2 DEF PermitsConserved
  <2> QED
    BY <2>2, <2>3, <2>8
<1>6. CASE waiters[s0] # <<>>
  <2>1. /\ UNCHANGED <<value, semOf, semaphore, polled>>
        /\ task' = [[task EXCEPT ![j] = "ended"] EXCEPT ![w] = "granted"]
        /\ waiters' = [waiters EXCEPT ![s0] = Tail(@)]
        /\ status' = [status EXCEPT ![j] = outcome]
        /\ stale' = stale \ {j} /\ payload' = payload \ {j} /\ kept' = kept \cup {j}
    BY <1>6 DEF Finish, Release
  <2>2. waiters[s0] \in Seq(Jobs) /\ 1 \in DOMAIN waiters[s0] /\ w = waiters[s0][1]
    BY <1>1, <1>6 DEF TypeOK
  <2>3. w \in Jobs /\ task[w] = "waiting" /\ semOf[w] = s0 /\ w # j
    BY <1>1, <2>2 DEF WaitersWait, Finish, TypeOK
  <2>4. TypeOK'
    <3>1. Tail(waiters[s0]) \in Seq(Jobs)
      BY <1>6, <2>2
    <3>2. waiters' \in [Semaphores -> Seq(Jobs)]
      BY <2>1, <3>1 DEF TypeOK
    <3>3. task' \in [Jobs -> {"none", "created", "waiting", "granted", "executing", "ended"}]
      BY <2>1, <2>3 DEF TypeOK
    <3> QED
      BY <2>1, <3>2, <3>3 DEF TypeOK
  <2>5. RunnerOwnsJob' /\ HoldersHaveSemaphore'
    BY <1>1, <2>1, <2>3
    DEF TypeOK, Finish, RunnerOwnsJob, HoldersHaveSemaphore, TerminalStatuses
  <2>6. WaitersWait'
    <3>1. ASSUME NEW s \in Semaphores, s # s0, NEW i \in DOMAIN waiters[s]
          PROVE  waiters[s][i] # w /\ waiters[s][i] # j
      BY <3>1, <2>3 DEF WaitersWait, Finish
    <3>2. ASSUME NEW s \in Semaphores, s # s0
          PROVE  waiters'[s] = waiters[s]
                 /\ \A i \in DOMAIN waiters[s] : task'[waiters[s][i]] = task[waiters[s][i]]
      BY <3>2, <3>1, <2>1 DEF TypeOK
    <3>3. ASSUME NEW i \in DOMAIN waiters'[s0]
          PROVE  /\ i + 1 \in DOMAIN waiters[s0]
                 /\ waiters'[s0][i] = waiters[s0][i + 1]
      BY <3>3, <1>1, <1>6, <2>1, <2>2 DEF TypeOK
    <3>4. ASSUME NEW i \in DOMAIN waiters'[s0] PROVE i \in Nat \ {0}
      BY <3>4, <1>1, <1>6, <2>1, <2>2 DEF TypeOK
    <3>5. ASSUME NEW i \in DOMAIN waiters'[s0]
          PROVE  waiters'[s0][i] # w /\ waiters'[s0][i] # j
      BY <3>3, <3>4, <1>1, <2>2 DEF WaitersWait, Finish
    <3>6. ASSUME NEW i \in DOMAIN waiters'[s0]
          PROVE  task'[waiters'[s0][i]] = "waiting" /\ semOf'[waiters'[s0][i]] = s0
      <4>1. task[waiters'[s0][i]] = "waiting" /\ semOf[waiters'[s0][i]] = s0
        BY <3>3, <1>1 DEF WaitersWait
      <4>2. waiters'[s0][i] \in Jobs
        BY <3>3, <1>1 DEF TypeOK
      <4> QED
        BY <4>1, <4>2, <3>5, <2>1 DEF TypeOK
    <3>7. ASSUME NEW i \in DOMAIN waiters'[s0], NEW k \in DOMAIN waiters'[s0],
                 waiters'[s0][i] = waiters'[s0][k]
          PROVE  i = k
      <4>1. i + 1 = k + 1
        BY <3>3, <3>7, <1>1 DEF WaitersWait
      <4> QED
        BY <4>1, <3>4
    <3> QED
      <4>1. \A i \in DOMAIN waiters'[s0] :
              task'[waiters'[s0][i]] = "waiting" /\ semOf'[waiters'[s0][i]] = s0
        BY <3>6
      <4>2. \A i, k \in DOMAIN waiters'[s0] : waiters'[s0][i] = waiters'[s0][k] => i = k
        BY <3>7
      <4>3. ASSUME NEW s \in Semaphores, s # s0
            PROVE  /\ \A i \in DOMAIN waiters'[s] :
                        task'[waiters'[s][i]] = "waiting" /\ semOf'[waiters'[s][i]] = s
                   /\ \A i, k \in DOMAIN waiters'[s] : waiters'[s][i] = waiters'[s][k] => i = k
        <5>1. waiters'[s] = waiters[s] /\ semOf' = semOf
          BY <4>3, <3>2, <2>1
        <5>2. \A i \in DOMAIN waiters[s] :
                task'[waiters[s][i]] = "waiting" /\ semOf[waiters[s][i]] = s
          BY <4>3, <3>2 DEF WaitersWait
        <5>3. \A i, k \in DOMAIN waiters[s] : waiters[s][i] = waiters[s][k] => i = k
          BY DEF WaitersWait
        <5> QED
          BY <5>1, <5>2, <5>3
      <4>4. ASSUME NEW s \in Semaphores
            PROVE  /\ \A i \in DOMAIN waiters'[s] :
                        task'[waiters'[s][i]] = "waiting" /\ semOf'[waiters'[s][i]] = s
                   /\ \A i, k \in DOMAIN waiters'[s] : waiters'[s][i] = waiters'[s][k] => i = k
        BY <4>1, <4>2, <4>3
      <4> QED
        BY <4>4 DEF WaitersWait
  <2>7. Holders(s0)' = (Holders(s0) \ {j}) \cup {w} /\ w \notin Holders(s0) \ {j}
    BY <1>1, <2>1, <2>3 DEF TypeOK, Holders
  <2>8. Cardinality(Holders(s0)') = Cardinality(Holders(s0))
    <3>1. /\ IsFiniteSet(Holders(s0) \ {j})
          /\ Cardinality(Holders(s0) \ {j}) = Cardinality(Holders(s0)) - 1
      BY <1>1, HoldersFinite, FS_RemoveElement
    <3>2. Cardinality((Holders(s0) \ {j}) \cup {w}) = Cardinality(Holders(s0) \ {j}) + 1
      BY <2>7, <3>1, FS_AddElement
    <3> QED
      BY <1>1, <1>2, <2>7, <3>1, <3>2
  <2>9. \A s \in Semaphores \ {s0} : Holders(s)' = Holders(s)
    BY <1>1, <2>1, <2>3 DEF TypeOK, Holders
  <2>10. PermitsConserved'
    BY <1>1, <2>1, <2>8, <2>9 DEF PermitsConserved
  <2> QED
    BY <2>4, <2>5, <2>6, <2>10
<1> QED
  BY <1>5, <1>6

\* Every step conserves the permits.
LEMMA PermitStep == PermitInv /\ [Next]_vars => PermitInv'
<1> SUFFICES ASSUME PermitInv, [Next]_vars PROVE PermitInv'
  OBVIOUS
<1>1. CASE UNCHANGED vars
  BY <1>1
  DEF vars, PermitInv, TypeOK, RunnerOwnsJob, WaitersWait, HoldersHaveSemaphore,
      PermitsConserved, Holders
<1>2. CASE Next
  BY <1>2, PermitClient, PermitAcquire, PermitWait, PermitFinish DEF Next, Runner
<1> QED
  BY <1>1, <1>2

\* The permits are conserved in every reachable state.
LEMMA PermitAlways == Spec => []PermitInv
  BY PermitInit, PermitStep, PTL DEF Spec

\* For every number of jobs and every limit, the store's state is well formed.
THEOREM TypeCorrect == Spec => []TypeOK
<1>1. PermitInv => TypeOK
  BY DEF PermitInv
<1> QED
  BY <1>1, PermitAlways, PTL

\* The permits of every semaphore, current or replaced, are conserved.
THEOREM PermitsAreConserved == Spec => []PermitsConserved
<1>1. PermitInv => PermitsConserved
  BY DEF PermitInv
<1> QED
  BY <1>1, PermitAlways, PTL

\* No purge and no submission takes a job away from its runner task.
THEOREM RunnersOwnTheirJobs == Spec => []RunnerOwnsJob
<1>1. PermitInv => RunnerOwnsJob
  BY DEF PermitInv
<1> QED
  BY <1>1, PermitAlways, PTL

-----------------------------------------------------------------------------
(* The admission cap. *)

BoundInv == PermitInv /\ ActiveBound

\* Every step keeps the unfinished jobs within the queue's cap.
LEMMA BoundStep == BoundInv /\ [Next]_vars => BoundInv'
<1> SUFFICES ASSUME BoundInv, [Next]_vars PROVE ActiveBound'
  BY PermitStep DEF BoundInv
<1> USE DEF BoundInv
<1>0. Cardinality(Active) \in Nat
  BY ActiveFinite, FS_CardinalityType
<1>1. ASSUME NEW j \in Jobs, Admit(j) PROVE ActiveBound'
  <2>1. Active' = Active \cup {j}
    BY <1>1 DEF PermitInv, TypeOK, Active, Admit, Purged, Expired, ActiveStatuses, TerminalStatuses
  <2>2. Cardinality(Active \cup {j}) <= Cardinality(Active) + 1 /\ IsFiniteSet(Active \cup {j})
    BY <1>0, ActiveFinite, FS_AddElement
  <2>3. Cardinality(Active) < QueueMax
    BY <1>1 DEF Admit, QueueHasRoom
  <2>4. Cardinality(Active \cup {j}) \in Nat
    BY <2>2, FS_CardinalityType
  <2> QED
    BY <1>0, <2>1, <2>2, <2>3, <2>4, LimitsAssumption DEF ActiveBound
<1>2. CASE ~ \E j \in Jobs : Admit(j)
  <2>1. ASSUME NEW j \in Jobs, status'[j] \in ActiveStatuses PROVE status[j] \in ActiveStatuses
    <3>1. CASE UNCHANGED vars
      BY <2>1, <3>1 DEF vars
    <3>2. CASE Reject \/ \E k \in Jobs : Poll(k) \/ Age(k) \/ Progress(k) \/ Wait(k)
      BY <2>1, <3>2
      DEF Reject, Poll, Age, Progress, Wait, Purged, Expired, ActiveStatuses, TerminalStatuses
    <3>3. ASSUME NEW k \in Jobs, Acquire(k) \/ Resume(k) PROVE status[j] \in ActiveStatuses
      <4>1. status[k] = "queued" /\ status' = [status EXCEPT ![k] = "running"]
        BY <3>3 DEF Acquire, Resume, EnterRunning, PermitInv, RunnerOwnsJob
      <4> QED
        BY <2>1, <4>1 DEF PermitInv, TypeOK, ActiveStatuses
    <3>4. ASSUME NEW k \in Jobs, NEW o \in TerminalStatuses, Finish(k, o)
          PROVE  status[j] \in ActiveStatuses
      BY <2>1, <3>4 DEF Finish, PermitInv, TypeOK, ActiveStatuses, TerminalStatuses
    <3> QED
      BY <1>2, <3>1, <3>2, <3>3, <3>4 DEF Next, Runner
  <2>2. Active' \subseteq Active
    BY <2>1 DEF Active
  <2>3. Cardinality(Active') <= Cardinality(Active) /\ IsFiniteSet(Active')
    BY <2>2, ActiveFinite, FS_Subset
  <2>4. Cardinality(Active') \in Nat
    BY <2>3, FS_CardinalityType
  <2> QED
    BY <1>0, <2>3, <2>4, LimitsAssumption DEF ActiveBound
<1> QED
  BY <1>1, <1>2

\* The queue's cap holds in every reachable state.
LEMMA BoundAlways == Spec => []BoundInv
<1>1. Init => BoundInv
  <2>1. Init => Active = {}
    BY DEF Init, Active, ActiveStatuses
  <2> QED
    BY <2>1, PermitInit, FS_EmptySet, LimitsAssumption DEF BoundInv, ActiveBound
<1> QED
  BY <1>1, BoundStep, PTL DEF Spec

\* The store never holds more than queue_max unfinished jobs.
THEOREM AdmissionIsBounded == Spec => []ActiveBound
<1>1. BoundInv => ActiveBound
  BY DEF BoundInv
<1> QED
  BY <1>1, BoundAlways, PTL

-----------------------------------------------------------------------------
(* Payloads, results and what clients see. *)

StatusRank(st) ==
  CASE st = "none" -> 0 [] st = "queued" -> 1 [] st = "running" -> 2
    [] st \in TerminalStatuses -> 3 [] st = "gone" -> 4

\* The last poll never saw more than what is true now, and a terminal status
\* that was seen is the job's status until it is purged.
PolledIsPast ==
  \A j \in Jobs :
    /\ Rank(polled[j]) <= StatusRank(status[j])
    /\ polled[j] \in TerminalStatuses => status[j] \in {polled[j], "gone"}

ClientInv ==
  PermitInv /\ PayloadOnlyWhileActive /\ ResultKept /\ kept \cap stale = {} /\ PolledIsPast

\* Every step keeps what clients see and what the store keeps for them.
LEMMA ClientStep == ClientInv /\ [Next]_vars => ClientInv'
<1> SUFFICES ASSUME ClientInv, [Next]_vars
             PROVE  /\ PayloadOnlyWhileActive'
                    /\ ResultKept'
                    /\ (kept \cap stale)' = {}
                    /\ PolledIsPast'
  BY PermitStep DEF ClientInv
<1> USE DEF ClientInv
<1>1. TypeOK /\ RunnerOwnsJob
  BY DEF PermitInv
<1>2. CASE UNCHANGED vars
  BY <1>2 DEF vars, PayloadOnlyWhileActive, ResultKept, PolledIsPast, Active, Terminal
<1>3. ASSUME NEW j \in Jobs, Admit(j)
      PROVE  PayloadOnlyWhileActive' /\ ResultKept' /\ (kept \cap stale)' = {} /\ PolledIsPast'
  <2>1. PayloadOnlyWhileActive'
    BY <1>1, <1>3
    DEF Admit, TypeOK, PayloadOnlyWhileActive, Active, Purged, Expired, ActiveStatuses, TerminalStatuses
  <2>2. ResultKept' /\ (kept \cap stale)' = {}
    BY <1>1, <1>3
    DEF Admit, TypeOK, ResultKept, Terminal, Purged, Expired, TerminalStatuses
  <2>3. PolledIsPast'
    BY <1>1, <1>3
    DEF Admit, TypeOK, PolledIsPast, Purged, Expired, Rank, StatusRank, ActiveStatuses, TerminalStatuses
  <2> QED
    BY <2>1, <2>2, <2>3
<1>4. CASE Reject
  BY <1>1, <1>4
  DEF Reject, TypeOK, PayloadOnlyWhileActive, ResultKept, PolledIsPast, Active, Terminal,
      Purged, Expired, Rank, StatusRank, ActiveStatuses, TerminalStatuses
<1>5. ASSUME NEW j \in Jobs, Poll(j)
      PROVE  PayloadOnlyWhileActive' /\ ResultKept' /\ (kept \cap stale)' = {} /\ PolledIsPast'
  <2>1. PayloadOnlyWhileActive' /\ ResultKept' /\ (kept \cap stale)' = {}
    BY <1>1, <1>5
    DEF Poll, TypeOK, PayloadOnlyWhileActive, ResultKept, Active, Terminal,
        Purged, Expired, ActiveStatuses, TerminalStatuses
  <2>2. PolledIsPast'
    BY <1>1, <1>5
    DEF Poll, TypeOK, PolledIsPast, Purged, Expired, Rank, StatusRank, ActiveStatuses, TerminalStatuses
  <2> QED
    BY <2>1, <2>2
<1>6. ASSUME NEW j \in Jobs, Age(j)
      PROVE  PayloadOnlyWhileActive' /\ ResultKept' /\ (kept \cap stale)' = {} /\ PolledIsPast'
  BY <1>6 DEF Age, PayloadOnlyWhileActive, ResultKept, PolledIsPast, Active, Terminal
<1>7. ASSUME NEW j \in Jobs, Progress(j) \/ Wait(j)
      PROVE  PayloadOnlyWhileActive' /\ ResultKept' /\ (kept \cap stale)' = {} /\ PolledIsPast'
  BY <1>7 DEF Progress, Wait, PayloadOnlyWhileActive, ResultKept, PolledIsPast, Active, Terminal
<1>8. ASSUME NEW j \in Jobs, Acquire(j) \/ Resume(j)
      PROVE  PayloadOnlyWhileActive' /\ ResultKept' /\ (kept \cap stale)' = {} /\ PolledIsPast'
  <2>1. /\ status[j] = "queued" /\ status' = [status EXCEPT ![j] = "running"]
        /\ stale' = stale \ {j} /\ UNCHANGED <<payload, polled, kept>>
    BY <1>1, <1>8 DEF Acquire, Resume, EnterRunning, RunnerOwnsJob
  <2> QED
    BY <1>1, <2>1
    DEF TypeOK, PayloadOnlyWhileActive, ResultKept, PolledIsPast, Active, Terminal,
        Rank, StatusRank, ActiveStatuses, TerminalStatuses
<1>9. ASSUME NEW j \in Jobs, NEW o \in TerminalStatuses, Finish(j, o)
      PROVE  PayloadOnlyWhileActive' /\ ResultKept' /\ (kept \cap stale)' = {} /\ PolledIsPast'
  <2>1. /\ status[j] = "running" /\ status' = [status EXCEPT ![j] = o]
        /\ stale' = stale \ {j} /\ payload' = payload \ {j} /\ kept' = kept \cup {j}
        /\ UNCHANGED polled
    BY <1>1, <1>9 DEF Finish, RunnerOwnsJob
  <2> QED
    BY <1>1, <2>1
    DEF TypeOK, PayloadOnlyWhileActive, ResultKept, PolledIsPast, Active, Terminal,
        Rank, StatusRank, ActiveStatuses, TerminalStatuses
<1> QED
  BY <1>2, <1>3, <1>4, <1>5, <1>6, <1>7, <1>8, <1>9 DEF Next, Runner

\* What clients see is kept in every reachable state.
LEMMA ClientAlways == Spec => []ClientInv
<1>1. Init => ClientInv
  BY PermitInit
  DEF Init, ClientInv, PayloadOnlyWhileActive, ResultKept, PolledIsPast, Rank, StatusRank, TerminalStatuses
<1> QED
  BY <1>1, ClientStep, PTL DEF Spec

\* No finished or purged job pins its recording in memory.
THEOREM PayloadsAreReleased == Spec => []PayloadOnlyWhileActive
<1>1. ClientInv => PayloadOnlyWhileActive
  BY DEF ClientInv
<1> QED
  BY <1>1, ClientAlways, PTL

\* A result is never purged before one TTL has passed since the job ended.
THEOREM ResultsAreKept == Spec => []ResultKept
<1>1. ClientInv => ResultKept
  BY DEF ClientInv
<1> QED
  BY <1>1, ClientAlways, PTL

\* The answers to successive polls of a job only move forward.
THEOREM PollingMovesForward == Spec => PollsMoveForward
<1>1. ClientInv /\ [Next]_vars
        => [\A j \in Jobs : polled'[j] # polled[j] => Rank(polled'[j]) > Rank(polled[j])]_polled
  <2> SUFFICES ASSUME ClientInv, [Next]_vars, polled' # polled, NEW j \in Jobs, polled'[j] # polled[j]
               PROVE  Rank(polled'[j]) > Rank(polled[j])
    OBVIOUS
  <2>1. PICK k \in Jobs : Poll(k)
    BY DEF Next, Runner, vars, Admit, Reject, Age, Progress, Acquire, Wait, Resume, Finish
  <2>2. k = j
    BY <2>1 DEF Poll, ClientInv, PermitInv, TypeOK
  <2>3. status[j] \in {"queued", "running", "gone"} \cup TerminalStatuses
    BY <2>1, <2>2 DEF Poll, ClientInv, PermitInv, TypeOK, ActiveStatuses
  <2>4. polled'[j] = IF Purged[j] = "gone" THEN "404" ELSE Purged[j]
    BY <2>1, <2>2 DEF Poll, ClientInv, PermitInv, TypeOK
  <2> QED
    BY <2>3, <2>4
    DEF ClientInv, PolledIsPast, PermitInv, TypeOK, Purged, Expired, Rank, StatusRank,
        ActiveStatuses, TerminalStatuses
<1> QED
  BY <1>1, ClientAlways, PTL DEF Spec, PollsMoveForward

-----------------------------------------------------------------------------
(* The concurrency limit, for a store that is configured once. *)

OneSemaphore ==
  /\ semaphore = 1
  /\ \A j \in Jobs : task[j] \in {"waiting", "granted", "executing"} => semOf[j] = 1

\* Without reconfiguration every task uses the first semaphore.
LEMMA OneSemaphoreStep ==
  ~Reconfigures /\ PermitInv /\ OneSemaphore /\ [Next]_vars => OneSemaphore'
<1> SUFFICES ASSUME ~Reconfigures, PermitInv, OneSemaphore, [Next]_vars PROVE OneSemaphore'
  OBVIOUS
<1>1. TypeOK
  BY DEF PermitInv
<1>2. CASE Reject \/ UNCHANGED vars
  BY <1>2 DEF Reject, ConfigureLimits, vars, OneSemaphore
<1>3. ASSUME NEW j \in Jobs, Admit(j) \/ Poll(j) \/ Age(j) \/ Progress(j) PROVE OneSemaphore'
  BY <1>1, <1>3 DEF TypeOK, Admit, Poll, Age, Progress, ConfigureLimits, OneSemaphore
<1>4. ASSUME NEW j \in Jobs, Acquire(j) \/ Wait(j) \/ Resume(j) PROVE OneSemaphore'
  BY <1>1, <1>4 DEF TypeOK, Acquire, Wait, Resume, EnterRunning, OneSemaphore
<1>5. ASSUME NEW j \in Jobs, NEW o \in TerminalStatuses, Finish(j, o) PROVE OneSemaphore'
  <2>1. semOf[j] = 1 /\ 1 \in Semaphores
    BY <1>5, LimitsAssumption DEF Finish, OneSemaphore, Semaphores
  <2>2. CASE waiters[1] = <<>>
    <3>1. task' = [task EXCEPT ![j] = "ended"] /\ UNCHANGED <<semOf, semaphore>>
      BY <1>5, <2>1, <2>2 DEF Finish, Release
    <3> QED
      BY <1>1, <3>1 DEF TypeOK, OneSemaphore
  <2>3. CASE waiters[1] # <<>>
    <3>1. /\ task' = [[task EXCEPT ![j] = "ended"] EXCEPT ![Head(waiters[1])] = "granted"]
          /\ UNCHANGED <<semOf, semaphore>>
      BY <1>5, <2>1, <2>3 DEF Finish, Release
    <3>2. 1 \in DOMAIN waiters[1] /\ Head(waiters[1]) = waiters[1][1]
      BY <1>1, <2>1, <2>3 DEF TypeOK
    <3>3. semOf[Head(waiters[1])] = 1
      BY <2>1, <3>2 DEF PermitInv, WaitersWait
    <3> QED
      BY <1>1, <3>1, <3>3 DEF TypeOK, OneSemaphore
  <2> QED
    BY <2>2, <2>3
<1> QED
  BY <1>2, <1>3, <1>4, <1>5 DEF Next, Runner

\* Configured once, the store runs at most max_concurrent jobs at a time.  The
\* hypothesis is needed: the endpoints reconfigure the store with each request.
THEOREM ConcurrencyIsBounded == ~Reconfigures => (Spec => []RunningBound)
<1> SUFFICES ASSUME ~Reconfigures PROVE Spec => []RunningBound
  OBVIOUS
<1>1. Init => OneSemaphore
  BY DEF Init, OneSemaphore
<1>2. PermitInv /\ OneSemaphore /\ [Next]_vars => OneSemaphore'
  BY OneSemaphoreStep
<1>3. PermitInv /\ OneSemaphore => RunningBound
  <2> SUFFICES ASSUME PermitInv, OneSemaphore PROVE RunningBound
    OBVIOUS
  <2> DEFINE Running == {j \in Jobs : status[j] = "running"}
  <2>1. Running \subseteq Holders(1)
    BY DEF PermitInv, RunnerOwnsJob, OneSemaphore, Holders
  <2>2. Cardinality(Running) <= Cardinality(Holders(1)) /\ IsFiniteSet(Running)
    BY <2>1, HoldersFinite, FS_Subset
  <2>3. Cardinality(Running) \in Nat /\ Cardinality(Holders(1)) \in Nat
    BY <2>2, HoldersFinite, FS_CardinalityType
  <2>4. 1 \in Semaphores
    BY LimitsAssumption DEF Semaphores
  <2>5. value[1] + Cardinality(Holders(1)) = MaxConcurrent /\ value[1] \in Nat
    BY <2>4, LimitsAssumption DEF PermitInv, PermitsConserved, TypeOK
  <2> QED
    BY <2>2, <2>3, <2>5, LimitsAssumption DEF RunningBound
<1> QED
  BY <1>1, <1>2, <1>3, PermitAlways, PTL DEF Spec

-----------------------------------------------------------------------------
(* The store implements the lifecycle it promises. *)

\* Every step of the store is a step of the lifecycle, or changes no phase.
LEMMA LifecycleStep == BoundInv /\ [Next]_vars => [Lifecycle!Next]_phase
<1> SUFFICES ASSUME BoundInv, [Next]_vars PROVE [Lifecycle!Next]_phase
  OBVIOUS
<1>1. TypeOK /\ RunnerOwnsJob
  BY DEF BoundInv, PermitInv
<1>2. Expired \subseteq Lifecycle!Over
  BY <1>1 DEF Lifecycle!Over, TypeOK, Expired, TerminalStatuses, phase, PhaseOf
<1>3. Active = Lifecycle!Unfinished
  BY <1>1 DEF Active, Lifecycle!Unfinished, TypeOK, ActiveStatuses, TerminalStatuses, phase, PhaseOf
<1>4. ASSUME status' = Purged PROVE phase' = Lifecycle!Forget(Expired)
  BY <1>1, <1>4 DEF phase, PhaseOf, Purged, Expired, Lifecycle!Forget, TypeOK
<1>5. ASSUME NEW j \in Jobs, Admit(j) PROVE Lifecycle!Next
  <2>0. phase[j] = "new"
    BY <1>5 DEF Admit, phase, PhaseOf
  <2>1. Lifecycle!Unfinished \cup {j} \in {S \in SUBSET Jobs : Cardinality(S) <= QueueMax}
    <3>1. Cardinality(Active) \in Nat /\ Cardinality(Active) < QueueMax
      BY <1>5, ActiveFinite, FS_CardinalityType DEF Admit, QueueHasRoom
    <3>2. Cardinality(Active \cup {j}) <= QueueMax
      BY <3>1, ActiveFinite, FS_AddElement, LimitsAssumption
    <3> QED
      BY <1>3, <3>2 DEF Active
  <2>2. phase' = [Lifecycle!Forget(Expired) EXCEPT ![j] = "waiting"]
    BY <1>1, <1>5 DEF Admit, phase, PhaseOf, Purged, Expired, Lifecycle!Forget, TypeOK
  <2>3. Lifecycle!Accept(j, Expired)
    BY <2>0, <2>1, <2>2 DEF Lifecycle!Accept
  <2> QED
    BY <1>2, <2>3 DEF Lifecycle!Next
<1>6. CASE Reject \/ \E j \in Jobs : Poll(j)
  <2>1. status' = Purged
    BY <1>6 DEF Reject, Poll
  <2> QED
    BY <1>2, <1>4, <2>1 DEF Lifecycle!Next
<1>7. ASSUME NEW j \in Jobs, Age(j) \/ Progress(j) \/ Wait(j) PROVE UNCHANGED phase
  BY <1>7 DEF Age, Progress, Wait, phase
<1>8. ASSUME NEW j \in Jobs, Acquire(j) \/ Resume(j) PROVE Lifecycle!Next
  <2>1. status[j] = "queued" /\ status' = [status EXCEPT ![j] = "running"]
    BY <1>1, <1>8 DEF Acquire, Resume, EnterRunning, RunnerOwnsJob
  <2>2. phase[j] = "waiting" /\ phase' = [phase EXCEPT ![j] = "working"]
    <3>1. \A k \in Jobs : phase[k] = PhaseOf[status[k]] /\ phase'[k] = PhaseOf[status'[k]]
      BY DEF phase
    <3>2. status'[j] = "running" /\ \A k \in Jobs \ {j} : status'[k] = status[k]
      BY <1>1, <2>1 DEF TypeOK
    <3>3. phase[j] = "waiting" /\ phase'[j] = "working"
      BY <2>1, <3>1, <3>2 DEF PhaseOf
    <3>4. \A k \in Jobs \ {j} : phase'[k] = phase[k]
      BY <3>1, <3>2
    <3> QED
      BY <3>3, <3>4 DEF phase
  <2>3. Lifecycle!Begin(j)
    BY <2>2 DEF Lifecycle!Begin
  <2> QED
    BY <2>3 DEF Lifecycle!Next
<1>9. ASSUME NEW j \in Jobs, NEW o \in TerminalStatuses, Finish(j, o) PROVE Lifecycle!Next
  <2>1. status[j] = "running" /\ status' = [status EXCEPT ![j] = o]
    BY <1>1, <1>9 DEF Finish, RunnerOwnsJob
  <2>2. phase[j] = "working" /\ phase' = [phase EXCEPT ![j] = "over"]
    <3>1. \A k \in Jobs : phase[k] = PhaseOf[status[k]] /\ phase'[k] = PhaseOf[status'[k]]
      BY DEF phase
    <3>2. status'[j] = o /\ \A k \in Jobs \ {j} : status'[k] = status[k]
      BY <1>1, <2>1 DEF TypeOK
    <3>3. phase[j] = "working" /\ phase'[j] = "over"
      BY <2>1, <3>1, <3>2 DEF PhaseOf, TerminalStatuses
    <3>4. \A k \in Jobs \ {j} : phase'[k] = phase[k]
      BY <3>1, <3>2
    <3> QED
      BY <3>3, <3>4 DEF phase
  <2>3. Lifecycle!End(j)
    BY <2>2 DEF Lifecycle!End
  <2> QED
    BY <2>3 DEF Lifecycle!Next
<1>10. CASE UNCHANGED vars
  BY <1>10 DEF vars, phase
<1> QED
  BY <1>5, <1>6, <1>7, <1>8, <1>9, <1>10 DEF Next, Runner

\* Every behaviour of the store is one of the abstract lifecycle.
THEOREM StoreImplementsLifecycle == Spec => ImplementsLifecycle
<1>1. Init => Lifecycle!Init
  BY DEF Init, Lifecycle!Init, phase, PhaseOf
<1> QED
  BY <1>1, LifecycleStep, BoundAlways, PTL DEF Spec, ImplementsLifecycle, Lifecycle!Spec
=============================================================================
