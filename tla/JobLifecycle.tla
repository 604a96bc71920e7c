---------------------------- MODULE JobLifecycle ----------------------------
(***************************************************************************)
(* What the job store promises the clients of its REST endpoints, without  *)
(* semaphores, tasks or clocks: a job is accepted only if the unfinished   *)
(* jobs then make a permitted load, is worked on once, ends once, and is   *)
(* forgotten only after it ended.  JobStore implements it.                 *)
(***************************************************************************)
CONSTANTS Jobs, Loads   \* Loads: the sets of jobs that may be unfinished at once

VARIABLE phase

Unfinished == {j \in Jobs : phase[j] \in {"waiting", "working"}}

Init == phase = [j \in Jobs |-> "new"]

Forget(S) == [j \in Jobs |-> IF j \in S THEN "forgotten" ELSE phase[j]]

Over == {j \in Jobs : phase[j] = "over"}

\* Accepting a job, or answering a poll, may forget finished ones.
Accept(j, S) ==
  /\ phase[j] = "new"
  /\ Unfinished \cup {j} \in Loads
  /\ phase' = [Forget(S) EXCEPT ![j] = "waiting"]

Begin(j) == phase[j] = "waiting" /\ phase' = [phase EXCEPT ![j] = "working"]

End(j) == phase[j] = "working" /\ phase' = [phase EXCEPT ![j] = "over"]

Next ==
  \/ \E S \in SUBSET Over : \E j \in Jobs : Accept(j, S)
  \/ \E S \in SUBSET Over : phase' = Forget(S)
  \/ \E j \in Jobs : Begin(j) \/ End(j)

Spec == Init /\ [][Next]_phase
=============================================================================
