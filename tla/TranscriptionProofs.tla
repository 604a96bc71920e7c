------------------------- MODULE TranscriptionProofs -------------------------
(***************************************************************************)
(* Theorems about Transcription, for every number of segments and every    *)
(* concurrency: the types, the isolation of failures, the exactness of the *)
(* progress counter, and the completeness of the result; then about a      *)
(* session of CleanStream: its result, what its client is told and sees.   *)
(***************************************************************************)
EXTENDS Transcription, CleanStream, FiniteSetTheorems, WellFoundedInduction, TLAPS

States == {"none", "waiting", "asking", "emotion", "refining", "done"}
Given == [Models -> Replies \cup {"off", "asked"}]
Doings == {"none", "accepted", "failed"}

PhaseTypes ==
    /\ models \subseteq Models
    /\ phase \in {"segmenting", "inferring", "returned", "raised"}
    /\ total \in 0..MaxSegments /\ done \in Nat

EntryTypes ==
    /\ step \in [Entries -> States]
    /\ tries \in [Entries -> 0..2]
    /\ reply \in [Entries -> Given]
    /\ text \in [Entries -> Models \cup {"none"}]
    /\ processed \in [Entries -> Doings]

FlagTypes ==
    /\ refines \in BOOLEAN /\ emotions \in BOOLEAN
    /\ input \in BOOLEAN /\ (input <=> phase = "segmenting")
    /\ error \in [Entries -> BOOLEAN] /\ used \in [Entries -> BOOLEAN]

Types == PhaseTypes /\ EntryTypes /\ FlagTypes

LEMMA TypesImplyTypeOK == Types => TypeOK
  BY DEF Types, PhaseTypes, EntryTypes, FlagTypes, TypeOK, States, Given, Doings

LEMMA InitTypes == Init => Types
<1> SUFFICES ASSUME Init PROVE Types
  OBVIOUS
<1>1. PhaseTypes
  <2>1. models \subseteq Models /\ phase = "segmenting" /\ total = 0 /\ done = 0
    BY Zenon DEF Init, Asked, Models
  <2> QED
    BY <2>1, TranscriptionAssumption DEF PhaseTypes, TranscriptionAssumption
<1>2. EntryTypes
  <2>1. /\ step = [i \in Entries |-> "none"]
        /\ tries = [i \in Entries |-> 0]
        /\ reply = [i \in Entries |-> [m \in Models |-> "off"]]
        /\ text = [i \in Entries |-> "none"]
        /\ processed = [i \in Entries |-> "none"]
    BY Zenon DEF Init
  <2> QED
    BY <2>1 DEF EntryTypes, States, Given, Doings
<1>3. FlagTypes
  BY DEF Init, FlagTypes
<1> QED
  BY <1>1, <1>2, <1>3 DEF Types

\* What a call of the models may leave in the entry of a segment.
LEMMA AskTypes ==
  ASSUME EntryTypes, NEW i \in Entries, Ask(i)
  PROVE  reply' \in [Entries -> Given]
  BY DEF EntryTypes, Ask, Given

LEMMA TextsAreGiven ==
  ASSUME NEW r \in Given
  PROVE  TextsOf(r) \subseteq Models \cup {"none"}
<1>1. Fused(r) \subseteq Models \cup {"none"}
  BY DEF Fused, Preferred, Comparison, Models
<1> QED
  BY <1>1 DEF TextsOf, Answered

\* The counter moves with the step of the entry.
LEMMA LeaveTypes ==
  ASSUME Types, NEW i \in Entries, Leave(i)
  PROVE  step' \in [Entries -> States] /\ done' \in Nat
  BY DEF Types, PhaseTypes, EntryTypes, Leave, States

LEMMA RunOneTypes ==
  ASSUME Types, NEW i \in Entries, RunOne(i)
  PROVE  Types'
<1> USE DEF Types
<1> models' = models /\ refines' = refines /\ emotions' = emotions
  BY DEF RunOne, GateRefuses, AskModels, ModelReplies, FirstFails, RetryFails, TakeText,
         EmotionReturns, RefineReturns, config
<1>1. CASE GateRefuses(i)
  <2> USE <1>1 DEF GateRefuses
  <2>1. step' \in [Entries -> States] /\ done' \in Nat
    BY LeaveTypes
  <2>2. tries' \in [Entries -> 0..2]
    BY DEF EntryTypes
  <2> QED
    BY <2>1, <2>2 DEF PhaseTypes, EntryTypes, FlagTypes, entry
<1>2. CASE AskModels(i)
  <2> USE <1>2 DEF AskModels
  <2>1. reply' \in [Entries -> Given]
    BY AskTypes
  <2>2. tries' \in [Entries -> 0..2] /\ step' \in [Entries -> States]
    BY DEF EntryTypes, States
  <2> QED
    BY <2>1, <2>2 DEF PhaseTypes, EntryTypes, FlagTypes, entry
<1>3. CASE \E m \in Models : ModelReplies(i, m)
  <2> PICK m \in Models : ModelReplies(i, m)
    BY <1>3
  <2> USE DEF ModelReplies
  <2>1. reply' \in [Entries -> Given]
    BY DEF EntryTypes, Given
  <2> QED
    BY <2>1 DEF PhaseTypes, EntryTypes, FlagTypes, entry
<1>4. CASE FirstFails(i)
  <2> USE <1>4 DEF FirstFails
  <2>1. reply' \in [Entries -> Given]
    BY AskTypes
  <2>2. tries' \in [Entries -> 0..2]
    BY DEF EntryTypes
  <2> QED
    BY <2>1, <2>2 DEF PhaseTypes, EntryTypes, FlagTypes, entry
<1>5. CASE RetryFails(i)
  <2> USE <1>5 DEF RetryFails
  <2>1. step' \in [Entries -> States] /\ done' \in Nat
    BY LeaveTypes
  <2>2. error' \in [Entries -> BOOLEAN]
    BY DEF FlagTypes
  <2> QED
    BY <2>1, <2>2 DEF PhaseTypes, EntryTypes, FlagTypes
<1>6. CASE TakeText(i)
  <2> PICK t \in TextsOf(reply[i]) :
        /\ text' = [text EXCEPT ![i] = t]
        /\ IF t # "none" /\ refines
           THEN /\ step' = [step EXCEPT ![i] = IF emotions THEN "emotion" ELSE "refining"]
                /\ UNCHANGED done
           ELSE Leave(i)
    BY <1>6 DEF TakeText
  <2>1. step' \in [Entries -> States] /\ done' \in Nat
    BY LeaveTypes DEF PhaseTypes, EntryTypes, States
  <2>2. reply[i] \in Given
    BY DEF EntryTypes
  <2>3. text' \in [Entries -> Models \cup {"none"}]
    BY <2>2, TextsAreGiven DEF EntryTypes
  <2> QED
    BY <1>6, <2>1, <2>3 DEF TakeText, PhaseTypes, EntryTypes, FlagTypes
<1>7. CASE EmotionReturns(i)
  <2> USE <1>7 DEF EmotionReturns
  <2>1. step' \in [Entries -> States]
    BY DEF EntryTypes, States
  <2>2. used' \in [Entries -> BOOLEAN]
    BY DEF FlagTypes
  <2> QED
    BY <2>1, <2>2 DEF PhaseTypes, EntryTypes, FlagTypes
<1>8. CASE RefineReturns(i)
  <2> USE <1>8 DEF RefineReturns
  <2>1. step' \in [Entries -> States] /\ done' \in Nat
    BY LeaveTypes
  <2>2. processed' \in [Entries -> Doings]
    BY DEF EntryTypes, Doings
  <2> QED
    BY <2>1, <2>2 DEF PhaseTypes, EntryTypes, FlagTypes
<1> QED
  BY <1>1, <1>2, <1>3, <1>4, <1>5, <1>6, <1>7, <1>8 DEF RunOne

LEMMA NextTypes == Types /\ [Next]_vars => Types'
<1> SUFFICES ASSUME Types, [Next]_vars PROVE Types'
  OBVIOUS
<1> USE DEF Types
<1>1. CASE Segmented
  <2> USE <1>1 DEF Segmented
  <2>1. step' \in [Entries -> States]
    BY DEF States
  <2> QED
    BY <2>1 DEF PhaseTypes, EntryTypes, FlagTypes, config, entry
<1>2. CASE AllSegmentsFailed
  BY <1>2 DEF AllSegmentsFailed, Gathered, PhaseTypes, EntryTypes, FlagTypes, config, entry
<1>3. CASE Returns
  BY <1>3 DEF Returns, Gathered, PhaseTypes, EntryTypes, FlagTypes, config, entry
<1>4. CASE \E i \in Entries : RunOne(i)
  BY <1>4, RunOneTypes
<1>5. CASE UNCHANGED vars
  BY <1>5 DEF vars, config, entry, PhaseTypes, EntryTypes, FlagTypes
<1> QED
  BY <1>1, <1>2, <1>3, <1>4, <1>5 DEF Next

\* Every variable of a transcription keeps its type, and the recording is held
\* exactly until it is cut into segments (transcribe.py:200-222).
THEOREM TranscriptionTypes == Spec => []TypeOK
<1>1. Spec => []Types
  BY InitTypes, NextTypes, PTL DEF Spec
<1> QED
  BY <1>1, TypesImplyTypeOK, PTL

-----------------------------------------------------------------------------
(* Failures. *)

\* A segment in error has left, after two calls that every model failed; nothing
\* happened to the segments of a recording that is not cut yet.
ErrorsAreEarned ==
    /\ \A i \in Entries :
          error[i] => step[i] = "done" /\ tries[i] = 2 /\ Answered(reply[i]) = {}
    /\ phase = "segmenting" => \A i \in Entries : step[i] = "none" /\ ~error[i]
    /\ phase = "raised" => \A i \in 1..total : error[i]

LEMMA PlannedAreEntries == Types => 1..total \subseteq Entries
  BY TranscriptionAssumption DEF Types, PhaseTypes, Entries, TranscriptionAssumption

LEMMA RunOneEarns ==
  ASSUME Types, ErrorsAreEarned, NEW i \in Entries, RunOne(i)
  PROVE  ErrorsAreEarned'
<1> step[i] # "done" /\ step[i] # "none"
  BY DEF RunOne, GateRefuses, AskModels, ModelReplies, FirstFails, RetryFails, TakeText,
         EmotionReturns, RefineReturns, Enters, Awaited
<1> ~error[i] /\ phase # "segmenting"
  BY DEF ErrorsAreEarned
<1> phase' = phase /\ total' = total
  BY DEF RunOne, GateRefuses, AskModels, ModelReplies, FirstFails, RetryFails, TakeText,
         EmotionReturns, RefineReturns
\* Nothing of another entry changes.
<1>1. \A j \in Entries \ {i} : /\ step'[j] = step[j] /\ tries'[j] = tries[j]
                               /\ reply'[j] = reply[j] /\ error'[j] = error[j]
  BY DEF RunOne, GateRefuses, AskModels, ModelReplies, FirstFails, RetryFails, TakeText,
         EmotionReturns, RefineReturns, Ask, Leave, Types, EntryTypes, FlagTypes, entry
<1>2. error'[i] => step'[i] = "done" /\ tries'[i] = 2 /\ Answered(reply'[i]) = {}
  <2>1. CASE RetryFails(i)
    BY <2>1 DEF RetryFails, AllFailed, Leave, Types, EntryTypes
  <2>2. CASE ~RetryFails(i)
    BY <2>2 DEF RunOne, GateRefuses, AskModels, ModelReplies, FirstFails, TakeText,
         EmotionReturns, RefineReturns, entry
  <2> QED
    BY <2>1, <2>2
<1>3. \A j \in Entries : error[j] => error'[j]
  BY <1>1
<1>4. phase' = "raised" => \A j \in 1..total' : error'[j]
  BY <1>3, PlannedAreEntries, Zenon DEF ErrorsAreEarned
<1> QED
  BY <1>1, <1>2, <1>4 DEF ErrorsAreEarned

LEMMA NextEarns == Types /\ ErrorsAreEarned /\ [Next]_vars => ErrorsAreEarned'
<1> SUFFICES ASSUME Types, ErrorsAreEarned, [Next]_vars PROVE ErrorsAreEarned'
  OBVIOUS
<1>1. CASE Segmented
  BY <1>1 DEF Segmented, ErrorsAreEarned, entry
<1>2. CASE AllSegmentsFailed
  BY <1>2 DEF AllSegmentsFailed, Gathered, Failed, ErrorsAreEarned, entry
<1>3. CASE Returns
  BY <1>3 DEF Returns, Gathered, ErrorsAreEarned, entry
<1>4. CASE \E i \in Entries : RunOne(i)
  BY <1>4, RunOneEarns
<1>5. CASE UNCHANGED vars
  BY <1>5 DEF vars, config, entry, ErrorsAreEarned
<1> QED
  BY <1>1, <1>2, <1>3, <1>4, <1>5 DEF Next

\* For any number of segments, run any number at a time, one bad segment costs
\* neither the others nor its second chance, and the job fails only when every
\* segment failed twice (transcribe.py:229-287).
THEOREM FailuresAreIsolated == Spec => []FailureIsIsolated
<1>1. Init => ErrorsAreEarned
  BY DEF Init, ErrorsAreEarned
<1>2. Spec => [](Types /\ ErrorsAreEarned)
  BY <1>1, InitTypes, NextTypes, NextEarns, PTL DEF Spec
<1>3. Types /\ ErrorsAreEarned => FailureIsIsolated
  BY PlannedAreEntries, Zenon DEF ErrorsAreEarned, FailureIsIsolated
<1> QED
  BY <1>2, <1>3, PTL

-----------------------------------------------------------------------------
(* Progress. *)

Over == {i \in Entries : step[i] = "done"}

\* Only the planned segments take steps, and done counts those that are over.
CountIsExact ==
    /\ \A i \in Entries : step[i] # "none" => i \in 1..total
    /\ phase = "segmenting" => done = 0 /\ \A i \in Entries : step[i] = "none"
    /\ done = Cardinality(Over)

LEMMA EntriesAreFinite ==
  /\ IsFiniteSet(Entries)
  /\ \A S \in SUBSET Entries : IsFiniteSet(S) /\ Cardinality(S) \in Nat
<1>1. IsFiniteSet(Entries)
  BY FS_Interval, TranscriptionAssumption DEF Entries, TranscriptionAssumption
<1> QED
  BY <1>1, FS_Subset, FS_CardinalityType

LEMMA RunOneCounts ==
  ASSUME Types, CountIsExact, NEW i \in Entries, RunOne(i)
  PROVE  CountIsExact'
<1> USE DEF Types, EntryTypes
<1> step[i] # "done" /\ step[i] # "none"
  BY DEF RunOne, GateRefuses, AskModels, ModelReplies, FirstFails, RetryFails, TakeText,
         EmotionReturns, RefineReturns, Enters, Awaited
<1> phase # "segmenting"
  BY DEF CountIsExact
<1> phase' = phase /\ total' = total
  BY DEF RunOne, GateRefuses, AskModels, ModelReplies, FirstFails, RetryFails, TakeText,
         EmotionReturns, RefineReturns
<1>1. CASE Leave(i)
  <2>1. Over' = Over \cup {i}
    BY <1>1 DEF Leave, Over
  <2>2. Cardinality(Over') = Cardinality(Over) + 1
    BY <2>1, FS_AddElement, EntriesAreFinite DEF Over
  <2>3. \A j \in Entries : step'[j] # "none" => j \in 1..total'
    BY <1>1 DEF Leave, CountIsExact
  <2> QED
    BY <1>1, <2>2, <2>3 DEF Leave, CountIsExact
<1>2. CASE ~Leave(i)
  <2>1. /\ done' = done
        /\ step'[i] \notin {"done", "none"}
        /\ \A j \in Entries \ {i} : step'[j] = step[j]
    BY <1>2 DEF RunOne, GateRefuses, AskModels, ModelReplies, FirstFails, RetryFails, TakeText,
         EmotionReturns, RefineReturns
  <2>2. Over' = Over
    BY <2>1 DEF Over
  <2>3. \A j \in Entries : step'[j] # "none" => j \in 1..total'
    BY <2>1 DEF CountIsExact
  <2> QED
    BY <2>1, <2>2, <2>3 DEF CountIsExact
<1> QED
  BY <1>1, <1>2

LEMMA NextCounts == Types /\ CountIsExact /\ [Next]_vars => CountIsExact'
<1> SUFFICES ASSUME Types, CountIsExact, [Next]_vars PROVE CountIsExact'
  OBVIOUS
<1>1. CASE Segmented
  <2>1. Over = Over'
    BY <1>1 DEF Segmented, Over, CountIsExact
  <2>2. \A i \in Entries : step'[i] # "none" => i \in 1..total'
    BY <1>1 DEF Segmented, Entries
  <2> QED
    BY <1>1, <2>1, <2>2 DEF Segmented, CountIsExact
<1>2. CASE AllSegmentsFailed
  BY <1>2 DEF AllSegmentsFailed, Gathered, CountIsExact, Over
<1>3. CASE Returns
  BY <1>3 DEF Returns, Gathered, CountIsExact, Over
<1>4. CASE \E i \in Entries : RunOne(i)
  BY <1>4, RunOneCounts
<1>5. CASE UNCHANGED vars
  BY <1>5 DEF vars, CountIsExact, Over
<1> QED
  BY <1>1, <1>2, <1>3, <1>4, <1>5 DEF Next

\* segments_done of a polled job never exceeds segments_total, and when the
\* counter is full no segment is still at work (transcribe.py:276-287).
DoneMeansDone ==
    /\ done <= total
    /\ Gathered => \A i \in 1..total : step[i] = "done"

THEOREM ProgressIsExact == Spec => []DoneMeansDone
<1>1. Init => CountIsExact
  <2> SUFFICES ASSUME Init PROVE CountIsExact
    OBVIOUS
  <2>1. Over = {}
    BY DEF Init, Over
  <2> QED
    BY <2>1, FS_EmptySet DEF Init, CountIsExact
<1>2. Spec => [](Types /\ CountIsExact)
  BY <1>1, InitTypes, NextTypes, NextCounts, PTL DEF Spec
<1>3. Types /\ CountIsExact => DoneMeansDone
  <2> SUFFICES ASSUME Types, CountIsExact PROVE DoneMeansDone
    OBVIOUS
  <2>1. total \in Nat /\ IsFiniteSet(1..total) /\ Cardinality(1..total) = total
    BY FS_Interval DEF Types, PhaseTypes
  <2>2. Over \subseteq 1..total
    BY DEF Over, CountIsExact
  <2>3. /\ Cardinality(Over) <= total
        /\ Cardinality(Over) = total => Over = 1..total
    BY <2>1, <2>2, FS_Subset
  <2> QED
    BY <2>3 DEF DoneMeansDone, CountIsExact, Over, Gathered
<1> QED
  BY <1>2, <1>3, PTL

-----------------------------------------------------------------------------
(* File order. *)

\* Every set of naturals has a least member.
LEMMA LeastOf ==
  ASSUME NEW S \in SUBSET Nat, S # {}
  PROVE  \E m \in S : \A n \in S : m <= n
<1> DEFINE R == OpToRel(<, Nat)
<1>1. IsWellFoundedOn(R, Nat)
  BY NatLessThanWellFounded, Zenon
<1> HIDE DEF R
<1>2. PICK m \in S : \A n \in S : ~(<<n, m>> \in R)
  BY <1>1, WFMin, Zenon
<1>3. ASSUME NEW n \in S, ~(m <= n) PROVE FALSE
  <2>1. n \in Nat /\ m \in Nat /\ n < m
    BY <1>3
  <2>2. <<n, m>> \in R
    BY <2>1 DEF R, OpToRel
  <2> QED
    BY <2>2, <1>2
<1> QED
  BY <1>2, <1>3

\* Induction: a set with 0 that is closed under successor has every natural.
LEMMA AllNaturals ==
  ASSUME NEW S, 0 \in S, \A n \in Nat : n \in S => n + 1 \in S
  PROVE  \A n \in Nat : n \in S
<1> DEFINE T == {n \in Nat : n \notin S}
<1> SUFFICES ASSUME T # {} PROVE FALSE
  OBVIOUS
<1>1. T \in SUBSET Nat
  OBVIOUS
<1>2. PICK m \in T : \A n \in T : m <= n
  BY <1>1, LeastOf
<1>3. m \in Nat /\ m # 0 /\ m - 1 \in Nat /\ m - 1 \notin T
  BY <1>2
<1> QED
  BY <1>3

\* s lists S, the smaller first.
Lists(s, S) ==
    /\ s \in [1..Cardinality(S) -> S]
    /\ \A j, k \in DOMAIN s : j < k => s[j] < s[k]

\* Every set of segments can be listed.
LEMMA OrderExists ==
  ASSUME NEW n \in Nat, NEW S \in SUBSET (1..n)
  PROVE  IsFiniteSet(S) /\ Cardinality(S) \in Nat /\ \E s : Lists(s, S)
<1> DEFINE Good == {m \in Nat : \A T \in SUBSET (1..m) :
                        IsFiniteSet(T) /\ Cardinality(T) \in Nat /\ \E s : Lists(s, T)}
<1>1. 0 \in Good
  <2>1. \A T \in SUBSET (1..0) : T = {}
    OBVIOUS
  <2>2. IsFiniteSet({}) /\ Cardinality({}) = 0
    BY FS_EmptySet, Zenon
  <2>3. Lists(<<>>, {})
    <3>1. <<>> \in [1..0 -> {}]
      OBVIOUS
    <3>2. DOMAIN <<>> = {}
      OBVIOUS
    <3> QED
      BY <2>2, <3>1, <3>2 DEF Lists
  <2>4. ASSUME NEW T \in SUBSET (1..0)
        PROVE  IsFiniteSet(T) /\ Cardinality(T) \in Nat /\ \E s : Lists(s, T)
    <3>1. T = {}
      BY <2>1
    <3>2. 0 \in Nat
      OBVIOUS
    <3> QED
      BY ONLY <2>2, <2>3, <3>1, <3>2, Zenon
  <2> QED
    BY <2>4
<1>2. ASSUME NEW m \in Nat, m \in Good PROVE m + 1 \in Good
  <2> SUFFICES ASSUME NEW T \in SUBSET (1..m + 1)
               PROVE  IsFiniteSet(T) /\ Cardinality(T) \in Nat /\ \E s : Lists(s, T)
    OBVIOUS
  <2>1. CASE m + 1 \notin T
    <3>1. T \in SUBSET (1..m)
      BY <2>1
    <3> QED
      BY <1>2, <3>1
  <2>2. CASE m + 1 \in T
    <3>1. PICK U \in SUBSET (1..m) : U = T \ {m + 1}
      <4>1. T \ {m + 1} \in SUBSET (1..m)
        OBVIOUS
      <4> QED
        BY <4>1
    <3>2. IsFiniteSet(U) /\ Cardinality(U) \in Nat /\ \E s : Lists(s, U)
      BY <1>2
    <3>3. T = U \cup {m + 1} /\ m + 1 \notin U
      BY <2>2, <3>1
    <3>4. IsFiniteSet(T) /\ Cardinality(T) = Cardinality(U) + 1
      BY <3>2, <3>3, FS_AddElement, Zenon
    <3>5. PICK s : Lists(s, U)
      BY <3>2
    <3>6. PICK c \in Nat : c = Cardinality(U)
      BY <3>2
    <3> DEFINE t == [k \in 1..c + 1 |-> IF k = c + 1 THEN m + 1 ELSE s[k]]
    <3>7. s \in [1..c -> U] /\ \A j, k \in 1..c : j < k => s[j] < s[k]
      BY <3>5, <3>6 DEF Lists
    <3>8. \A k \in 1..c + 1 : k = c + 1 \/ k \in 1..c
      OBVIOUS
    <3>9. ASSUME NEW k \in 1..c PROVE s[k] \in U /\ s[k] \in 1..m /\ t[k] = s[k]
      <4>1. k \in 1..c + 1 /\ k # c + 1
        OBVIOUS
      <4>2. t[k] = s[k]
        BY <4>1
      <4>3. s[k] \in U
        BY <3>7
      <4> QED
        BY <4>2, <4>3
    <3>10. t \in [1..c + 1 -> T]
      <4>1. ASSUME NEW k \in 1..c + 1 PROVE t[k] \in T
        BY <3>3, <3>8, <3>9
      <4> QED
        BY <4>1
    <3>11. ASSUME NEW j \in 1..c + 1, NEW k \in 1..c + 1, j < k PROVE t[j] < t[k]
      <4>1. j \in 1..c
        BY <3>11
      <4>2. CASE k = c + 1
        <5>1. t[j] \in 1..m /\ t[k] = m + 1
          BY <3>9, <4>1, <4>2
        <5> QED
          BY ONLY <5>1, m \in Nat
      <4>3. CASE k \in 1..c
        <5>1. s[j] < s[k]
          BY <3>7, <3>11, <4>1, <4>3
        <5>2. t[j] = s[j] /\ t[k] = s[k]
          BY <3>9, <4>1, <4>3
        <5> QED
          BY <5>1, <5>2, Zenon
      <4> QED
        BY <3>8, <4>2, <4>3
    <3>12. DOMAIN t = 1..c + 1 /\ Cardinality(T) = c + 1
      BY <3>4, <3>6
    <3> HIDE DEF t
    <3>13. Lists(t, T)
      BY <3>10, <3>11, <3>12 DEF Lists
    <3> QED
      BY <3>4, <3>6, <3>13
  <2> QED
    BY <2>1, <2>2
<1> HIDE DEF Good
<1>3. n \in Good
  BY <1>1, <1>2, AllNaturals
<1> QED
  BY <1>3 DEF Good

\* The list has each of them, and no other.
LEMMA InOrderIs ==
  ASSUME NEW n \in Nat, NEW S \in SUBSET (1..n), NEW s, s = InOrder(S)
  PROVE  /\ ToSet(s) = S
         /\ \A k \in 2..Len(s) : s[k - 1] < s[k]
<1>1. IsFiniteSet(S) /\ Cardinality(S) \in Nat /\ \E t : Lists(t, S)
  BY OrderExists
<1>2. PICK c \in Nat : c = Cardinality(S)
  BY <1>1
<1>3. \E t \in [1..Cardinality(S) -> S] : \A j, k \in DOMAIN t : j < k => t[j] < t[k]
  BY <1>1, Zenon DEF Lists
<1>4. s \in [1..Cardinality(S) -> S] /\ \A j, k \in DOMAIN s : j < k => s[j] < s[k]
  BY <1>3, Zenon DEF InOrder
<1>5. s \in [1..c -> S] /\ \A j, k \in 1..c : j < k => s[j] < s[k]
  BY <1>2, <1>4
<1>6. \A j, k \in 1..c : s[j] = s[k] => j = k
  <2>1. \A j \in 1..c : s[j] \in 1..n
    BY <1>5
  <2>2. \A j, k \in 1..c : j = k \/ j < k \/ k < j
    OBVIOUS
  <2> QED
    BY <1>5, <2>1, <2>2
<1>7. s \in Injection(1..c, S)
  BY <1>5, <1>6 DEF Injection, IsInjective
<1>8. IsFiniteSet(1..c) /\ Cardinality(1..c) = c
  BY FS_Interval
<1>9. s \in Surjection(1..c, S)
  BY <1>1, <1>2, <1>7, <1>8, FS_Injection, Zenon
<1>10. ToSet(s) = S
  BY <1>5, <1>9 DEF Surjection, ToSet
<1>11. Len(s) = c
  BY <1>5
<1>12. ASSUME NEW k \in 2..Len(s) PROVE s[k - 1] < s[k]
  <2>1. k \in 1..c /\ k - 1 \in 1..c /\ k - 1 < k
    BY <1>11
  <2> QED
    BY <1>5, <2>1
<1> QED
  BY <1>10, <1>12

-----------------------------------------------------------------------------
(* The result. *)

\* What the two models answered settles whether there is a text, and whose.
LEMMA TextsOfIs ==
  ASSUME NEW r \in Given, Answered(r) # {}, NEW t \in TextsOf(r)
  PROVE  /\ t # "none" => t \in Models /\ r[t] = "text"
         /\ t # "none" <=> ~Silenced(r)
<1>1. CASE Answered(r) = Models
  <2>1. r["primary"] \in {"text", "empty"} /\ r["secondary"] \in {"text", "empty"}
    BY <1>1 DEF Answered, Models
  <2>2. t \in Fused(r)
    BY <1>1 DEF TextsOf
  <2>3. CASE r["secondary"] = "empty"
    <3>1. t = "none"
      BY <2>2, <2>3 DEF Fused
    <3> QED
      BY <2>3, <3>1 DEF Silenced
  <2>4. CASE r["secondary"] = "text" /\ r["primary"] = "empty"
    <3>1. t = "secondary"
      BY <2>2, <2>4 DEF Fused
    <3>2. ~Silenced(r)
      BY <2>4 DEF Silenced, Models
    <3> QED
      BY <2>4, <3>1, <3>2 DEF Models
  <2>5. CASE r["secondary"] = "text" /\ r["primary"] = "text"
    <3>1. t \in {Preferred(c) : c \in Comparison}
      BY <2>2, <2>5 DEF Fused
    <3>2. t \in {"primary", "secondary"}
      BY <3>1 DEF Preferred
    <3>3. ~Silenced(r)
      BY <2>5 DEF Silenced, Models
    <3> QED
      BY <2>5, <3>2, <3>3 DEF Models
  <2> QED
    BY <2>1, <2>3, <2>4, <2>5
<1>2. CASE Answered(r) # Models
  <2>1. PICK m \in Answered(r) : t = IF r[m] = "text" THEN m ELSE "none"
    BY <1>2 DEF TextsOf
  <2>2. m \in Models /\ r[m] \in {"text", "empty"}
    BY <2>1 DEF Answered
  <2>3. \A n \in Models : n # m => r[n] \notin {"text", "empty"}
    BY <1>2, <2>2 DEF Answered, Models
  <2>4. CASE r[m] = "text"
    BY <2>1, <2>2, <2>3, <2>4 DEF Silenced, Models
  <2>5. CASE r[m] = "empty"
    BY <2>1, <2>2, <2>3, <2>5 DEF Silenced, Models
  <2> QED
    BY <2>2, <2>4, <2>5
<1> QED
  BY <1>1, <1>2

\* What an entry says is what its models answered, and a text is over only when
\* it was refined, if it is to be.
Faithful(i) ==
    /\ step[i] \in {"none", "waiting"} => Silenced(reply[i])
    /\ step[i] \in {"none", "waiting", "asking"} => text[i] = "none" /\ ~error[i]
    /\ step[i] \in {"emotion", "refining"} => text[i] # "none" /\ refines
    /\ error[i] => text[i] = "none"
    /\ text[i] # "none" => ~Silenced(reply[i]) /\ text[i] \in Models /\ reply[i][text[i]] = "text"
    /\ (step[i] = "done" /\ text[i] = "none" /\ ~error[i]) => Silenced(reply[i])
    /\ (step[i] = "done" /\ ~error[i]) => tries[i] # 2 \/ Answered(reply[i]) # {}
    /\ (step[i] = "done" /\ text[i] # "none" /\ refines) => processed[i] \in {"accepted", "failed"}
    /\ step[i] = "waiting" => tries[i] = 0

AllFaithful ==
    /\ \A i \in Entries : Faithful(i)
    /\ phase = "segmenting" => \A i \in Entries : step[i] = "none" /\ tries[i] = 0

\* The result is the summary of the entries, which take no step any more.
Summarised ==
    (phase = "returned" /\ total > 0) =>
        /\ \A i \in 1..total : step[i] = "done"
        /\ result.kept = Kept
        /\ result.status = "completed" =>
              /\ refines /\ ~PostprocessFailed
              /\ result.parts = InOrder({i \in 1..total : text[i] # "none"})

\* A segment is handled without touching the entries of the others.
LEMMA OtherEntries ==
  ASSUME Types, NEW i \in Entries, RunOne(i), NEW j \in Entries, j # i
  PROVE  /\ step'[j] = step[j] /\ tries'[j] = tries[j] /\ reply'[j] = reply[j]
         /\ error'[j] = error[j] /\ text'[j] = text[j] /\ processed'[j] = processed[j]
  BY DEF RunOne, GateRefuses, AskModels, ModelReplies, FirstFails, RetryFails, TakeText,
         EmotionReturns, RefineReturns, Ask, Leave, Types, EntryTypes, FlagTypes, entry

\* Each step of a segment keeps its entry faithful.
LEMMA RunOneFaithful ==
  ASSUME Types, NEW i \in Entries, Faithful(i), RunOne(i)
  PROVE  Faithful(i)'
<1> USE DEF Types, EntryTypes
<1> refines' = refines
  BY DEF RunOne, GateRefuses, AskModels, ModelReplies, FirstFails, RetryFails, TakeText,
         EmotionReturns, RefineReturns, config
<1>1. CASE GateRefuses(i)
  <2>1. step[i] = "waiting" /\ step'[i] = "done" /\ tries'[i] = 1
        /\ reply'[i] = reply[i] /\ text'[i] = text[i] /\ error'[i] = error[i]
    BY <1>1 DEF GateRefuses, Enters, Leave, entry
  <2> QED
    BY <2>1 DEF Faithful
<1>2. CASE AskModels(i)
  <2>1. step[i] = "waiting" /\ step'[i] = "asking" /\ text'[i] = text[i] /\ error'[i] = error[i]
    BY <1>2 DEF AskModels, Enters, entry
  <2> QED
    BY <2>1 DEF Faithful
<1>3. CASE (\E m \in Models : ModelReplies(i, m)) \/ FirstFails(i)
  <2>1. step[i] = "asking" /\ step'[i] = "asking" /\ text'[i] = text[i] /\ error'[i] = error[i]
    BY <1>3 DEF ModelReplies, FirstFails, Awaited, entry
  <2> QED
    BY <2>1 DEF Faithful
<1>4. CASE RetryFails(i)
  <2>1. step[i] = "asking" /\ step'[i] = "done" /\ text'[i] = text[i] /\ error'[i] = TRUE
    BY <1>4 DEF RetryFails, Awaited, Leave, FlagTypes
  <2> QED
    BY <2>1 DEF Faithful
<1>5. CASE TakeText(i)
  <2>1. PICK t \in TextsOf(reply[i]) :
          /\ text' = [text EXCEPT ![i] = t]
          /\ IF t # "none" /\ refines
             THEN step' = [step EXCEPT ![i] = IF emotions THEN "emotion" ELSE "refining"]
             ELSE Leave(i)
    BY <1>5 DEF TakeText
  <2>2. step[i] = "asking" /\ Answered(reply[i]) # {} /\ reply'[i] = reply[i]
        /\ error'[i] = error[i] /\ tries'[i] = tries[i]
    BY <1>5 DEF TakeText, Awaited, AllFailed
  <2>3. text'[i] = t
    BY <2>1
  <2>4. /\ t # "none" => t \in Models /\ reply[i][t] = "text"
        /\ t # "none" <=> ~Silenced(reply[i])
    BY <2>2, TextsOfIs
  <2>5. ~error[i]
    BY <2>2 DEF Faithful
  <2>6. \/ t # "none" /\ refines /\ step'[i] \in {"emotion", "refining"}
        \/ (t = "none" \/ ~refines) /\ step'[i] = "done"
    BY <2>1 DEF Leave
  <2> QED
    BY <2>2, <2>3, <2>4, <2>5, <2>6 DEF Faithful
<1>6. CASE EmotionReturns(i)
  <2>1. step[i] = "emotion" /\ step'[i] = "refining" /\ text'[i] = text[i] /\ error'[i] = error[i]
        /\ reply'[i] = reply[i]
    BY <1>6 DEF EmotionReturns
  <2> QED
    BY <2>1 DEF Faithful
<1>7. CASE RefineReturns(i)
  <2>1. step[i] = "refining" /\ step'[i] = "done" /\ text'[i] = text[i] /\ error'[i] = error[i]
        /\ reply'[i] = reply[i] /\ tries'[i] = tries[i] /\ processed'[i] \in {"accepted", "failed"}
    BY <1>7 DEF RefineReturns, Leave
  <2>2. text[i] # "none" /\ ~Silenced(reply[i])
    BY <2>1 DEF Faithful
  <2>3. Answered(reply[i]) # {}
    BY <2>2 DEF Silenced, Answered
  <2> QED
    BY <2>1, <2>2, <2>3 DEF Faithful
<1> QED
  BY <1>1, <1>2, <1>3, <1>4, <1>5, <1>6, <1>7 DEF RunOne

\* So does every step.
LEMMA NextFaithful == Types /\ AllFaithful /\ [Next]_vars => AllFaithful'
<1> SUFFICES ASSUME Types, AllFaithful, [Next]_vars PROVE AllFaithful'
  OBVIOUS
<1>1. CASE Segmented
  <2>1. phase = "segmenting" /\ phase' # "segmenting"
        /\ UNCHANGED <<config, tries, reply, entry>>
    BY <1>1 DEF Segmented
  <2>2. \A i \in Entries : step'[i] \in {"none", "waiting"} /\ step[i] = "none" /\ tries[i] = 0
    BY <1>1, <2>1 DEF Segmented, AllFaithful
  <2>3. ASSUME NEW i \in Entries PROVE Faithful(i)'
    <3>1. Faithful(i)
      BY DEF AllFaithful
    <3> QED
      BY <2>1, <2>2, <3>1 DEF Faithful, entry, config
  <2> QED
    BY <2>1, <2>3 DEF AllFaithful
<1>2. CASE UNCHANGED <<config, step, tries, reply, entry>> /\ phase # "segmenting"
           /\ phase' # "segmenting"
  BY <1>2 DEF AllFaithful, Faithful, config, entry
<1>3. CASE AllSegmentsFailed \/ Returns
  BY <1>2, <1>3 DEF AllSegmentsFailed, Returns, Gathered
<1>4. CASE \E i \in Entries : RunOne(i)
  <2> PICK i \in Entries : RunOne(i)
    BY <1>4
  <2>1. phase # "segmenting" /\ phase' = phase
    BY DEF RunOne, GateRefuses, AskModels, ModelReplies, FirstFails, RetryFails, TakeText,
         EmotionReturns, RefineReturns, Enters, Awaited, AllFaithful
  <2>2. Faithful(i)'
    BY RunOneFaithful DEF AllFaithful
  <2>3. ASSUME NEW j \in Entries, j # i PROVE Faithful(j)'
    <3>1. Faithful(j)
      BY DEF AllFaithful
    <3>2. refines' = refines
      BY DEF RunOne, GateRefuses, AskModels, ModelReplies, FirstFails, RetryFails, TakeText,
         EmotionReturns, RefineReturns, config
    <3> QED
      BY <2>3, <3>1, <3>2, OtherEntries DEF Faithful
  <2> QED
    BY <2>1, <2>2, <2>3 DEF AllFaithful
<1>5. CASE UNCHANGED vars
  BY <1>5 DEF vars, config, entry, AllFaithful, Faithful
<1> QED
  BY <1>1, <1>3, <1>4, <1>5 DEF Next

\* Nothing happens after the result.
LEMMA NextSummarised ==
  Types /\ CountIsExact /\ DoneMeansDone /\ Summarised /\ [Next]_vars => Summarised'
<1> SUFFICES ASSUME Types, CountIsExact, DoneMeansDone, Summarised, [Next]_vars,
                    phase' = "returned", total' > 0
             PROVE  Summarised'
  BY DEF Summarised
<1>1. CASE Segmented
  BY <1>1 DEF Segmented, Types, PhaseTypes
<1>2. CASE AllSegmentsFailed
  BY <1>2 DEF AllSegmentsFailed
<1>3. CASE Returns
  <2>1. UNCHANGED <<config, total, step, entry>> /\ Gathered
    BY <1>3 DEF Returns
  <2>2. \A i \in 1..total : step[i] = "done"
    BY <2>1 DEF DoneMeansDone
  <2>3. /\ result'.kept = Kept
        /\ result'.status = (IF ~refines THEN "none"
                             ELSE IF PostprocessFailed THEN "degraded_raw_only" ELSE "completed")
        /\ result'.parts = (IF refines /\ ~PostprocessFailed
                            THEN InOrder({i \in 1..total : text[i] # "none"}) ELSE <<>>)
    BY <1>3 DEF Returns
  <2>4. Kept' = Kept /\ (PostprocessFailed' <=> PostprocessFailed) /\ refines' = refines
        /\ InOrder({i \in 1..total : text[i] # "none"})' = InOrder({i \in 1..total : text[i] # "none"})
    BY <2>1, Zenon DEF Kept, PostprocessFailed, config, entry
  <2>5. result'.status = "completed" => refines /\ ~PostprocessFailed
    BY <2>3
  <2> QED
    BY <2>1, <2>2, <2>3, <2>4, <2>5 DEF Summarised
<1>4. ASSUME NEW i \in Entries, RunOne(i) PROVE FALSE
  <2>1. phase' = phase /\ total' = total
    BY <1>4 DEF RunOne, GateRefuses, AskModels, ModelReplies, FirstFails, RetryFails, TakeText,
         EmotionReturns, RefineReturns
  <2>2. step[i] \notin {"none", "done"}
    BY <1>4 DEF RunOne, GateRefuses, AskModels, ModelReplies, FirstFails, RetryFails, TakeText,
         EmotionReturns, RefineReturns, Enters, Awaited
  <2> QED
    BY <2>1, <2>2 DEF Summarised, CountIsExact
<1>5. CASE UNCHANGED vars
  <2>1. UNCHANGED <<refines, total, step, text, error, processed, result, phase>>
    BY <1>5 DEF vars, config, entry
  <2>2. Kept' = Kept /\ (PostprocessFailed' <=> PostprocessFailed)
        /\ InOrder({i \in 1..total : text[i] # "none"})' = InOrder({i \in 1..total : text[i] # "none"})
    BY <2>1, Zenon DEF Kept, PostprocessFailed
  <2> QED
    BY <2>1, <2>2, Zenon DEF Summarised
<1> QED
  BY <1>1, <1>2, <1>3, <1>4, <1>5 DEF Next

\* What was heard is in the result, and nothing else, for any number of segments
\* and whatever the models answer: a segment is kept if a model gave it a text
\* that the other did not veto, or if nobody could transcribe it; the segments
\* are in file order; and a result called completed has a refined text for every
\* kept one (transcribe.py:289-371).
THEOREM NothingHeardIsLost == Spec => []ResultIsComplete
<1>1. Init => AllFaithful /\ Summarised
  <2> SUFFICES ASSUME Init PROVE AllFaithful /\ Summarised
    OBVIOUS
  <2>1. /\ phase = "segmenting"
        /\ step = [i \in Entries |-> "none"] /\ tries = [i \in Entries |-> 0]
        /\ reply = [i \in Entries |-> [m \in Models |-> "off"]]
        /\ text = [i \in Entries |-> "none"] /\ error = [i \in Entries |-> FALSE]
    BY Zenon DEF Init
  <2>2. \A i \in Entries : Faithful(i)
    BY <2>1 DEF Faithful, Silenced
  <2> QED
    BY <2>1, <2>2 DEF AllFaithful, Summarised
<1>2. Types /\ ErrorsAreEarned /\ AllFaithful /\ Summarised => ResultIsComplete
  <2> SUFFICES ASSUME Types, ErrorsAreEarned, AllFaithful, Summarised,
                      phase = "returned", total > 0
               PROVE  ResultIsComplete
    BY DEF ResultIsComplete
  <2>1. total \in Nat /\ 1..total \subseteq Entries
    BY PlannedAreEntries DEF Types, PhaseTypes
  <2> DEFINE K == {i \in 1..total : text[i] # "none" \/ error[i]}
             T == {i \in 1..total : text[i] # "none"}
  <2>2. K \in SUBSET (1..total) /\ T \in SUBSET (1..total)
    OBVIOUS
  <2>3. result.kept = InOrder(K)
    BY Zenon DEF Summarised, Kept
  <2> HIDE DEF K, T
  <2>4. ToSet(result.kept) = K /\ \A k \in 2..Len(result.kept) : result.kept[k - 1] < result.kept[k]
    BY <2>1, <2>2, <2>3, InOrderIs
  <2>5. ASSUME NEW i \in 1..total
        PROVE  /\ i \in K <=> \/ tries[i] = 2 /\ Answered(reply[i]) = {}
                              \/ ~Silenced(reply[i])
               /\ text[i] # "none" => reply[i][text[i]] = "text"
    <3>1. i \in Entries /\ Faithful(i) /\ step[i] = "done"
      BY <2>1 DEF AllFaithful, Summarised
    <3>2. error[i] => tries[i] = 2 /\ Answered(reply[i]) = {}
      BY <3>1 DEF ErrorsAreEarned
    <3>3. i \in K <=> (text[i] # "none" \/ error[i])
      BY DEF K
    <3> QED
      BY <3>1, <3>2, <3>3 DEF Faithful
  <2>6. ASSUME result.status = "completed", NEW i \in ToSet(result.kept), text[i] # "none"
        PROVE  i \in ToSet(result.parts) /\ processed[i] = "accepted"
    <3>1. refines /\ ~PostprocessFailed /\ result.parts = InOrder(T)
      BY <2>6, Zenon DEF Summarised, T
    <3>2. ToSet(result.parts) = T
      BY <2>1, <2>2, <3>1, InOrderIs
    <3>3. i \in 1..total
      BY <2>2, <2>4, <2>6
    <3>4. i \in Entries /\ Faithful(i) /\ step[i] = "done"
      BY <2>1, <3>3 DEF AllFaithful, Summarised
    <3>5. processed[i] \in {"accepted", "failed"}
      BY <2>6, <3>1, <3>4 DEF Faithful
    <3>6. processed[i] # "failed"
      <4>1. result.kept = Kept
        BY Zenon DEF Summarised
      <4> QED
        BY <2>6, <3>1, <4>1 DEF PostprocessFailed
    <3> QED
      BY <2>6, <3>2, <3>3, <3>5, <3>6 DEF T
  <2> QED
    BY <2>4, <2>5, <2>6, Zenon DEF ResultIsComplete
<1>3. Spec => [](Types /\ ErrorsAreEarned /\ DoneMeansDone /\ CountIsExact)
  <2>1. Init => CountIsExact
    <3> SUFFICES ASSUME Init PROVE CountIsExact
      OBVIOUS
    <3>1. Over = {}
      BY DEF Init, Over
    <3> QED
      BY <3>1, FS_EmptySet DEF Init, CountIsExact
  <2>2. Init => ErrorsAreEarned
    BY DEF Init, ErrorsAreEarned
  <2> QED
    BY <2>1, <2>2, InitTypes, NextTypes, NextEarns, NextCounts, ProgressIsExact, PTL DEF Spec
<1> QED
  BY <1>1, <1>2, <1>3, NextFaithful, NextSummarised, PTL DEF Spec

-----------------------------------------------------------------------------
(***************************************************************************)
(* CleanStream: a session of /asr/v1/clean-stream.                         *)
(***************************************************************************)

(* Sequences and events. *)

\* t is s with e at its end.
IsMore(t, s, e) ==
    /\ Len(s) \in Nat /\ Len(t) = Len(s) + 1
    /\ DOMAIN s = 1..Len(s) /\ DOMAIN t = 1..Len(s) + 1
    /\ t[Len(s) + 1] = e /\ \A i \in 1..Len(s) : t[i] = s[i]

\* What appending does.
LEMMA AppendIs ==
  ASSUME NEW S, NEW s \in Seq(S), NEW e
  PROVE  IsMore(Append(s, e), s, e) /\ Append(s, e) \in Seq(S \cup {e})
  BY DEF IsMore

Numbers == Nat \ {0}
Partials == {PartialOf(u) : u \in Numbers}
Segments == {SegmentOf(u) : u \in Numbers}
Events == Partials \cup Segments \cup {Sentinel}

\* The kinds tell the events apart.
LEMMA Kinds ==
  /\ \A e \in Partials : e.kind = "partial" /\ e.utterance \in Numbers
  /\ \A e \in Segments : e.kind = "segment" /\ e.utterance \in Numbers
  /\ Sentinel.kind = "none" /\ Idle.kind = "idle"
  BY DEF Partials, Segments, PartialOf, SegmentOf, Sentinel, Idle

\* The events of an utterance.
LEMMA NewEvents ==
  ASSUME NEW u \in Numbers
  PROVE  /\ PartialOf(u) \in Partials /\ PartialOf(u).utterance = u
         /\ SegmentOf(u) \in Segments /\ SegmentOf(u).utterance = u
  BY DEF Partials, Segments, PartialOf, SegmentOf

Receiver == {"receiving", "joining", "stopping", "gathering", "closed"}

StreamTypes ==
    /\ recv \in Receiver /\ connected \in BOOLEAN
    /\ options \in Options \cup {NoOptions}
    /\ cut \in Nat /\ speaking \in {0, cut + 1} /\ audio \in BOOLEAN
    /\ queue \in Seq(Events) /\ event \in Partials \cup Segments \cup {Idle}
    /\ worker \in {"none", "get", "asking", "ended"} /\ workerError \in BOOLEAN
    /\ raw \in Seq(Numbers) /\ silent \in SUBSET Numbers
    /\ \E S : out \in Seq(S)

\* Before session.update nothing happens; the worker holds an event exactly while
\* it asks.
Opened ==
    /\ options = NoOptions => /\ recv = "receiving" /\ worker = "none" /\ speaking = 0 /\ cut = 0
                              /\ queue = <<>> /\ ~audio
    /\ options # NoOptions => worker # "none"
    /\ worker = "asking" <=> event # Idle
    /\ unfinished = Len(queue) + (IF event = Idle THEN 0 ELSE 1)
    /\ recv \in {"receiving", "joining"} =>
          worker # "ended" /\ \A k \in 1..Len(queue) : queue[k] # Sentinel
    /\ recv = "stopping" => /\ event = Idle
                            /\ \/ worker = "get" /\ queue = <<Sentinel>>
                               \/ worker = "ended" /\ queue = <<>>
    /\ recv = "gathering" => event = Idle /\ worker = "ended" /\ queue = <<>>
                             /\ ~workerError /\ raw # <<>>

\* e is handled before f: a segment ends its utterance.
Before(e, f) ==
    /\ e.utterance <= f.utterance
    /\ e.kind = "segment" => e.utterance < f.utterance

\* What is waiting is in order, and of the utterances the VAD has seen.
Ordered ==
    /\ \A j, k \in 1..Len(queue) :
          j < k /\ queue[k] # Sentinel => Before(queue[j], queue[k])
    /\ \A k \in 1..Len(queue) : (event # Idle /\ queue[k] # Sentinel) => Before(event, queue[k])

Seen(e) == e.utterance <= cut + 1 /\ (e.kind = "segment" => e.utterance <= cut)
Reached ==
    /\ event # Idle => Seen(event)
    /\ \A k \in 1..Len(queue) : queue[k] # Sentinel => Seen(queue[k])

\* What is confirmed lies before all that waits.
Passed(u) ==
    /\ u \in Nat /\ u <= cut
    /\ event # Idle => u < event.utterance
    /\ \A k \in 1..Len(queue) : queue[k] # Sentinel => u < queue[k].utterance
Behind ==
    /\ \A u \in Confirmed : Passed(u)
    /\ \A k \in 2..Len(raw) : raw[k - 1] < raw[k]
    /\ ToSet(raw) \cap silent = {}

\* While no segment has failed, every utterance is confirmed or waits.
Waits(u) == \/ event = SegmentOf(u)
            \/ \E k \in 1..Len(queue) : queue[k] = SegmentOf(u)
NoneDropped == ~workerError => \A u \in 1..cut : u \in Confirmed \/ Waits(u)

InLine == Ordered /\ Reached /\ Behind /\ NoneDropped

\* Once closed, nothing happens.
Shut == recv = "closed" => /\ worker \in {"none", "ended"}
                           /\ \A i \in DOMAIN post : post[i] \in {"done", "cancelled"}

Live == recv # "closed" => Opened /\ InLine

Progress == {"emotion", "refine", "done", "cancelled"}
Forms == {"unset", "raw", "refined"}

PostTypes ==
    /\ post \in Seq(Progress) /\ processed_segments \in Seq(Forms) /\ failed \in BOOLEAN
    /\ Len(post) <= Len(raw) /\ Len(processed_segments) = Len(raw)

\* A task leaves a form of its text, unless there is nothing to be done.
Formed(i) ==
    /\ post[i] # "cancelled"
    /\ post[i] \in {"emotion", "refine"} => processed_segments[i] = "unset"
    /\ options.refine # "off" /\ post[i] = "done" => processed_segments[i] # "unset"

\* The refined form of segment i was sent.
IsRefined(e, i) == e = [kind |-> "postprocess", index |-> i, text |-> "refined"]
Announced(i) == \E j \in 1..Len(out) : IsRefined(out[j], i)

Tasks ==
    /\ ~workerError => Len(post) = Len(raw)
    /\ Len(post) > 0 => options # NoOptions
    /\ \A i \in 1..Len(post) : Formed(i)
    /\ \A i \in 1..Len(raw) : i > Len(post) => processed_segments[i] = "unset"
    /\ failed <=> \E i \in 1..Len(raw) : processed_segments[i] = "raw"
    /\ \A i \in Nat : Announced(i) <=> i \in 1..Len(raw) /\ processed_segments[i] = "refined"

LiveTasks == recv # "closed" => Tasks

\* A terminal message is the end.
Unsaid == recv # "closed" => \A k \in 1..Len(out) : ~Terminal(out[k])

-----------------------------------------------------------------------------
(* The types. *)

\* A message more, or none.
Sent(e) == out' = out \/ out' = Append(out, e)

\* The history stays a sequence.
LEMMA OutGrows ==
  ASSUME \E S : out \in Seq(S), NEW e, Sent(e)
  PROVE  \E S : out' \in Seq(S)
<1>1. PICK S : out \in Seq(S) OBVIOUS
<1>2. CASE out' = out BY <1>1, <1>2
<1>3. CASE out' = Append(out, e)
  <2>1. Append(out, e) \in Seq(S \cup {e}) BY <1>1, AppendIs
  <2> QED BY <1>3, <2>1
<1> QED BY <1>2, <1>3 DEF Sent

\* What SendText does.
LEMMA Sends ==
  ASSUME NEW shown, SendText(shown), workerError \in BOOLEAN
  PROVE  /\ workerError' \in BOOLEAN
         /\ workerError => workerError'
         /\ Sent(Delta(shown, event))
  BY DEF SendText, Sent

\* The session begins with its types.
LEMMA InitStreamTypes == CleanInit => StreamTypes
<1> SUFFICES ASSUME CleanInit PROVE StreamTypes OBVIOUS
<1>1. out \in Seq({}) BY DEF CleanInit
<1>2. \E S : out \in Seq(S) BY <1>1
<1>3. recv \in Receiver /\ connected \in BOOLEAN /\ options \in Options \cup {NoOptions}
      /\ cut \in Nat /\ speaking \in {0, cut + 1} /\ audio \in BOOLEAN /\ workerError \in BOOLEAN
  BY DEF CleanInit, Receiver
<1>4. queue \in Seq(Events) /\ raw \in Seq(Numbers) /\ silent \in SUBSET Numbers
      /\ event \in Partials \cup Segments \cup {Idle}
           /\ worker \in {"none", "get", "asking", "ended"}
  BY DEF CleanInit
<1> QED BY <1>2, <1>3, <1>4 DEF StreamTypes

\* What the queue and its ends are made of.
LEMMA QueueTypes ==
  ASSUME NEW q \in Seq(Events), NEW e \in Events
  PROVE  Append(q, e) \in Seq(Events) /\ (q # <<>> =>
    Tail(q) \in Seq(Events) /\ Head(q) \in Events)
  OBVIOUS

\* Every step keeps the types.
LEMMA NextStreamTypes == StreamTypes /\ [CleanNext]_cleanVars => StreamTypes'
<1> SUFFICES ASSUME StreamTypes, [CleanNext]_cleanVars PROVE StreamTypes' OBVIOUS
<1> USE DEF receiver, asr, cleanup, counts
<1>a. \A e : Sent(e) => \E S : out' \in Seq(S)
  BY OutGrows DEF StreamTypes
<1>1. CASE Reject
  <2>1. Sent(Error("refused")) BY <1>1 DEF Reject, Sent
  <2> QED BY <1>1, <2>1, <1>a DEF Reject, StreamTypes
<1>2. CASE SessionUpdate BY <1>2 DEF SessionUpdate, StreamTypes
<1>3. CASE AppendQuiet BY <1>3 DEF AppendQuiet, StreamTypes
<1>4. CASE AppendPartial
  <2>1. speaking \in Numbers BY <1>4 DEF AppendPartial, StreamTypes, Numbers
  <2>2. Append(queue, PartialOf(speaking)) \in Seq(Events)
    BY <2>1, NewEvents, QueueTypes DEF Events, StreamTypes
  <2> QED BY <1>4, <2>2 DEF AppendPartial, Enqueue, StreamTypes
<1>5. CASE AppendSegment
  <2>1. speaking \in Numbers BY <1>5 DEF AppendSegment, StreamTypes, Numbers
  <2>2. Append(queue, SegmentOf(speaking)) \in Seq(Events)
    BY <2>1, NewEvents, QueueTypes DEF Events, StreamTypes
  <2> QED BY <1>5, <2>2 DEF AppendSegment, Enqueue, StreamTypes
<1>6. CASE ClientLeaves BY <1>6 DEF ClientLeaves, StreamTypes
<1>7. CASE NoticeDisconnect BY <1>7 DEF NoticeDisconnect, Close, StreamTypes, Receiver
<1>8. ASSUME NEW m, EndWith(m) PROVE StreamTypes'
  <2>1. Sent(m) BY <1>8 DEF EndWith, Sent
  <2> QED BY <1>8, <2>1, <1>a DEF EndWith, Close, StreamTypes, Receiver
<1>9. CASE CommitNoAudio BY <1>8, <1>9 DEF CommitNoAudio
<1>10. CASE Commit
  <2>1. CASE speaking = 0 BY <1>10, <2>1 DEF Commit, StreamTypes, Receiver
  <2>2. CASE speaking # 0
    <3>1. speaking \in Numbers BY <2>2 DEF StreamTypes, Numbers
    <3>2. Append(queue, SegmentOf(speaking)) \in Seq(Events)
      BY <3>1, NewEvents, QueueTypes DEF Events, StreamTypes
    <3>3. /\ recv' = "joining" /\ cut' = speaking /\ speaking' = 0
          /\ queue' = Append(queue, SegmentOf(speaking))
          /\ UNCHANGED <<connected, options, audio, worker, event, workerError, raw, silent, out>>
      BY <1>10, <2>2 DEF Commit, Enqueue
    <3>4. cut' \in Nat /\ speaking' \in {0, cut' + 1} BY <3>1, <3>3 DEF Numbers
    <3> QED BY <3>2, <3>3, <3>4 DEF StreamTypes, Receiver
  <2> QED BY <2>1, <2>2
<1>11. CASE Joined
  <2>1. Append(queue, Sentinel) \in Seq(Events) BY QueueTypes DEF Events, StreamTypes
  <2> QED BY <1>11, <2>1 DEF Joined, Enqueue, StreamTypes, Receiver
<1>12. CASE ReportFailure BY <1>8, <1>12 DEF ReportFailure
<1>13. CASE ReportNoSpeech BY <1>8, <1>13 DEF ReportNoSpeech
<1>14. CASE Gather BY <1>14 DEF Gather, StreamTypes, Receiver
<1>15. CASE SendDone BY <1>8, <1>15 DEF SendDone
<1>16. CASE Get
  <2>1. Tail(queue) \in Seq(Events) /\ Head(queue) \in Events
    BY <1>16, QueueTypes DEF Get, Events, StreamTypes
  <2> QED BY <1>16, <2>1 DEF Get, TaskDone, StreamTypes, Events
<1>17. CASE PartialAnswered
  <2>1. workerError' \in BOOLEAN /\ \E e : Sent(e)
    BY <1>17, Sends DEF PartialAnswered, StreamTypes, Sent
  <2> QED BY <1>17, <2>1, <1>a DEF PartialAnswered, TaskDone, StreamTypes
<1>18. CASE SegmentFailed BY <1>18 DEF SegmentFailed, TaskDone, StreamTypes
<1>h. ASSUME AskedFor("segment") PROVE event \in Segments /\ event.utterance \in Numbers
  BY <1>h, Kinds DEF AskedFor, StreamTypes
<1>19. CASE SegmentSilent BY <1>19, <1>h DEF SegmentSilent, TaskDone, StreamTypes
<1>20. CASE SegmentAnswered
  <2>1. workerError' \in BOOLEAN /\ \E e : Sent(e)
    BY <1>20, Sends DEF SegmentAnswered, StreamTypes, Sent
  <2>2. raw' \in Seq(Numbers) BY <1>20, <1>h DEF SegmentAnswered, StreamTypes
  <2> QED BY <1>20, <2>1, <2>2, <1>a DEF SegmentAnswered, TaskDone, StreamTypes
<1>21. ASSUME NEW i \in DOMAIN post, PostFails(i) \/ EmotionAnswered(i) \/ RefineAnswered(i)
       PROVE  StreamTypes'
  <2>1. \E e : Sent(e) BY <1>21 DEF PostFails, Degrade, EmotionAnswered, RefineAnswered, Sent
  <2> QED BY <1>21, <2>1, <1>a DEF PostFails, EmotionAnswered, RefineAnswered, StreamTypes
<1>22. CASE UNCHANGED cleanVars BY <1>22 DEF cleanVars, StreamTypes
<1> QED
  BY <1>1, <1>2, <1>3, <1>4, <1>5, <1>6, <1>7, <1>9, <1>10, <1>11, <1>12, <1>13, <1>14, <1>15,
     <1>16, <1>17, <1>18, <1>19, <1>20, <1>21, <1>22 DEF CleanNext

-----------------------------------------------------------------------------
(* Once closed, nothing happens. *)

\* The finally block of clean_stream_ws() leaves nothing at work.
LEMMA CloseShuts == Close => recv' = "closed" /\ Shut'
  BY DEF Close, Shut

\* A closed session takes no step.
LEMMA ClosedRests ==
  ASSUME StreamTypes, Shut, recv = "closed", CleanNext
  PROVE  FALSE
<1>1. worker \in {"none", "ended"} BY DEF Shut
<1>2. \A i \in DOMAIN post : post[i] \notin {"emotion", "refine"} BY DEF Shut
<1>3. ~Get /\ ~PartialAnswered /\ ~SegmentFailed /\ ~SegmentSilent /\ ~SegmentAnswered
  BY <1>1 DEF Get, AskedFor, PartialAnswered, SegmentFailed, SegmentSilent, SegmentAnswered
<1>4. \A i \in DOMAIN post : ~(PostFails(i) \/ EmotionAnswered(i) \/ RefineAnswered(i))
  BY <1>2 DEF PostFails, EmotionAnswered, RefineAnswered
<1>5. ~Reject /\ ~SessionUpdate /\ ~AppendQuiet /\ ~AppendPartial /\ ~AppendSegment
      /\ ~ClientLeaves /\ ~NoticeDisconnect /\ ~CommitNoAudio /\ ~Commit
  BY DEF Reject, SessionUpdate, AppendQuiet, AppendPartial, AppendSegment, ClientLeaves,
         NoticeDisconnect, CommitNoAudio, Commit
<1>6. ~Joined /\ ~ReportFailure /\ ~ReportNoSpeech /\ ~Gather /\ ~SendDone
  BY DEF Joined, ReportFailure, ReportNoSpeech, Gather, SendDone
<1> QED BY <1>3, <1>4, <1>5, <1>6 DEF CleanNext

\* The steps that close the session.
Closes ==
    \/ NoticeDisconnect
    \/ CommitNoAudio /\ EndWith(Error("no_audio"))
    \/ ReportFailure /\ EndWith(Error("server_error"))
    \/ ReportNoSpeech /\ EndWith(Error("no_speech_detected"))
    \/ SendDone

\* What the steps of the open session do not touch.
Elsewhere == UNCHANGED <<recv, options, audio, speaking, cut, queue, unfinished, worker, event,
                         workerError, raw, silent>>

Aside == Reject \/ ClientLeaves
         \/ \E i \in DOMAIN post : PostFails(i) \/ EmotionAnswered(i) \/ RefineAnswered(i)

\* Refusals, the leaving client and the tasks touch nothing of the line.
LEMMA AsideIsElsewhere == Aside => Elsewhere
  BY DEF Aside, Elsewhere, Reject, ClientLeaves, PostFails, EmotionAnswered, RefineAnswered,
         receiver, asr

\* The steps by what they do to the line.
LEMMA NextCases ==
  ASSUME CleanNext
  PROVE  \/ Closes \/ Aside \/ SessionUpdate \/ AppendQuiet \/ AppendPartial \/ AppendSegment
         \/ Commit \/ Joined \/ Gather
         \/ Get \/ PartialAnswered \/ SegmentFailed \/ SegmentSilent \/ SegmentAnswered
<1>1. CommitNoAudio => EndWith(Error("no_audio")) BY DEF CommitNoAudio
<1>2. ReportFailure => EndWith(Error("server_error")) BY DEF ReportFailure
<1>3. ReportNoSpeech => EndWith(Error("no_speech_detected")) BY DEF ReportNoSpeech
<1> QED BY <1>1, <1>2, <1>3, Zenon DEF CleanNext, Closes, Aside

\* The closing steps shut the session.
LEMMA ClosesShuts == Closes => recv' = "closed" /\ Shut'
<1>1. \A m : EndWith(m) => Close BY Zenon DEF EndWith
<1>2. SendDone => Close BY <1>1, Zenon DEF SendDone
<1>3. NoticeDisconnect => Close BY Zenon DEF NoticeDisconnect
<1> QED BY <1>1, <1>2, <1>3, CloseShuts, Zenon DEF Closes

\* No other step closes it.
LEMMA OpenStays ==
  ASSUME CleanNext, ~Closes, recv # "closed"
  PROVE  recv' # "closed"
<1>1. CASE Aside BY <1>1, AsideIsElsewhere DEF Elsewhere
<1>2. SessionUpdate \/ AppendQuiet \/ AppendPartial \/ AppendSegment \/ Commit \/ Joined
        \/ Gather => recv' # "closed"
  BY DEF SessionUpdate, AppendQuiet, AppendPartial, AppendSegment, Commit, Joined, Gather,
         receiver
<1>3. Get \/ PartialAnswered \/ SegmentFailed \/ SegmentSilent \/ SegmentAnswered =>
        recv' # "closed"
  BY DEF Get, PartialAnswered, SegmentFailed, SegmentSilent, SegmentAnswered, receiver
<1> QED BY <1>1, <1>2, <1>3, NextCases

-----------------------------------------------------------------------------
(* The phases. *)

\* The queue with one event more.
LEMMA Queued ==
  ASSUME queue \in Seq(Events), NEW e \in Events, queue' = Append(queue, e)
  PROVE  /\ Len(queue) \in Nat /\ Len(queue') = Len(queue) + 1 /\ queue' # <<>>
         /\ queue'[Len(queue) + 1] = e
         /\ \A k \in 1..Len(queue) : queue'[k] = queue[k]
  OBVIOUS

\* The queue without its head.
LEMMA Dequeued ==
  ASSUME queue \in Seq(Events), queue # <<>>, queue' = Tail(queue)
  PROVE  /\ Len(queue) \in Nat \ {0} /\ Len(queue') = Len(queue) - 1
         /\ Head(queue) = queue[1] /\ 1 \in 1..Len(queue)
         /\ \A k \in 1..Len(queue') : k + 1 \in 2..Len(queue) /\ queue'[k] = queue[k + 1]
  OBVIOUS

\* A queue and its length.
LEMMA QueueTold ==
  ASSUME queue \in Seq(Events)
  PROVE  /\ Len(queue) \in Nat /\ (queue = <<>> <=> Len(queue) = 0)
         /\ \A k \in 1..Len(queue) : queue[k] \in Events
         /\ (Len(queue) = 1 /\ queue[1] = Sentinel => queue = <<Sentinel>>)
  OBVIOUS

\* What is queued by the receiver.
LEMMA Speaking ==
  ASSUME StreamTypes, speaking # 0
  PROVE  /\ speaking = cut + 1 /\ speaking \in Numbers
         /\ PartialOf(speaking) \in Events /\ SegmentOf(speaking) \in Events
         /\ PartialOf(speaking) # Sentinel /\ SegmentOf(speaking) # Sentinel
<1>1. speaking = cut + 1 /\ speaking \in Numbers BY DEF StreamTypes, Numbers
<1> QED BY <1>1, NewEvents, Kinds DEF Events

\* Every step of the open session keeps the phases.
LEMMA OpenedStays ==
  ASSUME StreamTypes, StreamTypes', Opened, CleanNext, ~Closes
  PROVE  Opened'
<1> USE DEF receiver, asr, cleanup, counts
<1>q. queue \in Seq(Events) /\ queue' \in Seq(Events)
        /\ event \in Partials \cup Segments \cup {Idle}
  BY DEF StreamTypes
<1>i. Idle \notin Events /\ \A e \in Events : e # Sentinel => e \in Partials \cup Segments
  BY Kinds, Zenon DEF Idle, Sentinel, Events
<1>s. options # NoOptions => recv \in Receiver /\ worker \in {"none", "get", "asking", "ended"}
  BY DEF StreamTypes
<1>1. CASE Aside BY <1>1, AsideIsElsewhere DEF Elsewhere, Opened
<1>2. CASE SessionUpdate BY <1>2 DEF SessionUpdate, Opened, Options, NoOptions
<1>3. CASE AppendQuiet BY <1>3 DEF AppendQuiet, Opened
<1>l. ASSUME NEW e \in Events, e # Sentinel, Enqueue(e), recv \in {"receiving", "joining"}
      PROVE  /\ \A k \in 1..Len(queue') : queue'[k] # Sentinel
             /\ Len(queue') = Len(queue) + 1 /\ unfinished' = unfinished + 1 /\ Len(queue) \in Nat
  <2>1. queue' = Append(queue, e) /\ unfinished' = unfinished + 1 BY <1>l DEF Enqueue
  <2>2. /\ Len(queue) \in Nat /\ Len(queue') = Len(queue) + 1
        /\ queue'[Len(queue) + 1] = e /\ \A k \in 1..Len(queue) : queue'[k] = queue[k]
    BY <1>q, <1>l, <2>1, Queued
  <2>3. \A k \in 1..Len(queue) : queue[k] # Sentinel BY <1>l DEF Opened
  <2>4. \A k \in 1..Len(queue) + 1 : queue'[k] # Sentinel BY <1>l, <2>2, <2>3
  <2> QED BY <2>1, <2>2, <2>4
<1>4. CASE AppendPartial
  <2>1. /\ recv = "receiving" /\ Enqueue(PartialOf(speaking)) /\ speaking # 0
        /\ UNCHANGED <<recv, options, speaking, cut, audio, worker, event, workerError, raw>>
    BY <1>4 DEF AppendPartial
  <2>2. /\ \A k \in 1..Len(queue') : queue'[k] # Sentinel
        /\ Len(queue') = Len(queue) + 1 /\ unfinished' = unfinished + 1 /\ Len(queue) \in Nat
    BY <1>l, <2>1, Speaking
  <2> QED BY <2>1, <2>2 DEF Opened
<1>5. CASE AppendSegment
  <2>1. /\ recv = "receiving" /\ Enqueue(SegmentOf(speaking)) /\ speaking # 0
        /\ UNCHANGED <<recv, options, audio, worker, event, workerError, raw>>
    BY <1>5 DEF AppendSegment
  <2>2. /\ \A k \in 1..Len(queue') : queue'[k] # Sentinel
        /\ Len(queue') = Len(queue) + 1 /\ unfinished' = unfinished + 1 /\ Len(queue) \in Nat
    BY <1>l, <2>1, Speaking
  <2> QED BY <2>1, <2>2 DEF Opened
<1>6. CASE Commit
  <2>1. /\ recv = "receiving" /\ recv' = "joining" /\ audio
        /\ UNCHANGED <<options, audio, worker, event, workerError, raw>>
    BY <1>6 DEF Commit
  <2>0. options # NoOptions BY <2>1 DEF Opened
  <2>2. CASE speaking = 0
    <3>1. UNCHANGED <<queue, unfinished>> BY <1>6, <2>2 DEF Commit
    <3> QED BY <2>0, <2>1, <3>1 DEF Opened
  <2>3. CASE speaking # 0
    <3>1. Enqueue(SegmentOf(speaking)) BY <1>6, <2>3 DEF Commit
    <3>2. /\ \A k \in 1..Len(queue') : queue'[k] # Sentinel
          /\ Len(queue') = Len(queue) + 1 /\ unfinished' = unfinished + 1 /\ Len(queue) \in Nat
      BY <1>l, <2>1, <2>3, <3>1, Speaking
    <3> QED BY <2>0, <2>1, <3>2 DEF Opened
  <2> QED BY <2>2, <2>3
<1>7. CASE Joined
  <2>1. /\ recv = "joining" /\ recv' = "stopping" /\ unfinished = 0
        /\ queue' = Append(queue, Sentinel) /\ unfinished' = unfinished + 1
        /\ UNCHANGED <<options, audio, worker, event, workerError, raw>>
    BY <1>7 DEF Joined, Enqueue, Drained
  <2>2. Len(queue) = 0 /\ event = Idle BY <1>q, <2>1, QueueTold DEF Opened
  <2>3. Sentinel \in Events BY DEF Events
  <2>4. Len(queue') = 1 /\ queue'[1] = Sentinel BY <1>q, <2>1, <2>2, <2>3, Queued
  <2>5. queue' = <<Sentinel>> BY <1>q, <2>4
  <2>6. worker = "get"
    BY <2>1, <2>2 DEF Opened, StreamTypes
  <2> QED BY <2>1, <2>2, <2>4, <2>5, <2>6 DEF Opened
<1>8. CASE Gather BY <1>8 DEF Gather, Opened
<1>9. CASE Get
  <2>1. /\ worker = "get" /\ queue # <<>> /\ queue' = Tail(queue)
        /\ UNCHANGED <<recv, options, audio, speaking, cut, workerError, raw>>
    BY <1>9 DEF Get
  <2>2. /\ Len(queue) \in Nat \ {0} /\ Len(queue') = Len(queue) - 1
        /\ Head(queue) = queue[1] /\ 1 \in 1..Len(queue)
        /\ \A k \in 1..Len(queue') : k + 1 \in 2..Len(queue) /\ queue'[k] = queue[k + 1]
    BY <1>q, <2>1, Dequeued
  <2>3. event = Idle /\ unfinished = Len(queue) /\ options # NoOptions BY <2>1 DEF Opened
  <2>4. recv \in {"receiving", "joining"} =>
           /\ queue[1] # Sentinel /\ \A k \in 1..Len(queue') : queue'[k] # Sentinel
    BY <2>2 DEF Opened
  <2>5. recv = "stopping" => queue[1] = Sentinel /\ queue' = <<>>
    <3>1. recv = "stopping" => queue = <<Sentinel>> BY <2>1 DEF Opened
    <3> QED BY <1>q, <2>1, <3>1
  <2>6. recv # "gathering" BY <2>1 DEF Opened
  <2>7. CASE queue[1] = Sentinel
    <3>1. worker' = "ended" /\ unfinished' = unfinished - 1 /\ event' = event
      BY <1>9, <2>2, <2>7 DEF Get
    <3> QED BY <2>1, <2>2, <2>3, <2>4, <2>5, <2>6, <2>7, <3>1 DEF Opened
  <2>8. CASE queue[1] # Sentinel /\ workerError
    <3>1. worker' = "get" /\ unfinished' = unfinished - 1 /\ event' = Idle
      BY <1>9, <2>2, <2>8 DEF Get, TaskDone
    <3> QED BY <2>1, <2>2, <2>3, <2>4, <2>5, <2>6, <2>8, <3>1 DEF Opened
  <2>9. CASE queue[1] # Sentinel /\ ~workerError
    <3>1. worker' = "asking" /\ unfinished' = unfinished /\ event' = queue[1]
      BY <1>9, <2>2, <2>9 DEF Get
    <3>2. event' # Idle BY <1>q, <1>i, <2>2, <3>1, QueueTold
    <3> QED BY <2>1, <2>2, <2>3, <2>4, <2>5, <2>6, <2>9, <3>1, <3>2 DEF Opened
  <2> QED BY <2>7, <2>8, <2>9
<1>10. CASE PartialAnswered BY <1>10 DEF PartialAnswered, TaskDone, AskedFor, Opened
<1>11. CASE SegmentFailed BY <1>11 DEF SegmentFailed, TaskDone, AskedFor, Opened
<1>12. CASE SegmentSilent BY <1>12 DEF SegmentSilent, TaskDone, AskedFor, Opened
<1>13. CASE SegmentAnswered BY <1>13 DEF SegmentAnswered, TaskDone, AskedFor, Opened
<1> QED
  BY <1>1, <1>2, <1>3, <1>4, <1>5, <1>6, <1>7, <1>8, <1>9, <1>10, <1>11, <1>12, <1>13, NextCases

-----------------------------------------------------------------------------
(* The line of utterances. *)

\* What leaves the line alone, or puts the sentinel behind it.
LEMMA LineStays ==
  ASSUME StreamTypes, InLine, UNCHANGED <<cut, event, workerError, raw, silent>>,
         UNCHANGED queue \/ queue' = Append(queue, Sentinel)
  PROVE  InLine'
<1>1. CASE UNCHANGED queue
  BY <1>1 DEF InLine, Ordered, Reached, Seen, Behind, Passed, NoneDropped, Waits, Confirmed
<1>2. CASE queue' = Append(queue, Sentinel)
  <2>1. /\ Len(queue) \in Nat /\ Len(queue') = Len(queue) + 1
        /\ queue'[Len(queue) + 1] = Sentinel
        /\ \A k \in 1..Len(queue) : queue'[k] = queue[k]
    <3>1. Sentinel \in Events BY DEF Events
    <3> QED BY <1>2, <3>1, Queued DEF StreamTypes
  <2>2. \A k \in 1..Len(queue') : queue'[k] # Sentinel =>
          k \in 1..Len(queue) /\ queue'[k] = queue[k]
    BY <2>1
  <2>3. Ordered' BY <2>1, <2>2 DEF InLine, Ordered
  <2>4. Reached' BY <2>1, <2>2 DEF InLine, Reached, Seen
  <2>5. Behind' BY <2>1, <2>2 DEF InLine, Behind, Passed, Confirmed
  <2>6. \A u : Waits(u) => Waits(u)' BY <2>1 DEF Waits
  <2>7. NoneDropped' BY <2>6 DEF InLine, NoneDropped, Confirmed
  <2> QED BY <2>3, <2>4, <2>5, <2>7 DEF InLine
<1> QED BY <1>1, <1>2

\* What is told of everything in the line.
LEMMA LineTypes ==
  ASSUME StreamTypes
  PROVE  /\ cut \in Nat
         /\ event # Idle => event.utterance \in Numbers /\ event.kind \in {"partial", "segment"}
         /\ \A k \in 1..Len(queue) : queue[k] # Sentinel =>
               queue[k].utterance \in Numbers /\ queue[k].kind \in {"partial", "segment"}
         /\ \A u \in Confirmed : u \in Numbers
         /\ \A u \in Numbers : u \in Nat /\ u > 0
<1>1. \A k \in 1..Len(queue) : queue[k] \in Events BY QueueTold DEF StreamTypes
<1>2. \A k \in DOMAIN raw : raw[k] \in Numbers BY DEF StreamTypes
<1>3. \A u \in Confirmed : u \in Numbers BY <1>2 DEF Confirmed, ToSet, StreamTypes
<1>4. \A u \in Numbers : u \in Nat /\ u > 0 BY DEF Numbers
<1>5. /\ cut \in Nat /\ event \in Partials \cup Segments \cup {Idle} BY DEF StreamTypes
<1>6. \A e \in Partials \cup Segments : e.utterance \in Numbers
        /\ e.kind \in {"partial", "segment"}
  BY Kinds, Zenon
<1>7. \A e \in Events : e # Sentinel => e \in Partials \cup Segments BY Zenon DEF Events
<1>8. event # Idle => event \in Partials \cup Segments BY <1>5, Zenon
<1> QED BY <1>1, <1>3, <1>4, <1>5, <1>6, <1>7, <1>8, Zenon

\* An event of the open utterance joins the line.
LEMMA LineGrows ==
  ASSUME StreamTypes, InLine, NEW e \in Events, queue' = Append(queue, e),
         UNCHANGED <<event, workerError, raw, silent>>,
         \/ e = PartialOf(cut + 1) /\ cut' = cut
         \/ e = SegmentOf(cut + 1) /\ cut' = cut + 1,
         \A k \in 1..Len(queue) : queue[k] # Sentinel
  PROVE  InLine'
<1>1. /\ Len(queue) \in Nat /\ Len(queue') = Len(queue) + 1
      /\ queue'[Len(queue) + 1] = e
      /\ \A k \in 1..Len(queue) : queue'[k] = queue[k]
  BY Queued DEF StreamTypes
<1>2. \A k \in 1..Len(queue') : k = Len(queue) + 1 \/ k \in 1..Len(queue) BY <1>1
<1>3. /\ e.utterance = cut + 1 /\ e # Sentinel /\ cut \in Nat
      /\ \/ e.kind = "partial" /\ cut' = cut
         \/ e.kind = "segment" /\ cut' = cut + 1 /\ e = SegmentOf(cut + 1)
  <2>1. cut \in Nat BY DEF StreamTypes
  <2>k. Sentinel.kind = "none" BY Kinds
  <2>2. CASE e = PartialOf(cut + 1) /\ cut' = cut
    <3>1. e.kind = "partial" /\ e.utterance = cut + 1 BY <2>2 DEF PartialOf
    <3>2. e # Sentinel BY <2>k, <3>1
    <3> QED BY <2>1, <2>2, <3>1, <3>2
  <2>3. CASE e = SegmentOf(cut + 1) /\ cut' = cut + 1
    <3>1. e.kind = "segment" /\ e.utterance = cut + 1 BY <2>3 DEF SegmentOf
    <3>2. e # Sentinel BY <2>k, <3>1
    <3> QED BY <2>1, <2>3, <3>1, <3>2
  <2> QED BY <2>2, <2>3
<1>4. /\ event # Idle => event.utterance \in Nat
      /\ \A k \in 1..Len(queue) : queue[k].utterance \in Nat
  BY LineTypes
<1>f. cut' \in Nat /\ cut' >= cut /\ cut' <= cut + 1 /\ (e.kind = "segment" => cut' = cut + 1)
  <2>1. CASE e.kind = "partial" /\ cut' = cut BY <1>3, <2>1
  <2>2. CASE e.kind = "segment" /\ cut' = cut + 1 BY <1>3, <2>2
  <2> QED BY <1>3, <2>1, <2>2
<1>5. \A f : f.utterance \in Nat /\ Seen(f) => Before(f, e) /\ (Seen(f))'
  <2> SUFFICES ASSUME NEW f, f.utterance \in Nat, Seen(f) PROVE Before(f, e) /\ (Seen(f))'
    OBVIOUS
  <2>1. f.utterance <= cut + 1 /\ (f.kind = "segment" => f.utterance <= cut) BY DEF Seen
  <2>2. cut' \in Nat /\ cut' >= cut BY <1>f
  <2> QED BY <1>3, <2>1, <2>2 DEF Seen, Before
<1>6. Seen(e)'
  <2>1. CASE e.kind = "partial" /\ cut' = cut BY <1>3, <2>1 DEF Seen
  <2>2. CASE e.kind = "segment" /\ cut' = cut + 1 BY <1>3, <2>2 DEF Seen
  <2> QED BY <1>3, <2>1, <2>2
<1>7. Ordered'
  <2>1. \A j, k \in 1..Len(queue') : j < k /\ queue'[k] # Sentinel => Before(queue'[j], queue'[k])
    <3> SUFFICES ASSUME NEW j \in 1..Len(queue'), NEW k \in 1..Len(queue'), j < k
                 PROVE  Before(queue'[j], queue'[k])
      OBVIOUS
    <3>1. j \in 1..Len(queue) /\ queue'[j] = queue[j] /\ queue[j] # Sentinel BY <1>1
    <3>2. CASE k = Len(queue) + 1
      <4>1. Seen(queue[j]) BY <3>1 DEF InLine, Reached
      <4> QED BY <1>1, <1>4, <1>5, <3>1, <3>2, <4>1
    <3>3. CASE k \in 1..Len(queue) BY <1>1, <3>1, <3>3 DEF InLine, Ordered
    <3> QED BY <1>2, <3>2, <3>3
  <2>2. ASSUME NEW k \in 1..Len(queue'), event' # Idle, queue'[k] # Sentinel
        PROVE  Before(event', queue'[k])
    <3>1. CASE k = Len(queue) + 1
      <4>1. Seen(event) BY <2>2 DEF InLine, Reached
      <4> QED BY <1>1, <1>4, <1>5, <2>2, <3>1, <4>1
    <3>2. CASE k \in 1..Len(queue) BY <1>1, <2>2, <3>2 DEF InLine, Ordered
    <3> QED BY <1>2, <3>1, <3>2
  <2> QED BY <2>1, <2>2 DEF Ordered
<1>8. Reached' BY <1>1, <1>2, <1>4, <1>5, <1>6 DEF InLine, Reached
<1>9. Behind'
  <2>1. ASSUME NEW u \in Confirmed PROVE (Passed(u))'
    <3>1. Passed(u) /\ u \in Nat /\ u <= cut BY <2>1 DEF InLine, Behind, Passed
    <3>2. u <= cut' /\ u < e.utterance BY <1>3, <3>1
    <3> QED BY <1>1, <1>2, <3>1, <3>2 DEF Passed
  <2> QED BY <2>1 DEF InLine, Behind, Confirmed
<1>10. NoneDropped'
  <2>1. \A u : Waits(u) => Waits(u)' BY <1>1 DEF Waits
  <2>2. ASSUME NEW u \in 1..cut', u \notin 1..cut PROVE Waits(u)'
    <3>1. u = cut + 1 /\ e = SegmentOf(u) BY <1>3, <2>2
    <3> QED BY <1>1, <3>1 DEF Waits
  <2> QED BY <2>1, <2>2 DEF InLine, NoneDropped, Confirmed
<1> QED BY <1>7, <1>8, <1>9, <1>10 DEF InLine

\* The worker takes the head of the line, or drops it after a failure.
LEMMA LineMoves ==
  ASSUME StreamTypes, InLine, queue # <<>>, queue' = Tail(queue), event = Idle,
         UNCHANGED <<cut, workerError, raw, silent>>,
         \/ event' = queue[1] /\ queue[1] # Sentinel
         \/ event' = Idle /\ (workerError \/ queue[1] = Sentinel)
  PROVE  InLine'
<1>1. /\ Len(queue) \in Nat \ {0} /\ Len(queue') = Len(queue) - 1
      /\ 1 \in 1..Len(queue)
      /\ \A k \in 1..Len(queue') : k + 1 \in 2..Len(queue) /\ queue'[k] = queue[k + 1]
  BY Dequeued DEF StreamTypes
<1>2. Ordered'
  <2>1. ASSUME NEW j \in 1..Len(queue'), NEW k \in 1..Len(queue'), j < k, queue'[k] # Sentinel
        PROVE  Before(queue'[j], queue'[k])
    <3>1. j + 1 \in 1..Len(queue) /\ k + 1 \in 1..Len(queue) /\ j + 1 < k + 1
          /\ queue'[k] = queue[k + 1] /\ queue'[j] = queue[j + 1]
      BY <1>1, <2>1
    <3> QED BY <2>1, <3>1 DEF InLine, Ordered
  <2>2. ASSUME NEW k \in 1..Len(queue'), event' # Idle, queue'[k] # Sentinel
        PROVE  Before(event', queue'[k])
    <3>1. k + 1 \in 1..Len(queue) /\ 1 < k + 1 /\ queue'[k] = queue[k + 1] /\ event' = queue[1]
      BY <1>1, <2>2
    <3> QED BY <1>1, <2>2, <3>1 DEF InLine, Ordered
  <2> QED BY <2>1, <2>2 DEF Ordered
<1>3. Reached' BY <1>1 DEF InLine, Reached, Seen
<1>4. Behind' BY <1>1 DEF InLine, Behind, Passed, Confirmed
<1>5. NoneDropped'
  <2>1. ASSUME NEW u \in 1..cut, Waits(u), ~workerError PROVE Waits(u)'
    <3>1. PICK k \in 1..Len(queue) : queue[k] = SegmentOf(u)
      BY <2>1 DEF Waits, Idle, SegmentOf
    <3>2. CASE k = 1
      <4>1. queue[1] # Sentinel BY <3>1, <3>2 DEF SegmentOf, Sentinel
      <4> QED BY <2>1, <3>1, <3>2, <4>1 DEF Waits
    <3>3. CASE k # 1
      <4>1. k - 1 \in 1..Len(queue') /\ queue'[k - 1] = queue[k] BY <1>1, <3>3
      <4> QED BY <3>1, <4>1 DEF Waits
    <3> QED BY <3>2, <3>3
  <2> QED BY <2>1 DEF InLine, NoneDropped, Confirmed
<1> QED BY <1>2, <1>3, <1>4, <1>5 DEF InLine

\* The event in the worker's hands is settled, skipped or fails.
LEMMA LineSettles ==
  ASSUME StreamTypes, InLine, event # Idle, event' = Idle, UNCHANGED <<cut, queue>>,
         workerError => workerError',
         \/ UNCHANGED <<raw, silent>> /\ (event.kind = "partial" \/ workerError')
         \/ event.kind = "segment" /\ silent' = silent \cup {event.utterance} /\ UNCHANGED raw
         \/ event.kind = "segment" /\ raw' = Append(raw, event.utterance) /\ UNCHANGED silent
  PROVE  InLine'
<1>1. Ordered' BY DEF InLine, Ordered
<1>2. Reached' BY DEF InLine, Reached, Seen
<1>0. PICK n : n = event.utterance OBVIOUS
<1>3. raw \in Seq(Numbers) /\ n \in Numbers /\ n \in Nat BY <1>0, LineTypes DEF StreamTypes
<1>4. /\ Confirmed \subseteq Confirmed'
      /\ \A u \in Confirmed' : u \in Confirmed \/ (u = n /\ event.kind = "segment")
      /\ event.kind = "segment" /\ ~workerError' => n \in Confirmed'
  <2>k. event.kind = "partial" => event.kind # "segment" OBVIOUS
  <2>1. CASE UNCHANGED <<raw, silent>> /\ (event.kind = "partial" \/ workerError')
    BY <2>k, <2>1 DEF Confirmed
  <2>2. CASE event.kind = "segment" /\ silent' = silent \cup {n} /\ UNCHANGED raw
    BY <2>2 DEF Confirmed
  <2>3. CASE event.kind = "segment" /\ raw' = Append(raw, n) /\ UNCHANGED silent
    <3>1. IsMore(raw', raw, n) BY <1>3, <2>3, AppendIs
    <3>2. ToSet(raw') = ToSet(raw) \cup {n} BY <3>1 DEF IsMore, ToSet
    <3> QED BY <2>3, <3>2 DEF Confirmed
  <2> QED BY <1>0, <2>1, <2>2, <2>3
<1>5. n \notin Confirmed BY <1>0, <1>3 DEF InLine, Behind, Passed
<1>6. Behind'
  <2>1. ASSUME event.kind = "segment" PROVE (Passed(n))'
    <3>1. n <= cut BY <1>0, <2>1 DEF InLine, Reached, Seen
    <3>2. \A k \in 1..Len(queue) : queue[k] # Sentinel => n < queue[k].utterance
      BY <1>0, <2>1 DEF InLine, Ordered, Before
    <3> QED BY <1>3, <3>1, <3>2 DEF Passed
  <2>2. ASSUME NEW u \in Confirmed PROVE (Passed(u))' BY <2>2 DEF InLine, Behind, Passed
  <2>3. \A u \in Confirmed' : (Passed(u))' BY <1>4, <2>1, <2>2
  <2>4. /\ \A k \in 2..Len(raw') : raw'[k - 1] < raw'[k]
        /\ ToSet(raw') \cap silent' = {}
    <3>1. CASE UNCHANGED <<raw, silent>> BY <3>1 DEF InLine, Behind
    <3>2. CASE silent' = silent \cup {n} /\ UNCHANGED raw
      BY <1>5, <3>2 DEF InLine, Behind, Confirmed
    <3>3. CASE raw' = Append(raw, n) /\ UNCHANGED silent
      <4>1. IsMore(raw', raw, n) BY <1>3, <3>3, AppendIs
      <4>2. ToSet(raw') = ToSet(raw) \cup {n} BY <4>1 DEF IsMore, ToSet
      <4>3. \A k \in 1..Len(raw) : raw[k] \in Nat /\ raw[k] < n
        <5>1. \A k \in 1..Len(raw) : raw[k] \in Confirmed BY <4>1 DEF IsMore, Confirmed, ToSet
        <5> QED BY <1>0, <5>1 DEF InLine, Behind, Passed
      <4>r. \A k \in 2..Len(raw) : raw[k - 1] < raw[k] BY DEF InLine, Behind
      <4>4. \A k \in 2..Len(raw') : raw'[k - 1] < raw'[k]
        <5> SUFFICES ASSUME NEW k \in 2..Len(raw') PROVE raw'[k - 1] < raw'[k] OBVIOUS
        <5>1. k - 1 \in 1..Len(raw) /\ raw'[k - 1] = raw[k - 1] BY <4>1 DEF IsMore
        <5>2. CASE k = Len(raw) + 1 BY <4>1, <4>3, <5>1, <5>2 DEF IsMore
        <5>3. CASE k \in 2..Len(raw) BY <4>1, <4>r, <5>1, <5>3 DEF IsMore
        <5> QED BY <4>1, <5>2, <5>3 DEF IsMore
      <4> QED BY <1>5, <3>3, <4>2, <4>4 DEF InLine, Behind, Confirmed
    <3> QED BY <1>0, <3>1, <3>2, <3>3
  <2> QED BY <2>3, <2>4 DEF Behind
<1>7. NoneDropped'
  <2>1. ASSUME NEW u \in 1..cut, Waits(u), ~workerError' PROVE u \in Confirmed' \/ Waits(u)'
    <3>1. CASE event = SegmentOf(u)
      <4>1. event.kind = "segment" /\ n = u BY <1>0, <3>1 DEF SegmentOf
      <4> QED BY <1>4, <2>1, <4>1
    <3>2. CASE event # SegmentOf(u) BY <2>1, <3>2 DEF Waits
    <3> QED BY <3>1, <3>2
  <2> QED BY <1>4, <2>1 DEF InLine, NoneDropped
<1> QED BY <1>1, <1>2, <1>6, <1>7 DEF InLine

\* Every step of the open session keeps the line.
LEMMA LineHolds ==
  ASSUME StreamTypes, Opened, InLine, CleanNext, ~Closes
  PROVE  InLine'
<1> USE DEF receiver, asr
<1>0. \A e : Enqueue(e) => queue' = Append(queue, e) BY DEF Enqueue
<1>1. CASE Aside BY <1>1, LineStays, AsideIsElsewhere DEF Elsewhere
<1>2. CASE SessionUpdate \/ AppendQuiet \/ Gather \/ Joined
  BY <1>0, <1>2, LineStays DEF SessionUpdate, AppendQuiet, Gather, Joined
<1>3. CASE AppendPartial
  BY <1>0, <1>3, LineGrows, Speaking DEF AppendPartial, Opened
<1>4. CASE AppendSegment
  BY <1>0, <1>4, LineGrows, Speaking DEF AppendSegment, Opened
<1>5. CASE Commit
  <2>1. CASE speaking = 0 BY <1>5, <2>1, LineStays DEF Commit
  <2>2. CASE speaking # 0 BY <1>0, <1>5, <2>2, LineGrows, Speaking DEF Commit, Opened
  <2> QED BY <2>1, <2>2
<1>6. CASE Get
  <2>1. event = Idle BY <1>6 DEF Get, Opened
  <2>2. Head(queue) = queue[1] BY <1>6, Dequeued DEF Get, StreamTypes
  <2> QED BY <1>6, <2>1, <2>2, LineMoves DEF Get, TaskDone
<1>7. ASSUME NEW kind, AskedFor(kind) PROVE event # Idle /\ event.kind = kind
  BY <1>7 DEF AskedFor, Opened
<1>8. CASE PartialAnswered
  <2>1. workerError => workerError' BY <1>8, Sends DEF PartialAnswered, StreamTypes
  <2> QED BY <1>7, <1>8, <2>1, LineSettles DEF PartialAnswered, TaskDone
<1>9. CASE SegmentFailed BY <1>7, <1>9, LineSettles DEF SegmentFailed, TaskDone
<1>10. CASE SegmentSilent BY <1>7, <1>10, LineSettles DEF SegmentSilent, TaskDone
<1>11. CASE SegmentAnswered
  <2>1. workerError => workerError' BY <1>11, Sends DEF SegmentAnswered, StreamTypes
  <2> QED BY <1>7, <1>11, <2>1, LineSettles DEF SegmentAnswered, TaskDone
<1> QED BY <1>1, <1>2, <1>3, <1>4, <1>5, <1>6, <1>8, <1>9, <1>10, <1>11, NextCases

-----------------------------------------------------------------------------
(* The post-processing tasks. *)

\* The session begins without tasks.
LEMMA InitPost == CleanInit => PostTypes /\ Tasks
<1> SUFFICES ASSUME CleanInit PROVE PostTypes /\ Tasks OBVIOUS
<1>1. post = <<>> /\ processed_segments = <<>> /\ raw = <<>> /\ out = <<>> /\ failed = FALSE
  BY DEF CleanInit
<1>2. PostTypes
  <2>1. <<>> \in Seq(Progress) /\ <<>> \in Seq(Forms) /\ Len(<<>>) = 0 OBVIOUS
  <2>2. post \in Seq(Progress) /\ processed_segments \in Seq(Forms) BY <1>1, <2>1, Zenon
  <2>3. Len(post) = 0 /\ Len(processed_segments) = 0 /\ Len(raw) = 0 BY <1>1, <2>1, Zenon
  <2>4. failed \in BOOLEAN BY <1>1
  <2>5. Len(post) <= Len(raw) /\ Len(processed_segments) = Len(raw) BY <2>3
  <2> QED BY <2>2, <2>4, <2>5 DEF PostTypes
<1>3. \A i : ~Announced(i) BY <1>1 DEF Announced
<1> QED BY <1>1, <1>2, <1>3 DEF Tasks

\* What a message does to what was announced.
LEMMA AnnouncedIs ==
  ASSUME \E S : out \in Seq(S), NEW e, Sent(e), NEW i, ~IsRefined(e, i)
  PROVE  Announced(i)' <=> Announced(i)
<1>1. CASE out' = out BY <1>1 DEF Announced
<1>2. CASE out' = Append(out, e)
  <2>1. PICK S : out \in Seq(S) OBVIOUS
  <2>2. IsMore(out', out, e) BY <1>2, <2>1, AppendIs
  <2> QED BY <2>2 DEF IsMore, Announced
<1> QED BY <1>1, <1>2 DEF Sent

\* A refined form sent is announced.
LEMMA NowAnnounced ==
  ASSUME \E S : out \in Seq(S), NEW e, out' = Append(out, e), NEW i, IsRefined(e, i)
  PROVE  Announced(i)'
<1>1. PICK S : out \in Seq(S) OBVIOUS
<1>2. IsMore(out', out, e) BY <1>1, AppendIs
<1> QED BY <1>2 DEF IsMore, Announced

\* Whatever leaves the tasks alone.
LEMMA TasksStay ==
  ASSUME StreamTypes, PostTypes, Tasks, UNCHANGED <<raw, post, processed_segments, failed>>,
         UNCHANGED options \/ Len(post) = 0,
         workerError => workerError', workerError' \in BOOLEAN,
         NEW e, Sent(e), e.kind # "postprocess"
  PROVE  PostTypes' /\ Tasks'
<1>1. \A i : ~IsRefined(e, i)
  <2> SUFFICES ASSUME NEW i, IsRefined(e, i) PROVE FALSE OBVIOUS
  <2>1. e.kind = "postprocess" BY DEF IsRefined
  <2> QED BY <2>1
<1>2. \A i : Announced(i)' <=> Announced(i) BY <1>1, AnnouncedIs DEF StreamTypes
<1>3. PostTypes' BY DEF PostTypes
<1>4. Len(post) \in Nat BY DEF PostTypes
<1>5. \A i \in 1..Len(post) : (Formed(i))'
  <2>1. CASE UNCHANGED options BY <2>1 DEF Tasks, Formed
  <2>2. CASE Len(post) = 0 BY <2>2
  <2> QED BY <2>1, <2>2
<1>6. Tasks'
  <2>1. Len(post) > 0 => options' # NoOptions
    <3>1. Len(post) > 0 => options # NoOptions BY DEF Tasks
    <3>2. Len(post) > 0 => Len(post) # 0 BY <1>4
    <3> QED BY <3>1, <3>2
  <2> QED BY <1>2, <1>5, <2>1 DEF Tasks
<1> QED BY <1>3, <1>6

\* A segment more.
LEMMA TaskStarts ==
  ASSUME StreamTypes, PostTypes, Tasks, Opened, SegmentAnswered
  PROVE  PostTypes' /\ Tasks'
<1>1. /\ raw' = Append(raw, event.utterance)
           /\ processed_segments' = Append(processed_segments, "unset")
      /\ post' = IF workerError' THEN post ELSE Append(post, FirstStep)
      /\ UNCHANGED <<options, failed>> /\ worker = "asking"
  BY DEF SegmentAnswered, AskedFor, receiver
<1>2. workerError' \in BOOLEAN /\ (workerError => workerError') /\ Sent(Delta(raw', event))
  BY Sends DEF SegmentAnswered, StreamTypes
<1>3. Len(post) \in Nat /\ Len(raw) \in Nat /\ Len(post) <= Len(raw)
        /\ Len(processed_segments) = Len(raw)
      /\ post \in Seq(Progress) /\ processed_segments \in Seq(Forms)
  BY DEF PostTypes, StreamTypes
<1>4. IsMore(raw', raw, event.utterance)
        /\ IsMore(processed_segments', processed_segments, "unset")
  BY <1>1, <1>3, AppendIs DEF StreamTypes
<1>5. FirstStep \in {"emotion", "refine", "done"} /\ (FirstStep = "done" =>
        options.refine = "off")
  BY DEF FirstStep
<1>6. ~workerError' =>
        Len(post) = Len(raw) /\ IsMore(post', post, FirstStep) /\ post' \in Seq(Progress)
  <2> SUFFICES ASSUME ~workerError'
               PROVE  Len(post) = Len(raw) /\ IsMore(post', post, FirstStep)
                 /\ post' \in Seq(Progress)
    OBVIOUS
  <2>1. post' = Append(post, FirstStep) BY <1>1
  <2>2. Len(post) = Len(raw) BY <1>2 DEF Tasks
  <2>3. post' \in Seq(Progress) BY <1>3, <1>5, <2>1 DEF Progress
  <2> QED BY <1>3, <2>1, <2>2, <2>3, AppendIs
<1>7. workerError' => post' = post BY <1>1
<1>8. PostTypes'
  <2>1. processed_segments' \in Seq(Forms) BY <1>1, <1>3 DEF Forms
  <2>2. Len(processed_segments') = Len(raw') BY <1>3, <1>4 DEF IsMore
  <2>3. post' \in Seq(Progress) /\ Len(post') <= Len(raw')
    BY <1>2, <1>3, <1>4, <1>6, <1>7 DEF IsMore
  <2> QED BY <1>1, <2>1, <2>2, <2>3 DEF PostTypes
<1>9. \A i : Announced(i)' <=> Announced(i)
  <2>1. \A i : ~IsRefined(Delta(raw', event), i)
    <3> SUFFICES ASSUME NEW i, IsRefined(Delta(raw', event), i) PROVE FALSE OBVIOUS
    <3>1. Delta(raw', event).kind = "delta" BY DEF Delta
    <3>2. Delta(raw', event).kind = "postprocess" BY DEF IsRefined
    <3> QED BY <3>1, <3>2
  <2>2. PICK e : e = Delta(raw', event) OBVIOUS
  <2> QED BY <1>2, <2>1, <2>2, AnnouncedIs DEF StreamTypes
<1>10. \A i \in 1..Len(raw) : processed_segments'[i] = processed_segments[i] /\ i \in 1..Len(raw')
  BY <1>3, <1>4 DEF IsMore
<1>11. processed_segments'[Len(raw) + 1] = "unset" /\ Len(raw') = Len(raw) + 1
  BY <1>3, <1>4 DEF IsMore
<1>12. \A i \in 1..Len(post') : (Formed(i))'
  <2> SUFFICES ASSUME NEW i \in 1..Len(post') PROVE (Formed(i))' OBVIOUS
  <2>1. CASE i \in 1..Len(post)
    <3>1. post'[i] = post[i] /\ i \in 1..Len(raw)
      BY <1>2, <1>3, <1>6, <1>7, <2>1 DEF IsMore
    <3>2. Formed(i) BY <2>1 DEF Tasks
    <3> QED BY <1>1, <1>10, <3>1, <3>2 DEF Formed
  <2>2. CASE i \notin 1..Len(post)
    <3>1. i = Len(raw) + 1 /\ post'[i] = FirstStep BY <1>2, <1>3, <1>6, <1>7, <2>2 DEF IsMore
    <3> QED BY <1>1, <1>5, <1>11, <3>1 DEF Formed
  <2> QED BY <2>1, <2>2
<1>13. \A i \in 1..Len(raw') : i > Len(post') => processed_segments'[i] = "unset"
  <2> SUFFICES ASSUME NEW i \in 1..Len(raw'), i > Len(post')
               PROVE  processed_segments'[i] = "unset" OBVIOUS
  <2>1. CASE i = Len(raw) + 1 BY <1>11, <2>1
  <2>2. CASE i \in 1..Len(raw)
    <3>1. i > Len(post) BY <1>2, <1>3, <1>6, <1>7 DEF IsMore
    <3> QED BY <1>10, <2>2, <3>1 DEF Tasks
  <2> QED BY <1>3, <1>11, <2>1, <2>2
<1>14. failed' <=> \E i \in 1..Len(raw') : processed_segments'[i] = "raw"
  <2>1. \A i \in 1..Len(raw') : processed_segments'[i] = "raw" => i \in 1..Len(raw) BY <1>3, <1>11
  <2> QED BY <1>1, <1>10, <2>1 DEF Tasks
<1>15. \A i \in Nat : (i \in 1..Len(raw') /\ processed_segments'[i] = "refined") <=>
         (i \in 1..Len(raw) /\ processed_segments[i] = "refined")
  BY <1>3, <1>10, <1>11
<1>16. ~workerError' => Len(post') = Len(raw') BY <1>3, <1>6, <1>11 DEF IsMore
<1>17. options' # NoOptions BY <1>1 DEF Opened
<1>18. Tasks' BY <1>9, <1>12, <1>13, <1>14, <1>15, <1>16, <1>17 DEF Tasks
<1> QED BY <1>8, <1>18

\* A task takes a step.
LEMMA TaskSteps ==
  ASSUME StreamTypes, PostTypes, Tasks, NEW i \in 1..Len(post), NEW p \in Progress,
    NEW t \in Forms,
         post[i] \in {"emotion", "refine"}, post' = [post EXCEPT ![i] = p],
         UNCHANGED <<raw, options, workerError>>,
         \/ p = "refine" \/ (p = "done" /\ (options.refine # "off" => t # "unset")),
         t = "unset" \/ p = "done",
         processed_segments' = [processed_segments EXCEPT ![i] = t],
         failed' = (failed \/ t = "raw"),
         NEW e, Sent(e), t = "refined" => out' = Append(out, e),
         \A k : IsRefined(e, k) <=> k = i /\ t = "refined"
  PROVE  PostTypes' /\ Tasks'
<1>1. Len(post) \in Nat /\ Len(raw) \in Nat /\ Len(post) <= Len(raw)
        /\ Len(processed_segments) = Len(raw)
      /\ post \in Seq(Progress) /\ processed_segments \in Seq(Forms) /\ failed \in BOOLEAN
  BY DEF PostTypes, StreamTypes
<1>2. /\ post' \in Seq(Progress) /\ Len(post') = Len(post) /\ post'[i] = p
      /\ \A k \in 1..Len(post) : k # i => post'[k] = post[k]
  BY <1>1
<1>3. /\ processed_segments' \in Seq(Forms)
           /\ Len(processed_segments') = Len(processed_segments) /\ processed_segments'[i] = t
      /\ \A k \in 1..Len(raw) : k # i => processed_segments'[k] = processed_segments[k]
      /\ i \in 1..Len(raw) /\ i \in Nat
  BY <1>1
<1>4. PostTypes' BY <1>1, <1>2, <1>3 DEF PostTypes
<1>5. processed_segments[i] = "unset" BY DEF Tasks, Formed
<1>6. \A k \in 1..Len(post) : (Formed(k))'
  <2> SUFFICES ASSUME NEW k \in 1..Len(post) PROVE (Formed(k))' OBVIOUS
  <2>1. Formed(k) /\ k \in 1..Len(raw) BY <1>1 DEF Tasks
  <2>2. CASE k = i BY <1>2, <1>3, <2>2 DEF Formed
  <2>3. CASE k # i BY <1>2, <1>3, <2>1, <2>3 DEF Formed
  <2> QED BY <2>2, <2>3
<1>7. failed' <=> \E k \in 1..Len(raw) : processed_segments'[k] = "raw"
  <2>1. failed <=> \E k \in 1..Len(raw) : processed_segments[k] = "raw" BY DEF Tasks
  <2>2. CASE t = "raw" BY <1>3, <2>2
  <2>3. CASE t # "raw"
    <3>1. \A k \in 1..Len(raw) : processed_segments'[k] = "raw" <=> processed_segments[k] = "raw"
      BY <1>3, <1>5, <2>3
    <3> QED BY <2>1, <2>3, <3>1
  <2> QED BY <2>2, <2>3
<1>8. \A k \in Nat : (Announced(k))' <=> k \in 1..Len(raw) /\ processed_segments'[k] = "refined"
  <2> SUFFICES ASSUME NEW k \in Nat
               PROVE  (Announced(k))' <=> k \in 1..Len(raw) /\ processed_segments'[k] = "refined"
    OBVIOUS
  <2>1. Announced(k) <=> k \in 1..Len(raw) /\ processed_segments[k] = "refined" BY DEF Tasks
  <2>2. CASE k = i /\ t = "refined"
    <3>1. (Announced(k))' BY <2>2, NowAnnounced DEF StreamTypes
    <3> QED BY <1>3, <2>2, <3>1
  <2>3. CASE ~(k = i /\ t = "refined")
    <3>1. (Announced(k))' <=> Announced(k) BY <2>3, AnnouncedIs DEF StreamTypes
    <3>2. k \in 1..Len(raw) =>
            (processed_segments'[k] = "refined" <=> processed_segments[k] = "refined")
      BY <1>3, <1>5, <2>3
    <3> QED BY <2>1, <3>1, <3>2
  <2> QED BY <2>2, <2>3
<1>9. \A k \in 1..Len(raw) : k > Len(post) => processed_segments'[k] = "unset"
  BY <1>1, <1>3 DEF Tasks
<1>10. Tasks' BY <1>2, <1>6, <1>7, <1>8, <1>9 DEF Tasks
<1> QED BY <1>4, <1>10

\* Every step of the open session keeps what the tasks leave.
LEMMA TasksHold ==
  ASSUME StreamTypes, PostTypes, Opened, Tasks, CleanNext, ~Closes
  PROVE  PostTypes' /\ Tasks'
<1> USE DEF receiver, asr, cleanup, counts
<1>0. workerError \in BOOLEAN BY DEF StreamTypes
<1>k. Error("refused").kind # "postprocess" /\ \A t, e : Delta(t, e).kind # "postprocess"
  BY DEF Error, Delta
<1>1. CASE Reject
  <2>1. Sent(Error("refused"))
          /\ UNCHANGED <<raw, post, processed_segments, failed, options, workerError>>
    BY <1>1 DEF Reject, Sent
  <2> QED BY <1>0, <1>k, <2>1, TasksStay
<1>n. ASSUME UNCHANGED <<raw, post, processed_segments, failed, out>>, UNCHANGED options
               \/ Len(post) = 0,
             workerError => workerError', workerError' \in BOOLEAN
      PROVE  PostTypes' /\ Tasks'
  <2>1. Sent(Error("refused")) BY <1>n DEF Sent
  <2> QED BY <1>k, <1>n, <2>1, TasksStay
<1>2. CASE SessionUpdate
  <2>1. Len(post) = 0 BY <1>2 DEF SessionUpdate, Tasks, PostTypes
  <2> QED BY <1>0, <1>2, <1>n, <2>1 DEF SessionUpdate
<1>3. CASE AppendQuiet \/ AppendPartial \/ AppendSegment \/ Commit \/ Joined \/ Gather
             \/ ClientLeaves
  BY <1>0, <1>3, <1>n DEF AppendQuiet, AppendPartial, AppendSegment, Commit, Joined, Gather,
                          ClientLeaves
<1>4. CASE Get BY <1>0, <1>4, <1>n DEF Get
<1>5. CASE SegmentFailed \/ SegmentSilent BY <1>0, <1>5, <1>n DEF SegmentFailed, SegmentSilent
<1>6. CASE PartialAnswered
  <2>1. UNCHANGED <<raw, post, processed_segments, failed, options>> BY <1>6 DEF PartialAnswered
  <2>2. CASE UNCHANGED <<emitted, workerError, out>> BY <1>0, <1>n, <2>1, <2>2
  <2>3. ASSUME NEW shown, SendText(shown) PROVE PostTypes' /\ Tasks'
    <3>1. workerError' \in BOOLEAN /\ (workerError => workerError') /\ Sent(Delta(shown, event))
      BY <1>0, <2>3, Sends
    <3>2. PICK e : e = Delta(shown, event) OBVIOUS
    <3> QED BY <1>k, <2>1, <3>1, <3>2, TasksStay
  <2> QED BY <1>6, <2>2, <2>3 DEF PartialAnswered
<1>7. CASE SegmentAnswered BY <1>7, TaskStarts
<1>8. ASSUME NEW i \in DOMAIN post, PostFails(i) \/ EmotionAnswered(i) \/ RefineAnswered(i)
      PROVE  PostTypes' /\ Tasks'
  <2>0. /\ i \in 1..Len(post) /\ post[i] \in {"emotion", "refine"}
        /\ UNCHANGED <<raw, options, workerError>>
    BY <1>8 DEF PostFails, EmotionAnswered, RefineAnswered, PostTypes
  <2>1. processed_segments[i] = "unset"
          /\ processed_segments = [processed_segments EXCEPT ![i] = "unset"]
    <3>1. processed_segments[i] = "unset" BY <2>0 DEF Tasks, Formed
    <3> QED BY <2>0, <3>1 DEF PostTypes
  <2>2. CASE PostFails(i)
    <3>1. PICK e : e = Error("refused") OBVIOUS
    <3>2. \A k : ~IsRefined(e, k)
      <4>1. e.kind = "error" BY <3>1 DEF Error
      <4> QED BY <4>1 DEF IsRefined
    <3>3. Sent(e) BY <2>2 DEF PostFails, Degrade, Sent
    <3>4. /\ post' = [post EXCEPT ![i] = "done"]
               /\ processed_segments' = [processed_segments EXCEPT ![i] = "raw"]
          /\ failed' = (failed \/ "raw" = "raw")
      BY <2>2 DEF PostFails, Degrade
    <3> QED BY <2>0, <3>2, <3>3, <3>4, TaskSteps DEF Progress, Forms
  <2>3. CASE EmotionAnswered(i)
    <3>1. PICK e : e = [kind |-> "emotion", index |-> i] OBVIOUS
    <3>2. \A k : ~IsRefined(e, k)
      <4>1. e.kind = "emotion" BY <3>1
      <4> QED BY <4>1 DEF IsRefined
    <3>3. Sent(e) BY <2>3, <3>1 DEF EmotionAnswered, Sent
    <3>4. PICK p \in Progress : /\ post' = [post EXCEPT ![i] = p]
                                /\ p = "refine" \/ (p = "done" /\ options.refine = "off")
      BY <2>3 DEF EmotionAnswered, Progress
    <3>5. /\ processed_segments' = [processed_segments EXCEPT ![i] = "unset"]
          /\ failed' = (failed \/ "unset" = "raw")
      BY <2>1, <2>3 DEF EmotionAnswered, PostTypes
    <3> QED BY <2>0, <3>2, <3>3, <3>4, <3>5, TaskSteps DEF Progress, Forms
  <2>4. CASE RefineAnswered(i)
    <3>1. PICK t \in {"refined", "raw"} :
             /\ processed_segments' = [processed_segments EXCEPT ![i] = t]
                  /\ failed' = (failed \/ t = "raw")
             /\ out' = Append(out, [kind |-> "postprocess", index |-> i, text |-> t])
      BY <2>4 DEF RefineAnswered, Refined
    <3>2. PICK e : e = [kind |-> "postprocess", index |-> i, text |-> t] OBVIOUS
    <3>3. \A k : IsRefined(e, k) <=> k = i /\ t = "refined"
      <4> SUFFICES ASSUME NEW k PROVE IsRefined(e, k) <=> k = i /\ t = "refined" OBVIOUS
      <4>1. e.index = i /\ e.text = t BY <3>2
      <4>2. IsRefined(e, k) => e.index = k /\ e.text = "refined" BY DEF IsRefined
      <4>3. k = i /\ t = "refined" => IsRefined(e, k) BY <3>2 DEF IsRefined
      <4> QED BY <4>1, <4>2, <4>3
    <3>4. Sent(e) /\ out' = Append(out, e) BY <3>1, <3>2 DEF Sent
    <3>5. post' = [post EXCEPT ![i] = "done"] BY <2>4 DEF RefineAnswered
    <3> QED BY <2>0, <3>1, <3>3, <3>4, <3>5, TaskSteps DEF Progress, Forms
  <2> QED BY <1>8, <2>2, <2>3, <2>4
<1> QED
  BY <1>1, <1>2, <1>3, <1>4, <1>5, <1>6, <1>7, <1>8, NextCases DEF Aside

-----------------------------------------------------------------------------
(* The end. *)

\* No step of the open session sends a terminal message and stays open.
LEMMA UnsaidHolds ==
  ASSUME StreamTypes, Unsaid, recv # "closed", CleanNext, ~Closes
  PROVE  Unsaid'
<1>1. ASSUME NEW e, Sent(e), ~Terminal(e) PROVE Unsaid'
  <2>1. \A k \in 1..Len(out) : ~Terminal(out[k]) BY DEF Unsaid
  <2>2. CASE out' = out BY <2>1, <2>2 DEF Unsaid
  <2>3. CASE out' = Append(out, e)
    <3>1. PICK S : out \in Seq(S) BY DEF StreamTypes
    <3>2. IsMore(out', out, e) BY <2>3, <3>1, AppendIs
    <3>3. \A k \in 1..Len(out') : ~Terminal(out'[k]) BY <1>1, <2>1, <3>2 DEF IsMore
    <3> QED BY <3>3 DEF Unsaid
  <2> QED BY <1>1, <2>2, <2>3 DEF Sent
<1>2. ~Terminal(Error("refused")) BY DEF Terminal, Error
<1>3. \A t, e : ~Terminal(Delta(t, e)) BY DEF Terminal, Delta
<1>4. CASE Reject
  <2>1. Sent(Error("refused")) BY <1>4 DEF Reject, Sent
  <2> QED BY <1>1, <1>2, <2>1
<1>5. CASE UNCHANGED out
  <2>1. Sent(Error("refused")) BY <1>5 DEF Sent
  <2> QED BY <1>1, <1>2, <2>1
<1>6. ASSUME NEW shown, SendText(shown) PROVE Unsaid'
  <2>1. Sent(Delta(shown, event)) BY <1>6, Sends DEF StreamTypes
  <2>2. PICK e : e = Delta(shown, event) OBVIOUS
  <2> QED BY <1>1, <1>3, <2>1, <2>2
<1>7. CASE PartialAnswered BY <1>5, <1>6, <1>7 DEF PartialAnswered
<1>8. CASE SegmentAnswered
  <2>1. Sent(Delta(raw', event)) BY <1>8, Sends DEF SegmentAnswered, StreamTypes
  <2>2. PICK e : e = Delta(raw', event) OBVIOUS
  <2> QED BY <1>1, <1>3, <2>1, <2>2
<1>9. ASSUME NEW i \in DOMAIN post, PostFails(i) \/ EmotionAnswered(i) \/ RefineAnswered(i)
      PROVE  Unsaid'
  <2>1. PICK e : /\ Sent(e)
                 /\ e.kind \in {"emotion", "postprocess"}
    <3>1. CASE PostFails(i)
      <4>1. Sent([kind |-> "emotion"]) BY <3>1 DEF PostFails, Degrade, Sent
      <4> QED BY <4>1
    <3>2. CASE EmotionAnswered(i)
      <4>1. Sent([kind |-> "emotion", index |-> i]) BY <3>2 DEF EmotionAnswered, Sent
      <4> QED BY <4>1
    <3>3. CASE RefineAnswered(i)
      <4>1. PICK t : Sent([kind |-> "postprocess", index |-> i, text |-> t])
        BY <3>3 DEF RefineAnswered, Sent
      <4> QED BY <4>1
    <3> QED BY <1>9, <3>1, <3>2, <3>3
  <2>2. ~Terminal(e) BY <2>1 DEF Terminal
  <2> QED BY <1>1, <2>1, <2>2
<1>10. SessionUpdate \/ AppendQuiet \/ AppendPartial \/ AppendSegment \/ Commit \/ Joined
         \/ Gather
       \/ Get \/ SegmentFailed \/ SegmentSilent \/ ClientLeaves => UNCHANGED out
  BY DEF SessionUpdate, AppendQuiet, AppendPartial, AppendSegment, Commit, Joined, Gather,
         Get, SegmentFailed, SegmentSilent, ClientLeaves
<1> QED BY <1>4, <1>5, <1>7, <1>8, <1>9, <1>10, NextCases DEF Aside

\* What is known while the session is open.
LEMMA Known ==
  ASSUME StreamTypes, Opened, InLine, ~workerError, event = Idle, queue = <<>>
  PROVE  ToSet(raw) \cup silent = 1..cut /\ ToSet(raw) = (1..cut) \ silent
<1>1. \A u : ~Waits(u)
  <2>1. \A u : Idle # SegmentOf(u)
    <3> SUFFICES ASSUME NEW u, Idle = SegmentOf(u) PROVE FALSE OBVIOUS
    <3>1. SegmentOf(u).kind = "segment" BY DEF SegmentOf
    <3> QED BY <3>1, Kinds
  <2>2. Len(queue) = 0 BY QueueTold DEF StreamTypes
  <2> QED BY <2>1, <2>2 DEF Waits
<1>2. \A u \in 1..cut : u \in Confirmed BY <1>1 DEF InLine, NoneDropped
<1>3. \A u \in Confirmed : u \in 1..cut
  <2> SUFFICES ASSUME NEW u \in Confirmed PROVE u \in 1..cut OBVIOUS
  <2>1. u \in Nat /\ u <= cut BY DEF InLine, Behind, Passed
  <2>2. u \in Nat /\ u > 0 /\ cut \in Nat BY LineTypes
  <2> QED BY <2>1, <2>2
<1>4. ToSet(raw) \cap silent = {} BY DEF InLine, Behind
<1> QED BY <1>2, <1>3, <1>4 DEF Confirmed

\* A closing step says at most one terminal message, as its last.
LEMMA Ends ==
  ASSUME StreamTypes, Unsaid, recv # "closed", NEW m, EndWith(m)
  PROVE  /\ \A k \in 1..Len(out') : Terminal(out'[k]) =>
               k = Len(out') /\ out'[k] = m /\ k = Len(out) + 1 /\ Len(out) \in Nat
         /\ connected' => out' # <<>> /\ out'[Len(out')] = m
         /\ \A k \in 1..Len(out) : out'[k] = out[k]
         /\ UNCHANGED <<connected, options, audio, cut, workerError, raw, silent,
           processed_segments, failed>>
<1>1. PICK S : out \in Seq(S) BY DEF StreamTypes
<1>2. \A k \in 1..Len(out) : ~Terminal(out[k]) BY DEF Unsaid
<1>3. UNCHANGED <<connected, options, audio, cut, workerError, raw, silent, processed_segments,
        failed>>
  BY DEF EndWith
<1>4. CASE connected
  <2>1. out' = Append(out, m) BY <1>4 DEF EndWith
  <2>2. IsMore(out', out, m) BY <1>1, <2>1, AppendIs
  <2>3. out' # <<>> /\ out'[Len(out')] = m
    <3>1. Len(out') # 0 BY <2>2 DEF IsMore
    <3> QED BY <2>2, <3>1 DEF IsMore
  <2>4. \A k \in 1..Len(out') : k \in 1..Len(out) \/ k = Len(out) + 1 BY <2>2 DEF IsMore
  <2> QED BY <1>2, <1>3, <2>2, <2>3, <2>4 DEF IsMore
<1>5. CASE ~connected
  <2>1. out' = out BY <1>5 DEF EndWith
  <2> QED BY <1>2, <1>3, <1>5, <2>1
<1> QED BY <1>4, <1>5

\* An error tells nothing of the result.
LEMMA EndsInError ==
  ASSUME StreamTypes, Unsaid, recv # "closed", NEW code, EndWith(Error(code)),
         code # "refused", code = "no_speech_detected" => silent = 1..cut
  PROVE  DoneIsComplete' /\ OutcomeIsTold'
<1>1. PICK m : m = Error(code) OBVIOUS
<1>2. m.kind = "error" /\ m.code = code BY <1>1 DEF Error
<1>3. /\ \A k \in 1..Len(out') : Terminal(out'[k]) => k = Len(out') /\ out'[k] = m
      /\ connected' => out' # <<>> /\ out'[Len(out')] = m
      /\ UNCHANGED <<cut, silent>>
  BY <1>1, Ends
<1>4. DoneIsComplete' BY <1>2, <1>3 DEF DoneIsComplete
<1>5. OutcomeIsTold'
  <2>2. Terminal(m) BY <1>2 DEF Terminal
  <2> QED BY <1>2, <1>3, <2>2 DEF OutcomeIsTold, Terminal, Last
<1> QED BY <1>4, <1>5

\* transcription.done holds what the line and the tasks left.
LEMMA EndsInResult ==
  ASSUME StreamTypes, PostTypes, Opened, InLine, Tasks, Unsaid, SendDone
  PROVE  DoneIsComplete' /\ OutcomeIsTold'
<1>1. recv = "gathering" /\ \A i \in DOMAIN post : post[i] = "done" BY DEF SendDone, PostGathered
<1>2. event = Idle /\ queue = <<>> /\ ~workerError /\ recv # "closed" BY <1>1 DEF Opened
<1>3. ToSet(raw) \cup silent = 1..cut /\ ToSet(raw) = (1..cut) \ silent BY <1>2, Known
<1>4. PICK m : /\ EndWith(m)
               /\ m = [kind |-> "done", text |-> raw,
                       cleaned |-> [i \in DOMAIN raw |->
                                      IF processed_segments[i] = "refined" THEN "refined" ELSE "raw"],
                       status |-> IF options.refine = "off" THEN "none"
                                  ELSE IF failed THEN "degraded_raw_only" ELSE "completed"]
  BY DEF SendDone
<1>5. /\ m.kind = "done" /\ m.text = raw
      /\ \A i \in DOMAIN raw : m.cleaned[i] = IF processed_segments[i] = "refined" THEN "refined" ELSE "raw"
      /\ m.status = IF options.refine = "off" THEN "none"
                    ELSE IF failed THEN "degraded_raw_only" ELSE "completed"
  BY <1>4
<1>6. /\ \A k \in 1..Len(out') : Terminal(out'[k]) =>
            k = Len(out') /\ out'[k] = m /\ k = Len(out) + 1 /\ Len(out) \in Nat
      /\ connected' => out' # <<>> /\ out'[Len(out')] = m
      /\ \A k \in 1..Len(out) : out'[k] = out[k]
      /\ UNCHANGED <<connected, options, audio, cut, workerError, raw, silent,
        processed_segments, failed>>
  BY <1>2, <1>4, Ends
<1>7. \A i \in DOMAIN post' : post'[i] = "done" BY <1>1, <1>4 DEF EndWith, Close
<1>8. DOMAIN raw = 1..Len(raw) /\ Len(raw) \in Nat /\ \A i \in DOMAIN raw : i \in Nat
  BY DEF StreamTypes
<1>9. \A i \in DOMAIN raw : processed_segments[i] \in Forms /\ (options.refine # "off" =>
        processed_segments[i] # "unset")
  <2> SUFFICES ASSUME NEW i \in DOMAIN raw
               PROVE  processed_segments[i] \in Forms /\ (options.refine # "off" =>
                 processed_segments[i] # "unset")
    OBVIOUS
  <2>1. Len(post) = Len(raw) /\ i \in 1..Len(post) /\ i \in 1..Len(processed_segments)
          /\ i \in DOMAIN post
    BY <1>2, <1>8 DEF Tasks, PostTypes
  <2>2. Formed(i) /\ post[i] = "done" BY <1>1, <2>1 DEF Tasks
  <2> QED BY <2>1, <2>2 DEF Formed, PostTypes
<1>10. (m.status = "completed") =
          (options.refine # "off" /\ \A i \in DOMAIN raw : processed_segments[i] = "refined")
  <2>1. failed <=> \E i \in DOMAIN raw : processed_segments[i] = "raw" BY <1>8 DEF Tasks
  <2>2. CASE options.refine = "off" BY <1>5, <2>2
  <2>3. CASE options.refine # "off"
    <3>1. ~failed <=> \A i \in DOMAIN raw : processed_segments[i] = "refined"
      BY <1>9, <2>1, <2>3 DEF Forms
    <3>2. (m.status = "completed") <=> ~failed BY <1>5, <2>3
    <3> QED BY <2>3, <3>1, <3>2
  <2> QED BY <2>2, <2>3
<1>11. ASSUME NEW i \in DOMAIN raw
       PROVE  \A k \in 1..Len(out') : Terminal(out'[k]) =>
                (m.cleaned[i] = "refined" <=>
                   \E j \in 1..k : out'[j] = [kind |-> "postprocess", index |-> i,
                     text |-> "refined"])
  <2> SUFFICES ASSUME NEW k \in 1..Len(out'), Terminal(out'[k])
               PROVE  m.cleaned[i] = "refined" <=> \E j \in 1..k : IsRefined(out'[j], i)
    BY DEF IsRefined
  <2>1. k = Len(out) + 1 /\ Len(out) \in Nat /\ out'[k] = m BY <1>6
  <2>2. ~IsRefined(m, i)
    <3>1. IsRefined(m, i) => m.kind = "postprocess" BY DEF IsRefined
    <3> QED BY <1>5, <3>1
  <2>3. Announced(i) <=> processed_segments[i] = "refined" BY <1>8 DEF Tasks
  <2>4. m.cleaned[i] = "refined" <=> processed_segments[i] = "refined" BY <1>5
  <2>5. (\E j \in 1..k : IsRefined(out'[j], i)) <=> \E j \in 1..Len(out) : IsRefined(out[j], i)
    <3>1. \A j \in 1..k : j = k \/ j \in 1..Len(out) BY <2>1
    <3>2. \A j \in 1..Len(out) : j \in 1..k /\ out'[j] = out[j] BY <1>6, <2>1
    <3> QED BY <2>1, <2>2, <3>1, <3>2
  <2> QED BY <2>3, <2>4, <2>5 DEF Announced
<1>12. \A i \in 2..Len(raw) : raw[i - 1] < raw[i] BY DEF InLine, Behind
<1>13. DoneIsComplete'
  <2> SUFFICES ASSUME NEW k \in 1..Len(out'), Terminal(out'[k])
      PROVE  /\ k = Len(out')
             /\ out'[k].kind = "done" =>
                /\ ToSet(out'[k].text) = (1 .. cut') \ silent'
                /\ \A i \in 2 .. Len(out'[k].text) : out'[k].text[i - 1] < out'[k].text[i]
                /\ \A i \in DOMAIN post' : post'[i] = "done"
                /\ options'.refine # "off" => \A i \in DOMAIN raw' :
                      out'[k].cleaned[i] = "refined" <=>
                         \E j \in 1 .. k : out'[j] = [kind |-> "postprocess", index |-> i,
                                                    text |-> "refined"]
                /\ (out'[k].status = "completed") =
                      (options'.refine # "off"
                        /\ \A i \in DOMAIN raw' : processed_segments'[i] = "refined")
    BY DEF DoneIsComplete
  <2>1. k = Len(out') /\ out'[k] = m BY <1>6
  <2>2. UNCHANGED <<options, cut, silent, raw, processed_segments>> BY <1>6
  <2>3. \A i \in DOMAIN raw' : m.cleaned[i] = "refined" <=>
           \E j \in 1 .. k : out'[j] = [kind |-> "postprocess", index |-> i, text |-> "refined"]
    BY <1>11, <2>2
  <2>4. (m.status = "completed") =
            (options'.refine # "off" /\ \A i \in DOMAIN raw' : processed_segments'[i] = "refined")
    BY <1>10, <2>2
  <2>5. ToSet(m.text) = (1 .. cut') \ silent'
          /\ \A i \in 2 .. Len(m.text) : m.text[i - 1] < m.text[i]
    BY <1>3, <1>5, <1>12, <2>2
  <2> QED BY <1>7, <2>1, <2>3, <2>4, <2>5
<1>14. OutcomeIsTold'
  <2>2. Terminal(m) BY <1>5 DEF Terminal
  <2> QED BY <1>2, <1>3, <1>5, <1>6, <2>2 DEF OutcomeIsTold, Terminal, Last
<1> QED BY <1>13, <1>14

\* However the session closes, the properties hold.
LEMMA ClosesTold ==
  ASSUME StreamTypes, PostTypes, Opened, InLine, Tasks, Unsaid, recv # "closed", Closes
  PROVE  DoneIsComplete' /\ OutcomeIsTold'
<1>1. CASE NoticeDisconnect
  <2>1. out' = out /\ connected' = FALSE
    BY <1>1 DEF NoticeDisconnect, StreamTypes
  <2>2. \A k \in 1..Len(out) : ~Terminal(out[k]) BY DEF Unsaid
  <2>3. DoneIsComplete' BY <2>1, <2>2 DEF DoneIsComplete
  <2> QED BY <2>1, <2>3 DEF OutcomeIsTold
<1>2. CASE CommitNoAudio /\ EndWith(Error("no_audio")) BY <1>2, EndsInError
<1>3. CASE ReportFailure /\ EndWith(Error("server_error")) BY <1>3, EndsInError
<1>4. CASE ReportNoSpeech /\ EndWith(Error("no_speech_detected"))
  <2>1. recv = "stopping" /\ worker = "ended" /\ ~workerError /\ raw = <<>>
    BY <1>4 DEF ReportNoSpeech
  <2>2. event = Idle /\ queue = <<>> BY <2>1 DEF Opened
  <2>3. ToSet(raw) = {} BY <2>1 DEF ToSet
  <2>4. silent = 1..cut BY <2>1, <2>2, <2>3, Known
  <2> QED BY <1>4, <2>4, EndsInError
<1>5. CASE SendDone BY <1>5, EndsInResult
<1> QED BY <1>1, <1>2, <1>3, <1>4, <1>5 DEF Closes

-----------------------------------------------------------------------------
(* The theorems. *)

CleanInv ==
    /\ StreamTypes /\ PostTypes /\ Shut /\ Live /\ LiveTasks /\ Unsaid
    /\ DoneIsComplete /\ OutcomeIsTold

\* The invariant holds initially.
LEMMA InitStream == CleanInit => CleanInv
<1> SUFFICES ASSUME CleanInit PROVE CleanInv OBVIOUS
<1>1. StreamTypes /\ PostTypes /\ Tasks BY InitStreamTypes, InitPost
<1>2. /\ recv = "receiving" /\ options = NoOptions /\ worker = "none" /\ speaking = 0 /\ cut = 0
      /\ queue = <<>> /\ audio = FALSE /\ event = Idle /\ unfinished = 0 /\ raw = <<>>
           /\ silent = {}
      /\ out = <<>>
  BY DEF CleanInit
<1>3. Len(queue) = 0 /\ Len(raw) = 0 /\ Len(out) = 0 BY <1>2
<1>4. Opened BY <1>2, <1>3 DEF Opened
<1>5. Confirmed = {} /\ ToSet(raw) = {} BY <1>2 DEF Confirmed, ToSet
<1>6. InLine BY <1>2, <1>3, <1>5 DEF InLine, Ordered, Reached, Behind, NoneDropped
<1>7. Unsaid /\ DoneIsComplete BY <1>3 DEF Unsaid, DoneIsComplete
<1>8. OutcomeIsTold /\ Shut BY <1>2 DEF OutcomeIsTold, Shut
<1> QED BY <1>1, <1>4, <1>6, <1>7, <1>8 DEF CleanInv, Live, LiveTasks

\* Closing keeps the types of the tasks.
LEMMA CloseTypes ==
  ASSUME PostTypes, Close, UNCHANGED <<raw, processed_segments, failed>>
  PROVE  PostTypes'
<1>1. post \in Seq(Progress)
        /\ post' = [i \in DOMAIN post |-> IF post[i] = "done" THEN "done" ELSE "cancelled"]
  BY DEF PostTypes, Close
<1>2. post' \in Seq(Progress) /\ Len(post') = Len(post) BY <1>1 DEF Progress
<1> QED BY <1>2 DEF PostTypes

\* Every step keeps the invariant.
LEMMA NextStream == CleanInv /\ [CleanNext]_cleanVars => CleanInv'
<1> SUFFICES ASSUME CleanInv, [CleanNext]_cleanVars PROVE CleanInv' OBVIOUS
<1>1. StreamTypes /\ StreamTypes' BY NextStreamTypes DEF CleanInv
<1>2. CASE UNCHANGED cleanVars
  <2>1. /\ recv' = recv /\ connected' = connected /\ options' = options /\ audio' = audio
        /\ speaking' = speaking /\ cut' = cut /\ queue' = queue /\ unfinished' = unfinished
        /\ worker' = worker /\ event' = event /\ workerError' = workerError /\ raw' = raw
        /\ emitted' = emitted /\ silent' = silent /\ post' = post /\ failed' = failed
        /\ processed_segments' = processed_segments /\ out' = out
    BY <1>2 DEF cleanVars, receiver, asr, cleanup, counts
  <2>2. PostTypes' /\ Shut' BY <2>1 DEF CleanInv, PostTypes, Shut
  <2>3. Opened' <=> Opened BY ONLY <2>1 DEF Opened
  <2>4. InLine' <=> InLine
    BY ONLY <2>1 DEF InLine, Ordered, Reached, Seen, Behind, Passed, NoneDropped, Waits, Confirmed
  <2>5. Tasks' <=> Tasks BY ONLY <2>1 DEF Tasks, Formed, Announced
  <2>6. Live' /\ LiveTasks' BY <2>1, <2>3, <2>4, <2>5 DEF CleanInv, Live, LiveTasks
  <2>7. Unsaid' BY <2>1 DEF CleanInv, Unsaid
  <2>8. DoneIsComplete' <=> DoneIsComplete BY ONLY <2>1 DEF DoneIsComplete
  <2>9. OutcomeIsTold' BY <2>1 DEF CleanInv, OutcomeIsTold
  <2> QED BY <1>1, <2>2, <2>6, <2>7, <2>8, <2>9 DEF CleanInv
<1>3. CASE CleanNext
  <2>1. recv # "closed" BY <1>1, <1>3, ClosedRests DEF CleanInv
  <2>2. PostTypes /\ Opened /\ InLine /\ Tasks /\ Unsaid BY <2>1 DEF CleanInv, Live, LiveTasks
  <2>3. CASE Closes
    <3>1. recv' = "closed" /\ Shut' BY <2>3, ClosesShuts
    <3>2. PostTypes'
      <4>1. \A m : EndWith(m) => Close /\ UNCHANGED <<raw, processed_segments, failed>>
        BY DEF EndWith
      <4>2. Close /\ UNCHANGED <<raw, processed_segments, failed>>
        BY <2>3, <4>1 DEF Closes, NoticeDisconnect, SendDone
      <4> QED BY <2>2, <4>2, CloseTypes
    <3>3. Live' /\ LiveTasks' /\ Unsaid' BY <3>1 DEF Live, LiveTasks, Unsaid
    <3>4. DoneIsComplete' /\ OutcomeIsTold' BY <1>1, <2>1, <2>2, <2>3, ClosesTold
    <3> QED BY <1>1, <3>1, <3>2, <3>3, <3>4 DEF CleanInv
  <2>4. CASE ~Closes
    <3>1. recv' # "closed" BY <1>3, <2>1, <2>4, OpenStays
    <3>2. Opened' /\ InLine' BY <1>1, <1>3, <2>2, <2>4, OpenedStays, LineHolds
    <3>3. PostTypes' /\ Tasks' BY <1>1, <1>3, <2>2, <2>4, TasksHold
    <3>4. Unsaid' BY <1>1, <1>3, <2>1, <2>2, <2>4, UnsaidHolds
    <3>5. DoneIsComplete' BY <3>1, <3>4 DEF Unsaid, DoneIsComplete
    <3>6. OutcomeIsTold' /\ Shut' BY <3>1 DEF OutcomeIsTold, Shut
    <3> QED BY <1>1, <3>2, <3>3, <3>4, <3>5, <3>6 DEF CleanInv, Live, LiveTasks
  <2> QED BY <2>3, <2>4
<1> QED BY <1>2, <1>3

\* The inductive invariant of /asr/v1/clean-stream.
THEOREM CleanInvariant == CleanSpec => []CleanInv
<1>1. CleanInit => CleanInv BY InitStream
<1>2. CleanInv /\ [CleanNext]_cleanVars => CleanInv' BY NextStream
<1> QED BY <1>1, <1>2, PTL DEF CleanSpec

\* transcription.done is the whole story: it is sent last, after every recognition
\* and every post-processing task, with the text of every utterance that was not
\* silent, in order, and the forms its tasks announced (clean_stream.py:571).
THEOREM ResultIsWhole == CleanSpec => []DoneIsComplete
<1>1. CleanInv => DoneIsComplete BY DEF CleanInv
<1> QED BY <1>1, CleanInvariant, PTL

\* A session that ends in front of its client ends with a terminal message, with
\* done only if every utterance was recognised (clean_stream.py:460).
THEOREM ClientIsTold == CleanSpec => []OutcomeIsTold
<1>1. CleanInv => OutcomeIsTold BY DEF CleanInv
<1> QED BY <1>1, CleanInvariant, PTL

\* A partial is of an utterance after all that is confirmed.
LEMMA PartialsFollow ==
  ASSUME CleanInv, [CleanNext]_cleanVars, NEW e, e.kind = "partial", event = e, out' # out,
    Last(out').kind = "delta"
  PROVE  /\ e.utterance \notin Confirmed
         /\ \A u \in Confirmed : u < e.utterance
         /\ IsPrefix(raw, Last(out').text)
<1>1. CleanNext BY DEF cleanVars
<1>2. recv # "closed" /\ StreamTypes /\ Opened /\ InLine
  BY <1>1, ClosedRests DEF CleanInv, Live
<1>3. event # Idle BY Kinds
<1>4. \A u \in Confirmed : u \in Nat /\ u < e.utterance BY <1>2, <1>3 DEF InLine, Behind, Passed
<1>5. ASSUME NEW m, Sent(m), m.kind # "delta" PROVE FALSE
  <2>1. out' = Append(out, m) BY <1>5 DEF Sent
  <2>2. PICK S : out \in Seq(S) BY <1>2 DEF StreamTypes
  <2>3. Last(out') = m
    <3>1. IsMore(out', out, m) BY <2>1, <2>2, AppendIs
    <3> QED BY <3>1 DEF IsMore, Last
  <2> QED BY <1>5, <2>3
<1>6. PartialAnswered
  <2>1. ~AskedFor("segment") BY DEF AskedFor
  <2>2. ~SegmentFailed /\ ~SegmentSilent /\ ~SegmentAnswered
    BY <2>1 DEF SegmentFailed, SegmentSilent, SegmentAnswered
  <2>3. ~Reject
    <3>1. Reject => Sent(Error("refused")) BY DEF Reject, Sent
    <3>2. Error("refused").kind # "delta" BY DEF Error
    <3> QED BY <1>5, <3>1, <3>2
  <2>4. ~Closes
    <3>1. ASSUME NEW m, EndWith(m), m.kind # "delta" PROVE FALSE
      <4>1. Sent(m) BY <3>1 DEF EndWith, Sent
      <4> QED BY <1>5, <3>1, <4>1
    <3>2. \A code : Error(code).kind # "delta" BY DEF Error
    <3>3. ~SendDone
      <4> SUFFICES ASSUME SendDone PROVE FALSE OBVIOUS
      <4>1. PICK m : EndWith(m) /\ m.kind = "done" BY DEF SendDone
      <4> QED BY <3>1, <4>1
    <3>4. ~NoticeDisconnect BY DEF NoticeDisconnect
    <3>5. \A code : ~EndWith(Error(code))
      <4> SUFFICES ASSUME NEW code, EndWith(Error(code)) PROVE FALSE OBVIOUS
      <4>1. PICK m : m = Error(code) OBVIOUS
      <4> QED BY <3>1, <3>2, <4>1
    <3> QED BY <3>3, <3>4, <3>5 DEF Closes
  <2>5. ASSUME NEW i \in DOMAIN post, PostFails(i) \/ EmotionAnswered(i) \/ RefineAnswered(i)
        PROVE  FALSE
    <3>1. CASE PostFails(i) BY <3>1 DEF PostFails, Degrade
    <3>2. CASE EmotionAnswered(i)
      <4>1. PICK m : m = [kind |-> "emotion", index |-> i] OBVIOUS
      <4>2. Sent(m) /\ m.kind # "delta" BY <3>2, <4>1 DEF EmotionAnswered, Sent
      <4> QED BY <1>5, <4>2
    <3>3. CASE RefineAnswered(i)
      <4>1. PICK t : Sent([kind |-> "postprocess", index |-> i, text |-> t])
        BY <3>3 DEF RefineAnswered, Sent
      <4>2. PICK m : m = [kind |-> "postprocess", index |-> i, text |-> t] OBVIOUS
      <4>3. Sent(m) /\ m.kind # "delta" BY <4>1, <4>2
      <4> QED BY <1>5, <4>3
    <3> QED BY <2>5, <3>1, <3>2, <3>3
  <2>6. SessionUpdate \/ AppendQuiet \/ AppendPartial \/ AppendSegment \/ Commit \/ Joined
          \/ Gather
        \/ Get \/ ClientLeaves => UNCHANGED out
    BY DEF SessionUpdate, AppendQuiet, AppendPartial, AppendSegment, Commit, Joined, Gather, Get,
           ClientLeaves
  <2> QED BY <1>1, <2>2, <2>3, <2>4, <2>5, <2>6, NextCases DEF Aside
<1>7. IsPrefix(raw, Last(out').text)
  <2>1. PICK tail \in {<<>>, <<event.utterance>>, <<-event.utterance>>} : SendText(raw \o tail)
    BY <1>6 DEF PartialAnswered
  <2>2. out' = Append(out, Delta(raw \o tail, event)) BY <2>1 DEF SendText
  <2>3. PICK S : out \in Seq(S) BY <1>2 DEF StreamTypes
  <2>4. IsMore(out', out, Delta(raw \o tail, event)) BY <2>2, <2>3, AppendIs
  <2>5. Last(out') = Delta(raw \o tail, event) BY <2>4 DEF IsMore, Last
  <2>6. Last(out').text = raw \o tail BY <2>5 DEF Delta
  <2>7. raw \in Seq(Numbers) /\ event.utterance \in Nat BY <1>2, <1>3, LineTypes DEF StreamTypes
  <2>8. tail \in Seq(Int) /\ raw \in Seq(Int)
    <3>1. raw \in Seq(Int) BY <2>7 DEF Numbers
    <3>2. \A n \in Int : <<>> \in Seq(Int) /\ <<n>> \in Seq(Int) OBVIOUS
    <3>3. event.utterance \in Int /\ -event.utterance \in Int BY <2>7
    <3>4. tail = <<>> \/ tail = <<event.utterance>> \/ tail = <<-event.utterance>> BY <2>1
    <3> QED BY <3>1, <3>2, <3>3, <3>4
  <2>9. IsPrefix(raw, raw \o tail) BY <2>8 DEF IsPrefix
  <2> QED BY <2>6, <2>9
<1>8. e.utterance \notin Confirmed BY <1>4
<1> QED BY <1>4, <1>7, <1>8

\* What a client sees never goes back: a partial is shown behind all that is
\* confirmed, and is of an utterance not confirmed yet (clean_stream.py:473).
THEOREM ConfirmedStays == CleanSpec => PartialsStayBehind
<1>1. CleanInv /\ [CleanNext]_cleanVars =>
        [ \A e \in {PartialOf(u) : u \in 1 .. MaxUtterances} :
          event = e /\ out' # out /\ Last(out').kind = "delta" =>
             /\ e.utterance \notin Confirmed
             /\ \A u \in Confirmed : u < e.utterance
             /\ IsPrefix(raw, Last(out').text) ]_cleanVars
  <2>1. \A e \in {PartialOf(u) : u \in 1 .. MaxUtterances} : e.kind = "partial" BY DEF PartialOf
  <2> QED BY <2>1, PartialsFollow
<1> QED BY <1>1, CleanInvariant, PTL DEF CleanSpec, PartialsStayBehind
=============================================================================
