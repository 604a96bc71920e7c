-------------------------- MODULE DiarizationProofs --------------------------
(***************************************************************************)
(* Theorems about Diarization, for every capacity of the request queue and *)
(* every configuration of the sidecar's stream.                            *)
(***************************************************************************)
EXTENDS Diarization, TLAPS, SequenceTheorems

\* A segment was answered without roles only because the connection is degraded,
\* or closed; when it is closed nobody waits for roles any more.
PlainMeansOver ==
    /\ degraded \in BOOLEAN /\ closing \in {"no", "waiting", "closed"}
    /\ answer \in {"none", "roles", "plain"}
    /\ closing = "closed" => recv = "done"
    /\ answer = "plain" => degraded \/ (closing = "closed" /\ target = 0)

LEMMA InitPlain == Init => PlainMeansOver
  BY DEF Init, PlainMeansOver

LEMMA NextPlain == PlainMeansOver /\ [Next]_vars => PlainMeansOver'
<1> SUFFICES ASSUME PlainMeansOver, [Next]_vars PROVE PlainMeansOver'
  OBVIOUS
<1> USE DEF PlainMeansOver
<1>1. CASE StartReturns \/ StartTimesOut
  BY <1>1 DEF StartReturns, StartTimesOut, callVars
<1>2. CASE \E n \in ChunkSizes : Feed(n)
  BY <1>2 DEF Feed, callVars
<1>3. CASE Finish \/ FinishPuts \/ Aclose \/ AcloseReturns \/ AcloseTimesOut
  BY <1>3 DEF Finish, FinishPuts, Aclose, AcloseReturns, AcloseTimesOut, clientVars
<1>4. CASE \E end \in SegmentEnds \cup {fed} : TurnsFor(end)
  BY <1>4 DEF TurnsFor, Answer, available, clientVars
<1>5. CASE TurnsForReturns
  BY <1>5 DEF TurnsForReturns, Answer, clientVars
<1>6. CASE TurnsForTimesOut
  BY <1>6 DEF TurnsForTimesOut, Answer
<1>7. CASE ReceiveEvent
  BY <1>7 DEF ReceiveEvent, ReceiveStarted, ReceiveTurns, ReceiveEnded, ReceiveFailed,
              NextEvent, callVars
<1>8. CASE Sidecar
  BY <1>8 DEF Sidecar, ServeStart, ServeAudio, ServeEnd, ServeFails, clientVars, callVars
<1>9. CASE UNCHANGED vars
  BY <1>9 DEF vars, clientVars, callVars
<1> QED
  BY <1>1, <1>2, <1>3, <1>4, <1>5, <1>6, <1>7, <1>8, <1>9 DEF Next, Client

\* A connection that answered one segment without roles never goes back to roles
\* (client.py:189-198), whatever the sidecar sends later and whoever degraded it.
THEOREM RolesNeverComeBack == Spec => RolesStopForGood
<1>1. PlainMeansOver /\ [Next]_vars => [answer = "plain" => answer' # "roles"]_vars
  <2> SUFFICES ASSUME PlainMeansOver, Next, answer = "plain" PROVE answer' # "roles"
    BY DEF vars
  <2>1. CASE TurnsForReturns
    BY <2>1 DEF TurnsForReturns, Answer, PlainMeansOver
  <2>2. CASE TurnsForTimesOut \/ \E end \in SegmentEnds \cup {fed} : TurnsFor(end)
    BY <2>2 DEF TurnsForTimesOut, TurnsFor, Answer
  <2>3. CASE UNCHANGED answer
    BY <2>3
  <2> QED
    BY <2>1, <2>2, <2>3
       DEF Next, Client, Sidecar, StartReturns, StartTimesOut, Feed, Finish, FinishPuts, Aclose,
           AcloseReturns, AcloseTimesOut, ReceiveEvent, ReceiveStarted, ReceiveTurns,
           ReceiveEnded, ReceiveFailed, ServeStart, ServeAudio, ServeEnd, ServeFails, callVars
<1> QED
  BY <1>1, InitPlain, NextPlain, PTL DEF Spec, RolesStopForGood

-----------------------------------------------------------------------------
(* The sizes, and arithmetic the provers take in small steps. *)

LEMMA Sizes ==
    /\ MsSamples \in Nat \ {0} /\ FrameMs \in Nat \ {0} /\ CoreFrames \in Nat \ {0}
    /\ FrameSamples \in Nat \ {0} /\ FrameSamples = FrameMs * MsSamples
    /\ Core \in Nat \ {0} /\ Core = CoreFrames * FrameSamples
    /\ Left \in Nat /\ Right \in Nat /\ Guard \in Nat
<1>1. \A a, b \in Nat \ {0} : a * b \in Nat \ {0}
  OBVIOUS
<1>2. \A a, b \in Nat : a * b \in Nat
  OBVIOUS
<1>3. /\ MsSamples \in Nat \ {0} /\ FrameMs \in Nat \ {0} /\ CoreFrames \in Nat \ {0}
      /\ GuardMs \in Nat \ {0} /\ LeftFrames \in Nat /\ RightFrames \in Nat
  BY SortformerAssumption DEF SortformerAssumption
<1>4. FrameSamples \in Nat \ {0}
  BY <1>1, <1>3 DEF FrameSamples
<1>5. Core \in Nat \ {0} /\ Left \in Nat /\ Right \in Nat /\ Guard \in Nat
  BY <1>1, <1>2, <1>3, <1>4 DEF Core, Left, Right, Guard
<1> QED
  BY <1>3, <1>4, <1>5 DEF FrameSamples, Core

LEMMA Times ==
  ASSUME NEW a \in Int, NEW b \in Int, NEW c \in Nat
  PROVE  /\ a * c \in Int
         /\ (a + b) * c = a * c + b * c
         /\ a <= b => a * c <= b * c
  OBVIOUS

LEMMA Associative ==
  ASSUME NEW a \in Int, NEW b \in Int, NEW c \in Int
  PROVE  (a * b) * c = a * (b * c)
  OBVIOUS

LEMMA Quotient ==
  ASSUME NEW a \in Nat, NEW c \in Nat \ {0}
  PROVE  /\ a \div c \in Nat
         /\ (a \div c) * c <= a
         /\ a < (a \div c) * c + c
  OBVIOUS

LEMMA QuotientIs ==
  ASSUME NEW a \in Nat, NEW c \in Nat \ {0}, NEW k \in Nat
  PROVE  /\ k * c <= a => k <= a \div c
         /\ k * c <= a /\ a < k * c + c => a \div c = k
<1> DEFINE q == a \div c
<1>1. q \in Nat /\ q * c <= a /\ a < q * c + c
  BY Quotient
<1>2. q < k => (q + 1) * c <= k * c
  BY <1>1, Times
<1>3. k < q => (k + 1) * c <= q * c
  BY <1>1, Times
<1>4. (q + 1) * c = q * c + c /\ (k + 1) * c = k * c + c
  BY <1>1, Times
<1> HIDE DEF q
<1>5. k * c \in Int /\ q * c \in Int
  BY <1>1, Times
<1>6. k * c <= a => k <= q
  BY <1>1, <1>2, <1>4, <1>5
<1>7. k * c <= a /\ a < k * c + c => q = k
  BY <1>1, <1>3, <1>4, <1>5, <1>6
<1> QED
  BY <1>6, <1>7 DEF q

-----------------------------------------------------------------------------
(* What a ceiling division and the number of ready cores amount to. *)

LEMMA RoundedUp ==
  ASSUME NEW a \in Nat \ {0}, NEW c \in Nat \ {0}
  PROVE  /\ CeilDiv(a, c) \in Nat \ {0}
         /\ (CeilDiv(a, c) - 1) * c < a
<1> DEFINE b == a + c - 1
           q == b \div c
<1>1. b \in Nat /\ b >= c
  OBVIOUS
<1>2. q \in Nat /\ q * c <= b /\ b < q * c + c
  BY <1>1, Quotient
<1>3. q >= 1
  BY <1>1, QuotientIs
<1>4. (q + (-1)) * c = q * c + (-1) * c
  BY <1>2, Times
<1>5. (q - 1) * c = q * c - c
  BY <1>2, <1>4
<1>6. CeilDiv(a, c) = q
  BY DEF CeilDiv
<1> HIDE DEF q
<1>7. q * c \in Int
  BY <1>2, Times
<1> QED
  BY <1>2, <1>3, <1>5, <1>6, <1>7

LEMMA WholeRoundedUp ==
  ASSUME NEW k \in Nat, NEW c \in Nat \ {0}
  PROVE  CeilDiv(k * c, c) = k
<1>1. k * c \in Nat
  OBVIOUS
<1>2. k * c + c - 1 \in Nat /\ k * c <= k * c + c - 1 /\ k * c + c - 1 < k * c + c
  BY <1>1
<1> QED
  BY <1>2, QuotientIs DEF CeilDiv

LEMMA ReadyCores ==
  ASSUME NEW force \in BOOLEAN, NEW a \in Nat
  PROVE  /\ Ready(force, a) \in Nat
         /\ \A k \in 1..Ready(force, a) :
              /\ (k - 1) * Core < a
              /\ k < Ready(force, a) \/ ~force => k * Core <= a
<1> DEFINE n == Ready(force, a)
           whole == Core + Right + Guard
<1>1. CASE a = 0
  BY <1>1 DEF Ready
<1>2. CASE a > 0 /\ force
  <2>1. n = CeilDiv(a, Core) /\ n \in Nat \ {0} /\ (n - 1) * Core < a
    BY <1>2, Sizes, RoundedUp DEF Ready
  <2> SUFFICES ASSUME NEW k \in 1..n
               PROVE  (k - 1) * Core < a /\ (k < n => k * Core <= a)
    BY <1>2, <2>1
  <2> HIDE DEF n
  <2>2. (k - 1) * Core <= (n - 1) * Core
    BY <2>1, Sizes, Times
  <2>3. k < n => k * Core <= (n - 1) * Core
    BY <2>1, Sizes, Times
  <2>4. (k - 1) * Core \in Int /\ (n - 1) * Core \in Int /\ k * Core \in Int
    BY <2>1, Sizes, Times
  <2> QED
    BY <2>1, <2>2, <2>3, <2>4
<1>3. CASE a > 0 /\ ~force /\ a < whole
  BY <1>3, Sizes DEF Ready
<1>4. CASE a > 0 /\ ~force /\ a >= whole
  <2> DEFINE q == (a - whole) \div Core
  <2>1. n = q + 1
    BY <1>4, Sizes DEF Ready
  <2>2. a - whole \in Nat /\ whole >= Core
    BY <1>4, Sizes
  <2>3. q \in Nat /\ q * Core <= a - whole
    BY <2>2, Sizes, Quotient
  <2> HIDE DEF q, n
  <2>4. (q + 1) * Core = q * Core + 1 * Core
    BY <2>3, Sizes, Times
  <2>5. (q + 1) * Core <= a
    BY <2>2, <2>3, <2>4, Sizes, Times
  <2> SUFFICES ASSUME NEW k \in 1..n
               PROVE  (k - 1) * Core < a /\ k * Core <= a
    BY <2>1, <2>3 DEF n
  <2>6. k \in Int /\ k - 1 \in Int /\ k <= q + 1
    BY <2>1, <2>3
  <2>7. k * Core <= (q + 1) * Core
    BY <2>3, <2>6, Sizes, Times
  <2>8. k * Core = (k - 1) * Core + 1 * Core
    BY <2>6, Sizes, Times
  <2>9. k * Core \in Int /\ (k - 1) * Core \in Int /\ (q + 1) * Core \in Int
    BY <2>3, <2>6, Sizes, Times
  <2> QED
    BY <2>5, <2>7, <2>8, <2>9, Sizes
<1> QED
  BY <1>1, <1>2, <1>3, <1>4, Sizes

-----------------------------------------------------------------------------
(* The spans of the steps. *)

\* While it serves, the sidecar's stream has made exactly the frames of the audio
\* before the next core.
Aligned ==
    /\ received \in Nat /\ pcmStart \in Nat /\ nextCore \in Nat /\ outputFrames \in Nat
    /\ finished \in BOOLEAN
    /\ ~finished => /\ pcmStart + nextCore = outputFrames * FrameSamples
                    /\ pcmStart + nextCore <= received

\* The audio from the next core on, when r samples were received.
Rest(r) == r - pcmStart - nextCore

LEMMA StepSpans ==
  ASSUME Aligned, ~finished, NEW r \in Nat, received <= r,
         NEW k \in Nat \ {0}, (k - 1) * Core < Rest(r)
  PROVE  LET s == Step(r - pcmStart, nextCore + (k - 1) * Core,
                       outputFrames + (k - 1) * CoreFrames)
             f == outputFrames + k * CoreFrames
         IN  /\ s.starts = (outputFrames + (k - 1) * CoreFrames) * FrameMs
             /\ s.starts \in Nat /\ s.finalized \in Nat /\ s.real \in Nat \ {0}
             /\ k * Core <= Rest(r) => s.finalized = f * FrameMs /\ s.real = Core
<1> DEFINE size == r - pcmStart
           next == nextCore + (k - 1) * Core
           g    == outputFrames + (k - 1) * CoreFrames
           f    == outputFrames + k * CoreFrames
           s    == Step(size, next, g)
           real == Least(Core, size - next)
           up   == CeilDiv(real, FrameSamples)
<1>0. /\ received \in Nat /\ pcmStart \in Nat /\ nextCore \in Nat
      /\ outputFrames \in Nat
  BY DEF Aligned
<1>1. /\ s.starts = g * FrameMs
      /\ s.real = real
      /\ s.finalized = Least((g + up) * FrameMs, (pcmStart + size) \div MsSamples)
  BY DEF Step, SpanOf
<1>2. /\ (k - 1) * Core \in Int /\ k * Core \in Int
      /\ (k - 1) * CoreFrames \in Nat /\ k * CoreFrames \in Nat
      /\ (k - 1) * Core + Core = k * Core
      /\ (k - 1) * CoreFrames + CoreFrames = k * CoreFrames
  <2>1. k - 1 \in Nat /\ (k - 1) + 1 = k
    OBVIOUS
  <2>2. ((k - 1) + 1) * Core = (k - 1) * Core + 1 * Core
    BY <2>1, Sizes, Times
  <2>3. ((k - 1) + 1) * CoreFrames = (k - 1) * CoreFrames + 1 * CoreFrames
    BY <2>1, Sizes, Times
  <2>4. \A a, b \in Nat : a * b \in Nat
    OBVIOUS
  <2> QED
    BY <2>1, <2>2, <2>3, <2>4, Sizes
<1>3. size \in Int /\ size - next = Rest(r) - (k - 1) * Core /\ size - next > 0
      /\ size - next \in Nat
  BY <1>0, <1>2 DEF Rest
<1>4. real \in Nat \ {0} /\ (k * Core <= Rest(r) => real = Core)
  <2> DEFINE rest == size - next
  <2>1. rest \in Nat \ {0} /\ (k * Core <= Rest(r) => Core <= rest)
    BY <1>0, <1>2, <1>3, Sizes DEF Rest
  <2> HIDE DEF rest
  <2>2. Least(Core, rest) \in Nat \ {0} /\ (Core <= rest => Least(Core, rest) = Core)
    BY <2>1, Sizes DEF Least
  <2> QED
    BY <2>1, <2>2 DEF rest
<1>5. up \in Nat \ {0}
  BY <1>4, Sizes, RoundedUp
<1>6. g \in Nat /\ f \in Nat /\ g + CoreFrames = f
  BY <1>2, Sizes DEF Aligned
<1>7. pcmStart + size = r
  BY <1>0
<1>8. g * FrameMs \in Nat /\ (g + up) * FrameMs \in Nat /\ f * FrameMs \in Nat
  <2>1. \A a, b \in Nat : a * b \in Nat
    OBVIOUS
  <2> QED
    BY <2>1, <1>5, <1>6, Sizes
<1>9. r \div MsSamples \in Nat
  BY Sizes, Quotient
<1>10. s.finalized \in Nat
  BY <1>1, <1>7, <1>8, <1>9 DEF Least
<1>11. ASSUME k * Core <= Rest(r)
       PROVE  s.finalized = f * FrameMs
  <2>1. up = CoreFrames
    BY <1>4, <1>11, Sizes, WholeRoundedUp
  <2>2. f * FrameSamples = outputFrames * FrameSamples + (k * CoreFrames) * FrameSamples
    BY <1>2, Sizes, Times DEF Aligned
  <2>3. (k * CoreFrames) * FrameSamples = k * Core
    BY Sizes, Associative
  <2>4. (f * FrameMs) * MsSamples = f * FrameSamples
    BY <1>6, Sizes, Associative
  <2>5. (f * FrameMs) * MsSamples <= r
    <3>1. outputFrames * FrameSamples = pcmStart + nextCore
      BY DEF Aligned
    <3> QED
      BY <1>2, <1>11, <2>2, <2>3, <2>4, <3>1 DEF Aligned, Rest
  <2>6. f * FrameMs <= r \div MsSamples
    BY <1>8, <2>5, Sizes, QuotientIs
  <2> QED
    BY <1>1, <1>6, <1>7, <1>8, <1>9, <2>1, <2>6 DEF Least
<1> QED
  BY <1>1, <1>4, <1>6, <1>8, <1>10, <1>11

-----------------------------------------------------------------------------
(* The events on their way to the client. *)

\* The events on their way.
Events == [kind : {"started", "turns", "ended", "failed"}, from : Nat, to : Nat]

\* The timeline, w, or one of the first k events of ev reaches x.
Reaches(ev, k, w, x) == x <= w \/ \E j \in 1..k : ev[j].kind = "turns" /\ x <= ev[j].to

\* Every event begins where the timeline or an event before it reaches.
Linked(ev, w) ==
    \A i \in 1..Len(ev) : ev[i].kind = "turns" => Reaches(ev, i - 1, w, ev[i].from)

LEMMA EventTimes == \A e \in Events : e.from \in Nat /\ e.to \in Nat
  BY DEF Events

LEMMA LinkedTail ==
  ASSUME NEW ev \in Seq(Events), ev # <<>>, NEW w \in Nat, NEW v \in Nat, w <= v,
         Head(ev).kind = "turns" => Head(ev).to <= v
  PROVE  /\ Linked(ev, w) => Linked(Tail(ev), v)
         /\ \A x \in Nat : Reaches(ev, Len(ev), w, x) => Reaches(Tail(ev), Len(Tail(ev)), v, x)
<1> DEFINE rest == Tail(ev)
<1>1. /\ rest \in Seq(Events) /\ Len(ev) \in Nat \ {0} /\ Len(rest) = Len(ev) - 1
      /\ \A j \in 1..Len(rest) : rest[j] = ev[j + 1]
      /\ \A j \in 1..Len(ev) : ev[j] \in Events
      /\ Head(ev) = ev[1]
  BY HeadTailProperties, ElementOfSeq
<1> HIDE DEF rest
<1>2. ASSUME NEW x \in Nat, NEW k \in 1..Len(ev), Reaches(ev, k, w, x)
      PROVE  Reaches(rest, k - 1, v, x)
  <2>1. CASE x <= w
    BY <2>1 DEF Reaches
  <2>2. CASE \E j \in 1..k : ev[j].kind = "turns" /\ x <= ev[j].to
    <3> PICK j \in 1..k : ev[j].kind = "turns" /\ x <= ev[j].to
      BY <2>2
    <3>1. CASE j = 1
      <4>1. ev[1].to \in Nat /\ ev[1].kind = "turns" /\ x <= ev[1].to /\ ev[1].to <= v
        BY <1>1, <3>1, EventTimes
      <4> HIDE DEF Events
      <4> QED
        BY <4>1 DEF Reaches
    <3>2. CASE j > 1
      <4>1. j - 1 \in 1..(k - 1) /\ j - 1 \in 1..Len(rest) /\ rest[j - 1] = ev[j]
        BY <1>1, <3>2
      <4> QED
        BY <4>1 DEF Reaches
    <3> QED
      BY <3>1, <3>2
  <2> QED
    BY <1>2, <2>1, <2>2 DEF Reaches
<1>3. Linked(ev, w) => Linked(rest, v)
  <2> SUFFICES ASSUME Linked(ev, w), NEW i \in 1..Len(rest), rest[i].kind = "turns"
               PROVE  Reaches(rest, i - 1, v, rest[i].from)
    BY DEF Linked
  <2>1. i + 1 \in 1..Len(ev) /\ rest[i] = ev[i + 1] /\ ev[i + 1] \in Events
    BY <1>1
  <2>2. Reaches(ev, (i + 1) - 1, w, ev[i + 1].from)
    BY <2>1 DEF Linked
  <2>3. i \in 1..Len(ev) /\ (i + 1) - 1 = i /\ ev[i + 1].from \in Nat
    BY <1>1, <2>1, EventTimes
  <2> QED
    BY <1>2, <2>1, <2>2, <2>3
<1>4. \A x \in Nat : Reaches(ev, Len(ev), w, x) => Reaches(rest, Len(rest), v, x)
  BY <1>1, <1>2
<1> QED
  BY <1>3, <1>4 DEF rest

LEMMA LinkedConcat ==
  ASSUME NEW ev \in Seq(Events), NEW new \in Seq(Events), NEW w \in Nat, Linked(ev, w),
         \A k \in 1..Len(new) : new[k].kind = "turns" =>
            \/ Reaches(ev, Len(ev), w, new[k].from)
            \/ k > 1 /\ new[k - 1].kind = "turns" /\ new[k].from <= new[k - 1].to
  PROVE  /\ Linked(ev \o new, w)
         /\ \A x \in Nat : Reaches(ev, Len(ev), w, x) => Reaches(ev \o new, Len(ev \o new), w, x)
         /\ \A x \in Nat, k \in 1..Len(new) :
               new[k].kind = "turns" /\ x <= new[k].to => Reaches(ev \o new, Len(ev \o new), w, x)
<1> DEFINE all == ev \o new
<1>1. /\ Len(ev) \in Nat /\ Len(new) \in Nat /\ Len(all) = Len(ev) + Len(new)
      /\ \A i \in 1..Len(ev) : all[i] = ev[i]
      /\ \A k \in 1..Len(new) : all[Len(ev) + k] = new[k]
  BY ConcatProperties, LenProperties
<1> HIDE DEF all
<1>2. ASSUME NEW x, NEW k \in 0..Len(ev), NEW m \in k..Len(all), Reaches(ev, k, w, x)
      PROVE  Reaches(all, m, w, x)
  <2>1. \A j \in 1..k : j \in 1..m /\ all[j] = ev[j]
    BY <1>1
  <2> QED
    BY <1>2, <2>1, Zenon DEF Reaches
<1>3. ASSUME NEW x, NEW k \in 1..Len(new), NEW m \in Len(ev) + k..Len(all),
             new[k].kind = "turns" /\ x <= new[k].to
      PROVE  Reaches(all, m, w, x)
  <2>1. Len(ev) + k \in 1..m /\ all[Len(ev) + k] = new[k]
    BY <1>1
  <2> QED
    BY <1>3, <2>1 DEF Reaches
<1>4. Linked(all, w)
  <2> SUFFICES ASSUME NEW i \in 1..Len(all), all[i].kind = "turns"
               PROVE  Reaches(all, i - 1, w, all[i].from)
    BY DEF Linked
  <2>1. CASE i <= Len(ev)
    <3>1. i \in 1..Len(ev) /\ all[i] = ev[i] /\ i - 1 \in 0..Len(ev) /\ i - 1 \in i - 1..Len(all)
      BY <1>1, <2>1
    <3>2. Reaches(ev, i - 1, w, ev[i].from)
      BY <3>1 DEF Linked
    <3> QED
      BY <1>2, <3>1, <3>2
  <2>2. CASE i > Len(ev)
    <3> DEFINE k == i - Len(ev)
    <3>1. k \in 1..Len(new) /\ i = Len(ev) + k /\ all[i] = new[k]
      BY <1>1, <2>2
    <3> HIDE DEF k
    <3>2. CASE Reaches(ev, Len(ev), w, new[k].from)
      <4>1. Len(ev) \in 0..Len(ev) /\ i - 1 \in Len(ev)..Len(all)
        BY <1>1, <3>1
      <4> QED
        BY <1>2, <3>1, <3>2, <4>1
    <3>3. CASE k > 1 /\ new[k - 1].kind = "turns" /\ new[k].from <= new[k - 1].to
      <4>1. k - 1 \in 1..Len(new) /\ i - 1 \in Len(ev) + (k - 1)..Len(all)
        BY <1>1, <3>1, <3>3
      <4> QED
        BY <1>3, <3>1, <3>3, <4>1
    <3> QED
      BY <3>1, <3>2, <3>3
  <2> QED
    BY <1>1, <2>1, <2>2
<1>5. Len(ev) \in 0..Len(ev) /\ Len(all) \in Len(ev)..Len(all)
      /\ \A k \in 1..Len(new) : Len(all) \in Len(ev) + k..Len(all)
  BY <1>1
<1> QED
  BY <1>2, <1>3, <1>4, <1>5 DEF all

-----------------------------------------------------------------------------
(* What one drain of the stream makes. *)

\* The steps are a sequence; of what, the proof need not know.
IsHistory(s) == \E S : s \in Seq(S)

LEMMA NewSteps ==
  ASSUME NEW old, NEW n \in Nat, NEW made, IsHistory(old), made = [k \in 1..n |-> made[k]]
  PROVE  /\ IsHistory(old \o made)
         /\ SubSeq(old \o made, Len(old) + 1, Len(old \o made)) = made
<1>1. PICK S : old \in Seq(S)
  BY DEF IsHistory
<1> DEFINE T == S \cup {made[k] : k \in 1..n}
<1>2. old \in Seq(T)
  BY <1>1
<1>3. made \in [1..n -> T]
  OBVIOUS
<1>4. made \in Seq(T) /\ Len(made) = n
  BY <1>3
<1> HIDE DEF T
<1>5. old \o made \in Seq(T) /\ Len(old \o made) = Len(old) + n /\ Len(old) \in Nat
  BY <1>2, <1>4, ConcatProperties, LenProperties
<1>6. CASE n = 0
  BY <1>4, <1>5, <1>6, SubSeqEmpty
<1>7. CASE n > 0
  <2>1. /\ Len(old) + 1 \in Len(old) + 1..Len(old) + Len(made)
        /\ Len(old) + n \in Len(old) + 1..Len(old) + Len(made)
    BY <1>4, <1>5, <1>7
  <2>2. SubSeq(old \o made, Len(old) + 1, Len(old) + n)
          = SubSeq(made, (Len(old) + 1) - Len(old), (Len(old) + n) - Len(old))
    BY <1>2, <1>4, <2>1, SubSeqOfConcat2
  <2>3. (Len(old) + 1) - Len(old) = 1 /\ (Len(old) + n) - Len(old) = n
    BY <1>5
  <2>4. SubSeq(made, 1, n) = made
    BY <1>4, SubSeqFull
  <2> QED
    BY <1>5, <2>2, <2>3, <2>4 DEF IsHistory
<1> QED
  BY <1>5, <1>6, <1>7 DEF IsHistory

\* What a drain leaves: the events of the steps it made are linked, begin at the
\* frames made before it and, unless it was forced, end at those made after it.
LEMMA DrainSpans ==
  ASSUME Aligned, ~finished, IsHistory(steps), NEW force \in BOOLEAN,
         NEW r \in Nat, received <= r, received' = r, finished' = force, Drain(force)
  PROVE  /\ Aligned' /\ IsHistory(steps)'
         /\ \E n \in Nat :
              /\ EventsOf(Made) \in Seq(Events) /\ Len(EventsOf(Made)) = n
              /\ \A k \in 1..n :
                   LET e == EventsOf(Made)[k] IN
                   /\ e.kind = "turns"
                   /\ k = 1 => e.from = outputFrames * FrameMs
                   /\ k > 1 => e.from = EventsOf(Made)[k - 1].to
                   /\ ~force /\ k = n => e.to = outputFrames' * FrameMs
              /\ n = 0 => outputFrames' = outputFrames
<1> DEFINE a == Rest(r)
           size == Most(0, received' - pcmStart)
           n == Ready(force, size - nextCore)
           made == [k \in 1..n |-> Step(size, nextCore + (k - 1) * Core,
                                        outputFrames + (k - 1) * CoreFrames)]
           next == nextCore + n * Core
<1>0. /\ received \in Nat /\ pcmStart \in Nat /\ nextCore \in Nat /\ outputFrames \in Nat
      /\ pcmStart + nextCore = outputFrames * FrameSamples /\ pcmStart + nextCore <= received
  BY DEF Aligned
<1>1. size = r - pcmStart /\ size - nextCore = a /\ a \in Nat
  <2>1. Most(0, r - pcmStart) = r - pcmStart /\ (r - pcmStart) - nextCore = a /\ a \in Nat
    BY <1>0 DEF Most, Rest
  <2> QED
    BY <2>1
<1>2. /\ steps' = steps \o made
      /\ outputFrames' = IF n = 0 THEN outputFrames
                         ELSE outputFrames + (n - 1) * CoreFrames + CeilDiv(made[n].real, FrameSamples)
      /\ pcmStart' = pcmStart + Dropped(next)
      /\ nextCore' = next - Dropped(next)
  BY DEF Drain
<1>3. /\ n \in Nat
      /\ \A k \in 1..n : (k - 1) * Core < a /\ (k < n \/ ~force => k * Core <= a)
  BY <1>1, ReadyCores
<1> HIDE DEF n
<1>4. \A k \in 1..n :
        /\ made[k].starts = (outputFrames + (k - 1) * CoreFrames) * FrameMs
        /\ made[k].starts \in Nat /\ made[k].finalized \in Nat /\ made[k].real \in Nat \ {0}
        /\ k < n \/ ~force => /\ made[k].finalized = (outputFrames + k * CoreFrames) * FrameMs
                              /\ made[k].real = Core
  <2> SUFFICES ASSUME NEW k \in 1..n
               PROVE  /\ made[k].starts = (outputFrames + (k - 1) * CoreFrames) * FrameMs
                      /\ made[k].starts \in Nat /\ made[k].finalized \in Nat /\ made[k].real \in Nat \ {0}
                      /\ k < n \/ ~force =>
                            /\ made[k].finalized = (outputFrames + k * CoreFrames) * FrameMs
                            /\ made[k].real = Core
    OBVIOUS
  <2>1. k \in Nat \ {0}
    BY <1>3
  <2>2. (k - 1) * Core < Rest(r) /\ (k < n \/ ~force => k * Core <= Rest(r))
    BY <1>3
  <2>3. made[k] = Step(r - pcmStart, nextCore + (k - 1) * Core,
                       outputFrames + (k - 1) * CoreFrames)
    BY <1>1
  <2> HIDE DEF made
  <2> QED
    BY <2>1, <2>2, <2>3, StepSpans
<1>5. made = [k \in 1..n |-> made[k]]
  OBVIOUS
<1> HIDE DEF made
<1>6. IsHistory(steps)' /\ Made = made
  BY <1>2, <1>3, <1>5, NewSteps DEF Made, IsHistory
<1>7. /\ outputFrames' \in Nat
      /\ n = 0 \/ ~force => outputFrames' = outputFrames + n * CoreFrames
  <2>1. CASE n = 0
    BY <1>0, <1>2, <2>1, Sizes
  <2>2. CASE n > 0
    <3> DEFINE up == CeilDiv(made[n].real, FrameSamples)
    <3>1. n \in 1..n /\ n - 1 \in Nat
      BY <1>3, <2>2
    <3>2. up \in Nat /\ (~force => up = CoreFrames)
      BY <1>4, <3>1, Sizes, RoundedUp, WholeRoundedUp
    <3>3. outputFrames' = outputFrames + (n - 1) * CoreFrames + up
      BY <1>2, <2>2
    <3>4. (n - 1) * CoreFrames \in Nat /\ n * CoreFrames = (n - 1) * CoreFrames + 1 * CoreFrames
      <4>1. \A x, y \in Nat : x * y \in Nat
        OBVIOUS
      <4>2. ((n - 1) + 1) * CoreFrames = (n - 1) * CoreFrames + 1 * CoreFrames
        BY <3>1, Sizes, Times
      <4>3. (n - 1) + 1 = n
        BY <1>3
      <4> QED
        BY <3>1, <4>1, <4>2, <4>3, Sizes
    <3> HIDE DEF up
    <3> QED
      BY <1>0, <2>2, <3>2, <3>3, <3>4, Sizes
  <2> QED
    BY <1>3, <2>1, <2>2
<1>8. Aligned'
  <2>1. n * Core \in Nat
    <3>1. \A x, y \in Nat : x * y \in Nat
      OBVIOUS
    <3> QED
      BY <1>3, <3>1, Sizes
  <2>2. next \in Nat
    BY <1>0, <2>1
  <2>3. Dropped(next) \in Nat /\ Dropped(next) <= next
    BY <2>2, Sizes DEF Dropped, Most
  <2>4. pcmStart' \in Nat /\ nextCore' \in Nat /\ pcmStart' + nextCore' = pcmStart + next
    <3>1. \A d \in Nat : d <= next => /\ pcmStart + d \in Nat /\ next - d \in Nat
                                       /\ (pcmStart + d) + (next - d) = pcmStart + next
      BY <1>0, <2>2
    <3> QED
      BY <1>2, <2>3, <3>1, Zenon
  <2>5. ASSUME ~force
        PROVE  pcmStart + next = outputFrames' * FrameSamples /\ pcmStart + next <= r
    <3>1. (outputFrames + n * CoreFrames) * FrameSamples
             = outputFrames * FrameSamples + (n * CoreFrames) * FrameSamples
      BY <1>0, <1>3, Sizes, Times
    <3>2. (n * CoreFrames) * FrameSamples = n * Core
      BY <1>3, Sizes, Associative
    <3>3. n * Core <= a
      BY <1>1, <1>3, <2>5, Sizes
    <3>4. pcmStart + next = (pcmStart + nextCore) + n * Core /\ pcmStart + next <= r
      BY <1>0, <2>1, <3>3 DEF Rest
    <3> QED
      BY <1>0, <1>7, <2>5, <3>1, <3>2, <3>4
  <2> QED
    BY <1>7, <2>4, <2>5 DEF Aligned
<1> DEFINE ev == EventsOf(made)
<1>9. /\ DOMAIN made = 1..n
      /\ ev = [k \in 1..n |-> Event("turns", made[k].starts, made[k].finalized)]
  BY <1>5 DEF EventsOf
<1>10. ev \in Seq(Events) /\ Len(ev) = n
  <2>1. \A k \in 1..n : Event("turns", made[k].starts, made[k].finalized) \in Events
    BY <1>4 DEF Event, Events
  <2>2. ev \in [1..n -> Events]
    BY <1>9, <2>1
  <2> HIDE DEF ev
  <2> QED
    BY <1>3, <2>2
<1>11. \A k \in 1..n :
         /\ ev[k].kind = "turns"
         /\ k = 1 => ev[k].from = outputFrames * FrameMs
         /\ k > 1 => ev[k].from = ev[k - 1].to
         /\ ~force /\ k = n => ev[k].to = outputFrames' * FrameMs
  <2> SUFFICES ASSUME NEW k \in 1..n
               PROVE  /\ ev[k].kind = "turns"
                      /\ k = 1 => ev[k].from = outputFrames * FrameMs
                      /\ k > 1 => ev[k].from = ev[k - 1].to
                      /\ ~force /\ k = n => ev[k].to = outputFrames' * FrameMs
    OBVIOUS
  <2>1. \A j \in 1..n : /\ ev[j].kind = "turns" /\ ev[j].from = made[j].starts
                        /\ ev[j].to = made[j].finalized
    BY <1>9 DEF Event
  <2> HIDE DEF ev
  <2>2. k = 1 => made[k].starts = outputFrames * FrameMs
    <3>1. outputFrames + (1 - 1) * CoreFrames = outputFrames
      BY <1>0, Sizes
    <3> QED
      BY <1>4, <3>1
  <2>3. k > 1 => made[k].starts = made[k - 1].finalized
    <3> SUFFICES ASSUME k > 1 PROVE made[k].starts = made[k - 1].finalized
      OBVIOUS
    <3>1. k - 1 \in 1..n /\ k - 1 < n
      BY <1>3
    <3> QED
      BY <1>4, <3>1
  <2>4. ~force /\ k = n => made[k].finalized = outputFrames' * FrameMs
    BY <1>4, <1>7
  <2> QED
    BY <2>1, <2>2, <2>3, <2>4, <1>3
<1>12. n = 0 => outputFrames' = outputFrames
  BY <1>2
<1> HIDE DEF ev
<1>13. EventsOf(Made) = ev
  BY <1>6 DEF ev
<1> QED
  BY <1>3, <1>6, <1>8, <1>10, <1>11, <1>12, <1>13

-----------------------------------------------------------------------------
(* The timeline of the client, and what one event does to it. *)

\* Every point before the watermark is in a span that was received.
Covered ==
    /\ turns \subseteq [from : Nat, to : Nat]
    /\ \A p \in Nat : p < watermark => \E span \in turns : span.from <= p /\ p < span.to

ClientTypes ==
    /\ watermark \in Nat /\ fed \in Nat /\ target \in Nat /\ answeredTo \in Nat
    /\ queue \in Seq(Nat)

TimelineInv ==
    /\ ClientTypes /\ Covered
    /\ Aligned /\ IsHistory(steps)
    /\ server \in {"new", "serving"} => ~finished
    /\ events \in Seq(Events) /\ Linked(events, watermark)
    /\ ~finished => Reaches(events, Len(events), watermark, outputFrames * FrameMs)
    /\ answer = "roles" => answeredTo <= watermark

LEMMA InitTimeline == Init => TimelineInv
<1> SUFFICES ASSUME Init PROVE TimelineInv
  OBVIOUS
<1>0. /\ received = 0 /\ pcmStart = 0 /\ nextCore = 0 /\ outputFrames = 0 /\ finished = FALSE
      /\ steps = <<>> /\ answer = "none" /\ watermark = 0
  BY Zenon DEF Init, StreamInit
<1>1. ClientTypes /\ Covered
  BY DEF Init, ClientTypes, Covered
<1>2. Aligned /\ IsHistory(steps)
  <2>1. steps \in Seq({})
    BY <1>0
  <2>2. 0 * FrameSamples = 0
    BY Sizes
  <2>3. IsHistory(steps)
    BY <2>1 DEF IsHistory
  <2>4. Aligned
    <3>1. 0 + 0 = 0 * FrameSamples /\ 0 + 0 <= 0 /\ 0 \in Nat /\ FALSE \in BOOLEAN
      BY <2>2
    <3> QED
      BY <1>0, <3>1, Zenon DEF Aligned
  <2> QED
    BY <2>3, <2>4
<1>3. events \in Seq(Events) /\ Linked(events, watermark)
  BY DEF Init, Linked
<1>4. Reaches(events, Len(events), watermark, outputFrames * FrameMs)
  <2>1. 0 * FrameMs = 0
    BY Sizes
  <2> QED
    BY <1>0, <2>1 DEF Reaches
<1> QED
  BY <1>0, <1>1, <1>2, <1>3, <1>4, Zenon DEF TimelineInv

\* The points where a frame of the output begins are times.
LEMMA FrameTimes == Aligned => outputFrames * FrameMs \in Nat
<1>1. \A x, y \in Nat : x * y \in Nat
  OBVIOUS
<1> QED
  BY <1>1, Sizes DEF Aligned

LEMMA RoundedIsNat ==
  ASSUME NEW n \in Nat, NEW d \in Nat \ {0}
  PROVE  Rounded(n, d) \in Nat
  BY Quotient DEF Rounded

LEMMA SendOne ==
  ASSUME TimelineInv, NEW kind \in {"started", "ended", "failed"},
         events' = Append(events, Event(kind, 0, 0)),
         UNCHANGED <<watermark, streamVars>>
  PROVE  /\ events' \in Seq(Events) /\ Linked(events', watermark')
         /\ ~finished' => Reaches(events', Len(events'), watermark', outputFrames' * FrameMs)
<1> DEFINE e == <<Event(kind, 0, 0)>>
<1>1. e \in Seq(Events) /\ Len(e) = 1 /\ e[1].kind # "turns"
  BY DEF Event, Events
<1>2. events \in Seq(Events) /\ Linked(events, watermark) /\ watermark \in Nat
  BY DEF TimelineInv, ClientTypes
<1>3. events' = events \o e
  BY <1>2, AppendIsConcat, <1>1 DEF Events, Event
<1> HIDE DEF e
<1>4. \A k \in 1..Len(e) : e[k].kind # "turns"
  BY <1>1
<1>5. /\ Linked(events \o e, watermark)
      /\ \A x \in Nat : Reaches(events, Len(events), watermark, x)
                           => Reaches(events \o e, Len(events \o e), watermark, x)
  BY <1>1, <1>2, <1>4, LinkedConcat
<1>6. events \o e \in Seq(Events)
  BY <1>1, <1>2, ConcatProperties
<1>7. outputFrames' = outputFrames /\ finished' = finished /\ watermark' = watermark
  BY DEF streamVars
<1>8. outputFrames * FrameMs \in Nat
  BY FrameTimes DEF TimelineInv
<1>9. ~finished => Reaches(events, Len(events), watermark, outputFrames * FrameMs)
  BY DEF TimelineInv
<1>10. ~finished' => Reaches(events', Len(events'), watermark', outputFrames' * FrameMs)
  BY <1>3, <1>5, <1>7, <1>8, <1>9, Zenon
<1>11. events' \in Seq(Events) /\ Linked(events', watermark')
  BY <1>3, <1>5, <1>6, <1>7, Zenon
<1> QED
  BY <1>10, <1>11

LEMMA ReceiveOne ==
  ASSUME TimelineInv, events # <<>>, events' = Tail(events), UNCHANGED streamVars,
         NEW v \in Nat, watermark <= v, watermark' = v,
         Head(events).kind = "turns" => Head(events).to <= v
  PROVE  /\ events' \in Seq(Events) /\ Linked(events', watermark')
         /\ ~finished' => Reaches(events', Len(events'), watermark', outputFrames' * FrameMs)
<1>1. events \in Seq(Events) /\ Linked(events, watermark) /\ watermark \in Nat
  BY DEF TimelineInv, ClientTypes
<1>2. /\ Linked(Tail(events), v)
      /\ \A x \in Nat : Reaches(events, Len(events), watermark, x)
                           => Reaches(Tail(events), Len(Tail(events)), v, x)
  BY <1>1, LinkedTail
<1>3. Tail(events) \in Seq(Events)
  BY <1>1, HeadTailProperties
<1>4. outputFrames' = outputFrames /\ finished' = finished
  BY DEF streamVars
<1>5. outputFrames * FrameMs \in Nat
  BY FrameTimes DEF TimelineInv
<1>6. ~finished => Reaches(events, Len(events), watermark, outputFrames * FrameMs)
  BY DEF TimelineInv
<1>7. ~finished' => Reaches(events', Len(events'), watermark', outputFrames' * FrameMs)
  BY <1>2, <1>4, <1>5, <1>6, Zenon
<1> QED
  BY <1>2, <1>3, <1>7, Zenon

\* What only the sidecar or only the client can disturb.
StreamSide ==
    /\ Aligned /\ IsHistory(steps)
    /\ server \in {"new", "serving"} => ~finished

EventsSide ==
    /\ events \in Seq(Events) /\ Linked(events, watermark)
    /\ ~finished => Reaches(events, Len(events), watermark, outputFrames * FrameMs)

LEMMA QueueTakes ==
  ASSUME ClientTypes, queue # <<>>
  PROVE  Head(queue) \in Nat /\ Tail(queue) \in Seq(Nat)
  BY HeadTailProperties DEF ClientTypes

\* The sidecar's stream drains: by force at the end, whose event follows.
LEMMA DrainsIntoEvents ==
  ASSUME TimelineInv, ~finished, NEW force \in BOOLEAN,
         NEW r \in Nat, received <= r, received' = r, finished' = force, Drain(force),
         UNCHANGED watermark,
         NEW last \in Seq(Events), \A k \in 1..Len(last) : last[k].kind # "turns",
         events' = (events \o EventsOf(Made)) \o last
  PROVE  Aligned' /\ IsHistory(steps)' /\ EventsSide'
<1> DEFINE ev == EventsOf(Made)
           mid == events \o ev
<1>1. /\ events \in Seq(Events) /\ Linked(events, watermark) /\ watermark \in Nat
      /\ Reaches(events, Len(events), watermark, outputFrames * FrameMs)
      /\ outputFrames * FrameMs \in Nat
  BY FrameTimes DEF TimelineInv, ClientTypes
<1>2. /\ Aligned' /\ IsHistory(steps)'
      /\ \E n \in Nat :
           /\ ev \in Seq(Events) /\ Len(ev) = n
           /\ \A k \in 1..n :
                /\ ev[k].kind = "turns"
                /\ k = 1 => ev[k].from = outputFrames * FrameMs
                /\ k > 1 => ev[k].from = ev[k - 1].to
                /\ ~force /\ k = n => ev[k].to = outputFrames' * FrameMs
           /\ n = 0 => outputFrames' = outputFrames
  BY DrainSpans, Zenon DEF TimelineInv
<1> HIDE DEF ev
<1>3. PICK n \in Nat :
           /\ ev \in Seq(Events) /\ Len(ev) = n
           /\ \A k \in 1..n :
                /\ ev[k].kind = "turns"
                /\ k = 1 => ev[k].from = outputFrames * FrameMs
                /\ k > 1 => ev[k].from = ev[k - 1].to
                /\ ~force /\ k = n => ev[k].to = outputFrames' * FrameMs
           /\ n = 0 => outputFrames' = outputFrames
  BY <1>2
<1>4. \A k \in 1..Len(ev) : ev[k].kind = "turns" =>
         \/ Reaches(events, Len(events), watermark, ev[k].from)
         \/ k > 1 /\ ev[k - 1].kind = "turns" /\ ev[k].from <= ev[k - 1].to
  <2> SUFFICES ASSUME NEW k \in 1..n
               PROVE  \/ Reaches(events, Len(events), watermark, ev[k].from)
                      \/ k > 1 /\ ev[k - 1].kind = "turns" /\ ev[k].from <= ev[k - 1].to
    BY <1>3
  <2>1. CASE k = 1
    BY <1>1, <1>3, <2>1
  <2>2. CASE k > 1
    <3>1. k - 1 \in 1..n /\ k - 1 \in 1..Len(ev)
      BY <1>3, <2>2
    <3>2. ev[k - 1] \in Events
      BY <1>3, <3>1, ElementOfSeq
    <3>3. ev[k].from = ev[k - 1].to /\ ev[k - 1].to \in Nat /\ ev[k - 1].kind = "turns"
      BY <1>3, <2>2, <3>1, <3>2, EventTimes
    <3> QED
      BY <2>2, <3>3
  <2> QED
    BY <2>1, <2>2
<1>5. /\ Linked(mid, watermark) /\ mid \in Seq(Events)
      /\ \A x \in Nat : Reaches(events, Len(events), watermark, x) => Reaches(mid, Len(mid), watermark, x)
      /\ \A x \in Nat, k \in 1..Len(ev) :
            ev[k].kind = "turns" /\ x <= ev[k].to => Reaches(mid, Len(mid), watermark, x)
  BY <1>1, <1>3, <1>4, LinkedConcat, ConcatProperties
<1> HIDE DEF mid
<1>6. /\ Linked(mid \o last, watermark) /\ mid \o last \in Seq(Events)
      /\ \A x \in Nat : Reaches(mid, Len(mid), watermark, x)
                           => Reaches(mid \o last, Len(mid \o last), watermark, x)
  BY <1>1, <1>5, LinkedConcat, ConcatProperties
<1>7. events' = mid \o last /\ watermark' = watermark
  BY DEF mid, ev
<1>8. outputFrames' * FrameMs \in Nat
  <2>1. \A x, y \in Nat : x * y \in Nat
    OBVIOUS
  <2> QED
    BY <1>2, <2>1, Sizes DEF Aligned
<1>9. ~force => Reaches(mid, Len(mid), watermark, outputFrames' * FrameMs)
  <2>1. CASE n = 0
    BY <1>1, <1>3, <1>5, <2>1
  <2>2. CASE n > 0
    <3>1. n \in 1..n /\ n \in 1..Len(ev)
      BY <1>3, <2>2
    <3>2. ~force => ev[n].kind = "turns" /\ outputFrames' * FrameMs <= ev[n].to
      BY <1>3, <1>8, <3>1
    <3> QED
      BY <1>5, <1>8, <3>1, <3>2
  <2> QED
    BY <1>3, <2>1, <2>2
<1>10. ~finished' => Reaches(events', Len(events'), watermark', outputFrames' * FrameMs)
  BY <1>6, <1>7, <1>8, <1>9, Zenon
<1>11. events' \in Seq(Events) /\ Linked(events', watermark')
  BY <1>6, <1>7, Zenon
<1> QED
  BY <1>2, <1>10, <1>11 DEF EventsSide

-----------------------------------------------------------------------------
(* The steps of the client. *)

\* The parts of the invariant.
LEMMA Parts ==
  TimelineInv <=> /\ ClientTypes /\ Covered /\ StreamSide /\ EventsSide
                  /\ answer = "roles" => answeredTo <= watermark
  BY DEF TimelineInv, StreamSide, EventsSide

timeline == <<watermark, turns>>
answers  == <<target, answer, answeredTo>>

LEMMA StreamSideStays ==
  ASSUME StreamSide, UNCHANGED streamVars, server' = server \/ server' \notin {"new", "serving"}
                                             \/ (server = "new" /\ server' = "serving")
  PROVE  StreamSide'
  BY DEF StreamSide, streamVars, Aligned, IsHistory

LEMMA EventsSideStays ==
  ASSUME EventsSide, UNCHANGED <<streamVars, events, watermark>>
  PROVE  EventsSide'
  BY DEF EventsSide, streamVars, Linked, Reaches

LEMMA CoveredStays == ASSUME Covered, UNCHANGED timeline PROVE Covered'
  BY DEF Covered, timeline

LEMMA ClientStep ==
  ASSUME TimelineInv,
         \/ StartReturns \/ StartTimesOut \/ Finish \/ FinishPuts \/ Aclose
         \/ AcloseReturns \/ AcloseTimesOut \/ UNCHANGED vars
         \/ \E n \in ChunkSizes : Feed(n)
  PROVE  TimelineInv'
<1>0. ClientTypes /\ Covered /\ StreamSide /\ EventsSide
      /\ (answer = "roles" => answeredTo <= watermark)
  BY Parts
<1>1. /\ UNCHANGED <<streamVars, events, timeline, answers>>
      /\ server' = server \/ server' \notin {"new", "serving"}
  BY DEF StartReturns, StartTimesOut, Finish, FinishPuts, Aclose, AcloseReturns, AcloseTimesOut,
         Feed, vars, clientVars, callVars, serverVars, timeline, answers
<1>2. fed' \in Nat /\ queue' \in Seq(Nat)
  <2>1. fed \in Nat /\ queue \in Seq(Nat) /\ EOS \in Nat
    BY <1>0 DEF ClientTypes, EOS
  <2>2. ASSUME NEW n \in ChunkSizes, Feed(n) PROVE fed' \in Nat /\ queue' \in Seq(Nat)
    <3>1. n \in Nat
      BY DiarizationAssumption DEF DiarizationAssumption
    <3>2. fed + n \in Nat /\ Append(queue, n) \in Seq(Nat)
      BY <2>1, <3>1
    <3> QED
      BY <2>1, <2>2, <3>2, Zenon DEF Feed
  <2>3. Append(queue, EOS) \in Seq(Nat)
    BY <2>1
  <2> QED
    BY <2>1, <2>2, <2>3, Zenon
       DEF StartReturns, StartTimesOut, Finish, FinishPuts, Aclose, AcloseReturns,
           AcloseTimesOut, vars, clientVars
<1>3. ClientTypes'
  BY <1>0, <1>1, <1>2 DEF ClientTypes, timeline, answers
<1>4. Covered' /\ StreamSide' /\ EventsSide'
  BY <1>0, <1>1, CoveredStays, StreamSideStays, EventsSideStays, Zenon DEF timeline
<1>5. (answer = "roles" => answeredTo <= watermark)'
  BY <1>0, <1>1 DEF timeline, answers
<1> QED
  BY <1>3, <1>4, <1>5, Parts, PTL

LEMMA WorkStep ==
  ASSUME TimelineInv,
         \/ \E end \in SegmentEnds \cup {fed} : TurnsFor(end)
         \/ TurnsForReturns \/ TurnsForTimesOut
  PROVE  TimelineInv'
<1>0. ClientTypes /\ Covered /\ StreamSide /\ EventsSide
      /\ (answer = "roles" => answeredTo <= watermark)
  BY Parts
<1>1. UNCHANGED <<streamVars, events, timeline, server, fed, queue>>
  BY DEF TurnsFor, TurnsForReturns, TurnsForTimesOut, clientVars, serverVars, timeline
<1>2. /\ target' \in Nat /\ answeredTo' \in Nat
      /\ answer' = "roles" => answeredTo' <= watermark
  <2>1. target \in Nat /\ answeredTo \in Nat /\ fed \in Nat /\ watermark \in Nat
    BY <1>0 DEF ClientTypes
  <2>2. ASSUME NEW end \in SegmentEnds \cup {fed}, TurnsFor(end)
        PROVE  /\ target' \in Nat /\ answeredTo' \in Nat
               /\ answer' = "roles" => answeredTo' <= watermark
    <3>1. Rounded(end, MsSamples) \in Nat
      BY <2>1, Sizes, RoundedIsNat, DiarizationAssumption DEF DiarizationAssumption
    <3>2. 0 \in Nat /\ "plain" # "roles"
      OBVIOUS
    <3> QED
      BY <1>0, <2>1, <2>2, <3>1, <3>2, Zenon DEF TurnsFor, Answer
  <2>3. CASE TurnsForReturns
    BY <2>1, <2>3 DEF TurnsForReturns, Answer
  <2>4. CASE TurnsForTimesOut
    BY <2>1, <2>4 DEF TurnsForTimesOut, Answer
  <2> QED
    BY <2>2, <2>3, <2>4
<1>3. ClientTypes'
  BY <1>0, <1>1, <1>2 DEF ClientTypes, timeline
<1>4. Covered' /\ StreamSide' /\ EventsSide'
  BY <1>0, <1>1, CoveredStays, StreamSideStays, EventsSideStays, Zenon DEF timeline
<1>5. (answer = "roles" => answeredTo <= watermark)'
  BY <1>1, <1>2 DEF timeline
<1> QED
  BY <1>3, <1>4, <1>5, Parts, PTL

\* The events that are not turns.
LEMMA ReceiveOther ==
  ASSUME TimelineInv, ReceiveStarted \/ ReceiveEnded \/ ReceiveFailed
  PROVE  TimelineInv'
<1>0. ClientTypes /\ Covered /\ StreamSide /\ EventsSide
      /\ (answer = "roles" => answeredTo <= watermark)
  BY Parts
<1>1. /\ UNCHANGED <<streamVars, timeline, answers, server, fed, queue>>
      /\ events # <<>> /\ events' = Tail(events) /\ Head(events).kind # "turns"
  BY DEF ReceiveStarted, ReceiveEnded, ReceiveFailed, NextEvent, callVars, serverVars,
         timeline, answers
<1>2. ClientTypes'
  BY <1>0, <1>1 DEF ClientTypes, timeline, answers
<1>3. Covered' /\ StreamSide'
  BY <1>0, <1>1, CoveredStays, StreamSideStays, Zenon
<1>4. EventsSide'
  <2>1. watermark \in Nat /\ watermark <= watermark /\ watermark' = watermark
    BY <1>0, <1>1 DEF ClientTypes, timeline
  <2> QED
    BY <1>1, <2>1, ReceiveOne DEF EventsSide
<1>5. (answer = "roles" => answeredTo <= watermark)'
  BY <1>0, <1>1 DEF timeline, answers
<1> QED
  BY <1>2, <1>3, <1>4, <1>5, Parts, PTL

\* An event begins where the timeline reaches, and carries it to its own end.
LEMMA ReceiveTurnsStep ==
  ASSUME TimelineInv, ReceiveTurns
  PROVE  TimelineInv'
<1> DEFINE e == Head(events)
           v == IF e.to > watermark THEN e.to ELSE watermark
<1>0. ClientTypes /\ Covered /\ StreamSide /\ EventsSide
      /\ (answer = "roles" => answeredTo <= watermark)
  BY Parts
<1>1. /\ UNCHANGED <<streamVars, answers, server, fed, queue>>
      /\ events # <<>> /\ events' = Tail(events) /\ e.kind = "turns"
      /\ turns' = turns \cup {[from |-> e.from, to |-> e.to]}
      /\ watermark' = v
  BY DEF ReceiveTurns, NextEvent, callVars, serverVars, answers
<1>2. /\ watermark \in Nat /\ events \in Seq(Events) /\ Linked(events, watermark)
  BY <1>0 DEF ClientTypes, EventsSide
<1>3. e \in Events /\ 1 \in 1..Len(events) /\ e = events[1]
  BY <1>1, <1>2, HeadTailProperties, ElementOfSeq, LenProperties
<1>4. e.from \in Nat /\ e.to \in Nat
  BY <1>3, EventTimes
<1>5. e.from <= watermark
  <2>1. Reaches(events, 1 - 1, watermark, e.from)
    BY <1>1, <1>2, <1>3, Zenon DEF Linked
  <2> QED
    BY <2>1 DEF Reaches
<1>6. v \in Nat /\ watermark <= v /\ e.to <= v
      /\ \A p \in Nat : p < v => p < watermark \/ (watermark <= p /\ p < e.to)
  BY <1>2, <1>4
<1> HIDE DEF e, v
<1>7. ClientTypes'
  BY <1>0, <1>1, <1>6 DEF ClientTypes, answers
<1>8. Covered'
  <2> DEFINE new == [from |-> e.from, to |-> e.to]
  <2>1. new \in [from : Nat, to : Nat] /\ new.from = e.from /\ new.to = e.to
    BY <1>4
  <2> HIDE DEF new
  <2>2. turns' = turns \cup {new}
    BY <1>1 DEF new
  <2>3. turns' \subseteq [from : Nat, to : Nat]
    BY <1>0, <2>1, <2>2 DEF Covered
  <2>4. ASSUME NEW p \in Nat, p < v
        PROVE  \E span \in turns' : span.from <= p /\ p < span.to
    <3>1. CASE p < watermark
      BY <1>0, <2>2, <3>1 DEF Covered
    <3>2. CASE watermark <= p /\ p < e.to
      <4>1. new.from <= p /\ p < new.to
        BY <1>2, <1>4, <1>5, <2>1, <3>2
      <4> QED
        BY <2>2, <4>1
    <3> QED
      BY <1>6, <2>4, <3>1, <3>2
  <2> QED
    BY <1>1, <2>3, <2>4, Zenon DEF Covered
<1>9. StreamSide'
  BY <1>0, <1>1, StreamSideStays, Zenon
<1>10. EventsSide'
  <2>1. Head(events).kind = "turns" => Head(events).to <= v
    BY <1>6 DEF e
  <2> QED
    BY <1>1, <1>2, <1>6, <2>1, ReceiveOne DEF EventsSide
<1>11. (answer = "roles" => answeredTo <= watermark)'
  <2>1. answer' = answer /\ answeredTo' = answeredTo /\ answeredTo \in Nat
    BY <1>0, <1>1 DEF answers, ClientTypes
  <2>2. answeredTo <= watermark => answeredTo <= v
    BY <1>2, <1>6, <2>1
  <2> QED
    BY <1>0, <1>1, <2>1, <2>2, Zenon
<1> QED
  BY <1>7, <1>8, <1>9, <1>10, <1>11, Parts, PTL

-----------------------------------------------------------------------------
(* The steps of the sidecar, and the theorem. *)

\* What the sidecar's steps leave of the client's side.
LEMMA SidecarStep ==
  ASSUME TimelineInv, UNCHANGED <<timeline, answers, fed>>, queue' \in Seq(Nat),
         StreamSide', EventsSide'
  PROVE  TimelineInv'
<1>0. ClientTypes /\ Covered /\ (answer = "roles" => answeredTo <= watermark)
  BY Parts
<1>1. ClientTypes' /\ (answer = "roles" => answeredTo <= watermark)'
  BY <1>0 DEF ClientTypes, timeline, answers
<1>2. Covered'
  BY <1>0, CoveredStays
<1> QED
  BY <1>1, <1>2, Parts, PTL

LEMMA ServeWithoutAudio ==
  ASSUME TimelineInv, ServeStart \/ ServeFails
  PROVE  TimelineInv'
<1>1. /\ UNCHANGED <<streamVars, timeline, answers, fed, queue>>
      /\ \E kind \in {"started", "ended", "failed"} : events' = Append(events, Event(kind, 0, 0))
      /\ server' \notin {"new", "serving"} \/ (server = "new" /\ server' = "serving")
  BY DEF ServeStart, ServeFails, clientVars, callVars, timeline, answers
<1>2. StreamSide'
  BY <1>1, Parts, StreamSideStays
<1>3. EventsSide'
  BY <1>1, SendOne, Zenon DEF EventsSide, timeline
<1>4. queue' \in Seq(Nat)
  BY <1>1, Parts DEF ClientTypes
<1> QED
  BY <1>1, <1>2, <1>3, <1>4, SidecarStep

LEMMA ServeAudioStep ==
  ASSUME TimelineInv, ServeAudio
  PROVE  TimelineInv'
<1> DEFINE n == Head(queue)
           r == received + n
<1>0. ClientTypes /\ StreamSide /\ EventsSide
  BY Parts
<1>1. n \in Nat /\ Tail(queue) \in Seq(Nat)
  BY <1>0, QueueTakes DEF ServeAudio
<1>2. received \in Nat /\ finished = FALSE /\ events \in Seq(Events)
  BY <1>0 DEF ServeAudio, StreamSide, EventsSide, Aligned
<1>3. r \in Nat /\ received <= r
  BY <1>1, <1>2
<1>4. /\ received' = r /\ finished' = FALSE /\ Drain(FALSE) /\ queue' = Tail(queue)
      /\ UNCHANGED <<timeline, answers, fed, server>>
      /\ events' = events \o EventsOf(Made)
  BY <1>2 DEF ServeAudio, StreamFeed, clientVars, callVars, timeline, answers
<1> HIDE DEF r
<1>5. Aligned' /\ IsHistory(steps)' /\ EventsSide'
  <2>1. <<>> \in Seq(Events) /\ \A k \in 1..Len(<<>>) : (<<>>)[k].kind # "turns"
    OBVIOUS
  <2>2. EventsOf(Made) \in Seq(Events)
    BY <1>2, <1>3, <1>4, DrainSpans DEF TimelineInv
  <2>3. events' = (events \o EventsOf(Made)) \o <<>>
    <3>1. events \o EventsOf(Made) \in Seq(Events)
      BY <1>2, <2>2, ConcatProperties
    <3> QED
      BY <1>4, <3>1, ConcatEmptySeq
  <2>4. watermark' = watermark /\ FALSE \in BOOLEAN
    BY <1>4 DEF timeline
  <2> QED
    BY <1>2, <1>3, <1>4, <2>1, <2>3, <2>4, DrainsIntoEvents, Zenon
<1>6. StreamSide'
  BY <1>4, <1>5 DEF StreamSide
<1> QED
  BY <1>1, <1>4, <1>5, <1>6, SidecarStep

LEMMA ServeEndStep ==
  ASSUME TimelineInv, ServeEnd
  PROVE  TimelineInv'
<1> DEFINE last == <<Event("ended", 0, 0)>>
<1>0. ClientTypes /\ StreamSide /\ EventsSide
  BY Parts
<1>1. Tail(queue) \in Seq(Nat)
  BY <1>0, QueueTakes DEF ServeEnd
<1>2. received \in Nat /\ ~finished /\ received <= received
  BY <1>0 DEF ServeEnd, StreamSide, Aligned
<1>3. /\ received' = received /\ finished' = TRUE /\ Drain(TRUE) /\ queue' = Tail(queue)
      /\ server' = "ended" /\ UNCHANGED <<timeline, answers, fed>>
      /\ events' = (events \o EventsOf(Made)) \o last
  BY <1>2 DEF ServeEnd, StreamFinish, clientVars, callVars, timeline, answers
<1>4. last \in Seq(Events) /\ \A k \in 1..Len(last) : last[k].kind # "turns"
  BY DEF Event, Events
<1> HIDE DEF last
<1>5. Aligned' /\ IsHistory(steps)' /\ EventsSide'
  <2>1. watermark' = watermark /\ TRUE \in BOOLEAN
    BY <1>3 DEF timeline
  <2> QED
    BY <1>2, <1>3, <1>4, <2>1, DrainsIntoEvents, Zenon
<1>6. StreamSide'
  BY <1>3, <1>5 DEF StreamSide
<1> QED
  BY <1>1, <1>3, <1>5, <1>6, SidecarStep

LEMMA NextTimeline == TimelineInv /\ [Next]_vars => TimelineInv'
<1> SUFFICES ASSUME TimelineInv, [Next]_vars PROVE TimelineInv'
  OBVIOUS
<1>1. CASE Client \/ UNCHANGED vars
  BY <1>1, ClientStep, WorkStep, ReceiveOther, ReceiveTurnsStep, Zenon DEF Client, ReceiveEvent
<1>2. CASE Sidecar
  BY <1>2, ServeWithoutAudio, ServeAudioStep, ServeEndStep DEF Sidecar
<1> QED
  BY <1>1, <1>2 DEF Next

\* Roles are only given for audio whose turns have all arrived (client.py:177),
\* however the audio was cut, and whoever is ahead: the sidecar makes exactly the
\* frames of the cores it was shown, each span begins where the one before ended,
\* and the events arrive in that order.
THEOREM RolesOnlyForKnownAudio == Spec => []RolesAreFinal
<1>1. TimelineInv => RolesAreFinal
  <2> SUFFICES ASSUME TimelineInv, answer = "roles",
                      NEW p \in {0} \cup {span.to : span \in turns}, p < answeredTo
               PROVE  \E span \in turns : span.from <= p /\ p < span.to
    BY DEF RolesAreFinal, Known
  <2>1. /\ watermark \in Nat /\ answeredTo \in Nat /\ answeredTo <= watermark
        /\ turns \subseteq [from : Nat, to : Nat]
    BY DEF TimelineInv, ClientTypes, Covered
  <2>2. p \in Nat /\ p < watermark
    BY <2>1
  <2> QED
    BY <2>2 DEF TimelineInv, Covered
<1> QED
  BY <1>1, InitTimeline, NextTimeline, PTL DEF Spec

-----------------------------------------------------------------------------
(* The windows the model is shown. *)

\* Whole mel hops.
Hops(x) == \E q \in Nat : x = q * MelSamples

LEMMA Remainder ==
  ASSUME NEW a \in Nat, NEW c \in Nat \ {0}
  PROVE  a = c * (a \div c) + (a % c) /\ a % c \in Nat
<1>1. a = c * (a \div c) + (a % c)
  BY SMTT(30)
<1>2. (a % c) \in 0..(c - 1)
  BY SMTT(30)
<1> QED
  BY <1>1, <1>2

LEMMA Exactly ==
  ASSUME NEW a \in Nat, NEW c \in Nat \ {0}
  PROVE  /\ a % c = 0 => \E q \in Nat : a = q * c
         /\ \A q \in Nat : a = q * c => a % c = 0
<1>1. PICK q \in Nat : q = a \div c
  BY Quotient
<1>2. PICK r \in Nat : r = a % c
  BY Remainder
<1>3. a = c * q + r /\ c * q = q * c /\ c * q \in Nat
  <2>1. a = c * q + r
    BY <1>1, <1>2, Remainder, Zenon
  <2>2. c * q = q * c /\ c * q \in Nat
    OBVIOUS
  <2> QED
    BY <2>1, <2>2
<1>4. r = 0 => a = q * c
  BY <1>3
<1>5. ASSUME NEW p \in Nat, a = p * c PROVE r = 0
  <2>1. p * c <= a /\ a < p * c + c
    BY <1>5
  <2>2. q = p
    BY <1>1, <2>1, QuotientIs
  <2>3. a = c * q
    BY <1>3, <1>5, <2>2, Zenon
  <2>4. PICK x \in Nat : x = c * q
    BY <1>3
  <2> QED
    BY <1>3, <2>3, <2>4
<1> QED
  BY <1>2, <1>4, <1>5

LEMMA MelSizes ==
  /\ MelSamples \in Nat \ {0}
  /\ Hops(Core) /\ Hops(Left) /\ Hops(Right) /\ Hops(Guard) /\ Hops(0)
<1>1. /\ MsSamples \in Nat \ {0} /\ FrameMs \in Nat \ {0} /\ CoreFrames \in Nat \ {0}
      /\ GuardMs \in Nat \ {0} /\ LeftFrames \in Nat /\ RightFrames \in Nat
      /\ MelMs \in Nat \ {0} /\ FrameMs % MelMs = 0 /\ GuardMs % MelMs = 0
  BY SortformerAssumption DEF SortformerAssumption
<1>2. \A a, b \in Nat \ {0} : a * b \in Nat \ {0}
  OBVIOUS
<1>3. \A a, b \in Nat : a * b \in Nat
  OBVIOUS
<1>4. MelSamples \in Nat \ {0}
  BY <1>1, <1>2 DEF MelSamples
<1>5. ASSUME NEW a \in Nat, a % MelMs = 0 PROVE \E q \in Nat : a * MsSamples = q * MelSamples
  <2>1. PICK q \in Nat : a = q * MelMs
    BY <1>1, <1>5, Exactly
  <2>2. a * MsSamples = q * MelSamples
    BY <1>1, <2>1, Associative DEF MelSamples
  <2> QED
    BY <2>2
<1>6. PICK f \in Nat : FrameSamples = f * MelSamples
  BY <1>1, <1>5 DEF FrameSamples
<1>7. ASSUME NEW n \in Nat PROVE Hops(n * FrameSamples)
  <2>1. n * FrameSamples = (n * f) * MelSamples
    BY <1>4, <1>6, Associative
  <2> QED
    BY <1>3, <2>1 DEF Hops
<1>8. Hops(Guard)
  BY <1>1, <1>5 DEF Guard, Hops
<1>9. 0 = 0 * MelSamples
  BY <1>4
<1>10. Hops(0)
  BY <1>9 DEF Hops
<1> QED
  BY <1>1, <1>4, <1>7, <1>8, <1>10 DEF Core, Left, Right

LEMMA HopsOf ==
  ASSUME NEW x, NEW y, Hops(x), Hops(y)
  PROVE  /\ x \in Nat /\ y \in Nat
         /\ Hops(x + y)
         /\ y <= x => Hops(x - y)
<1>1. PICK a \in Nat : x = a * MelSamples
  BY DEF Hops
<1>2. PICK b \in Nat : y = b * MelSamples
  BY DEF Hops
<1>3. MelSamples \in Nat \ {0}
  BY MelSizes
<1>4. x \in Nat /\ y \in Nat
  <2>1. \A c, d \in Nat : c * d \in Nat
    OBVIOUS
  <2> QED
    BY <1>1, <1>2, <1>3, <2>1
<1>5. x + y = (a + b) * MelSamples
  BY <1>1, <1>2, <1>3, Times
<1>6. ASSUME y <= x PROVE Hops(x - y)
  <2>1. b <= a
    <3>1. a < b => (a + 1) * MelSamples <= b * MelSamples
      BY <1>3, Times
    <3>2. (a + 1) * MelSamples = x + 1 * MelSamples
      BY <1>1, <1>3, Times
    <3> QED
      BY <1>2, <1>3, <1>4, <1>6, <3>1, <3>2
  <2>2. PICK d \in Nat : a = d + b
    <3>1. a - b \in Nat /\ a = (a - b) + b
      BY <2>1
    <3> QED
      BY <3>1
  <2>3. x = d * MelSamples + y
    BY <1>1, <1>2, <1>3, <2>2, Times
  <2>4. d * MelSamples \in Int
    BY <1>3, Times
  <2>5. x - y = d * MelSamples
    BY <1>4, <2>3, <2>4
  <2> QED
    BY <2>5 DEF Hops
<1> QED
  BY <1>4, <1>5, <1>6 DEF Hops

LEMMA HopsTimes ==
  ASSUME NEW n \in Nat
  PROVE  Hops(n * Core) /\ n * Core \in Nat
<1>1. PICK a \in Nat : Core = a * MelSamples
  BY MelSizes DEF Hops
<1>2. n * Core = (n * a) * MelSamples
  BY <1>1, MelSizes, Associative
<1>3. \A c, d \in Nat : c * d \in Nat
  OBVIOUS
<1>4. Hops(n * Core)
  BY <1>2, <1>3 DEF Hops
<1> QED
  BY <1>3, <1>4, Sizes

\* Rounding whole hops rounds nothing.
LEMMA RoundsExactly ==
  ASSUME NEW x, NEW y, Hops(x), Hops(y)
  PROVE  Rounded(x, MelSamples) + Rounded(y, MelSamples) = (x + y) \div MelSamples
<1>1. MelSamples \in Nat \ {0}
  BY MelSizes
<1>2. ASSUME NEW q \in Nat
      PROVE  /\ (q * MelSamples) \div MelSamples = q
             /\ Rounded(q * MelSamples, MelSamples) = q
  <2>1. q * MelSamples \in Nat
    <3>1. \A c, d \in Nat : c * d \in Nat
      OBVIOUS
    <3> QED
      BY <1>1, <3>1
  <2>2. q * MelSamples <= q * MelSamples /\ q * MelSamples < q * MelSamples + MelSamples
    BY <1>1, <2>1
  <2>3. (q * MelSamples) \div MelSamples = q
    BY <1>1, <2>1, <2>2, QuotientIs
  <2>4. (q * MelSamples) % MelSamples = 0
    BY <1>1, <2>1, Exactly
  <2>5. ~(2 * 0 > MelSamples) /\ 2 * 0 # MelSamples
    BY <1>1
  <2> QED
    BY <2>3, <2>4, <2>5, Zenon DEF Rounded
<1>3. PICK a \in Nat : x = a * MelSamples
  BY DEF Hops
<1>4. PICK b \in Nat : y = b * MelSamples
  BY DEF Hops
<1>5. x + y = (a + b) * MelSamples /\ a + b \in Nat
  BY <1>1, <1>3, <1>4, Times
<1> QED
  BY <1>2, <1>3, <1>4, <1>5, Zenon

\* The right side of a window, once all of it is there, and at the end of the recording.
LEMMA RightOf ==
  ASSUME NEW size \in Nat, NEW next \in Nat, next < size,
         NEW real, real = Least(Core, size - next),
         NEW end, end = Least(size, next + Core + Right), NEW to, to = Least(size, end + Guard)
  PROVE  /\ next + (Core + Right + Guard) <= size =>
               /\ real = Core /\ to = next + Core + Right + Guard
               /\ to - end = Guard /\ Most(0, end - (next + real)) = Right
         /\ to = Least(size, next + Core + Right + Guard)
  BY Sizes DEF Least, Most

\* What is shown of the window of the core at c, when r samples of the
\* recording are there.
Shown(s, c, r) ==
    /\ s.core = c
    /\ s.from = Most(0, s.core - Left - Guard)
    /\ s.trimLeft + s.left = (s.core - s.from) \div MelSamples
    /\ ~s.forced => /\ s.real = Core /\ s.to = s.core + Core + Right + Guard
                    /\ s.trimRight + s.right = (Right + Guard) \div MelSamples
    /\ s.forced  => s.to = Least(r, s.core + Core + Right + Guard)

\* The window of the core at c, of a buffer cut for the core at d.
LEMMA StepShows ==
  ASSUME NEW c \in Nat, NEW d \in Nat, Hops(c), Hops(d), d <= c, NEW r \in Nat, c < r,
         pcmStart = Most(0, d - Left - Guard), NEW f, finished' \in BOOLEAN,
         ~finished' => c + (Core + Right + Guard) <= r
  PROVE  LET s == Step(r - pcmStart, c - pcmStart, f)
         IN  Shown(s, c, r) /\ s.forced = finished'
<1> DEFINE s == Step(r - pcmStart, c - pcmStart, f)
<1>3. c \in Nat /\ d \in Nat
  BY HopsOf
<1>4. /\ Hops(Core) /\ Hops(Left) /\ Hops(Right) /\ Hops(Guard) /\ Hops(0)
      /\ Core \in Nat \ {0} /\ Left \in Nat /\ Right \in Nat /\ Guard \in Nat
  BY MelSizes, Sizes
<1>5. PICK size : size = r - pcmStart
  OBVIOUS
<1>6. PICK next : next = c - pcmStart
  OBVIOUS
<1>7. PICK start : start = Most(0, next - Left)
  OBVIOUS
<1>8. PICK from : from = Most(0, start - Guard)
  OBVIOUS
<1>9. PICK real : real = Least(Core, size - next)
  OBVIOUS
<1>10. PICK end : end = Least(size, next + Core + Right)
  OBVIOUS
<1>11. PICK to : to = Least(size, end + Guard)
  OBVIOUS
<1>12. /\ s.core = pcmStart + next /\ s.real = real /\ s.from = pcmStart + from
       /\ s.to = pcmStart + to
       /\ s.trimLeft = Rounded(start - from, MelSamples)
       /\ s.trimRight = Rounded(to - end, MelSamples)
       /\ s.left = Rounded(next - start, MelSamples)
       /\ s.right = Rounded(Most(0, end - (next + real)), MelSamples)
       /\ s.forced = finished'
  BY <1>5, <1>6, <1>7, <1>8, <1>9, <1>10, <1>11 DEF Step
<1> HIDE DEF s
<1>13. /\ pcmStart \in Nat /\ next \in Nat /\ start \in Nat /\ from \in Nat
       /\ from <= start /\ start <= next
       /\ pcmStart + from = Most(0, c - Left - Guard)
       /\ start = 0 \/ start = next - Left
       /\ from = 0 \/ from = start - Guard
       /\ pcmStart = 0 \/ (pcmStart = d - Left - Guard /\ Left + Guard <= d)
  <2>1. PICK p : p = pcmStart
    OBVIOUS
  <2>2. p = Most(0, d - Left - Guard) /\ next = c - p
    BY <1>6, <2>1
  <2>3. /\ p \in Nat /\ next \in Nat /\ start \in Nat /\ from \in Nat
        /\ from <= start /\ start <= next
        /\ p + from = Most(0, c - Left - Guard)
        /\ start = 0 \/ start = next - Left
        /\ from = 0 \/ from = start - Guard
        /\ p = 0 \/ (p = d - Left - Guard /\ Left + Guard <= d)
    BY <1>3, <1>4, <1>7, <1>8, <2>2 DEF Most
  <2> QED
    BY <2>1, <2>3
<1>14. size \in Nat /\ next < size /\ pcmStart + next = c /\ pcmStart + size = r
  <2>1. PICK p \in Nat : p = pcmStart
    BY <1>13
  <2>2. size = r - p /\ next = c - p /\ next \in Nat
    BY <1>5, <1>6, <1>13, <2>1, Zenon
  <2>3. size \in Nat /\ next < size /\ p + next = c /\ p + size = r
    BY <1>3, <2>2
  <2> QED
    BY <2>1, <2>3
<1>15. /\ next + (Core + Right + Guard) <= size =>
             /\ real = Core /\ to = next + Core + Right + Guard
             /\ to - end = Guard /\ Most(0, end - (next + real)) = Right
       /\ to = Least(size, next + Core + Right + Guard)
  BY <1>9, <1>10, <1>11, <1>13, <1>14, RightOf
<1>16. s.trimLeft + s.left = (s.core - s.from) \div MelSamples
  <2>1. Hops(next)
    <3>1. CASE pcmStart = 0
      BY <1>3, <1>6, <3>1
    <3>2. CASE pcmStart = d - Left - Guard /\ Left + Guard <= d
      <4>1. Hops(Left + Guard) /\ Left + Guard \in Nat
        BY <1>4, HopsOf
      <4>2. Hops(d - (Left + Guard))
        BY <1>3, <3>2, <4>1, HopsOf
      <4>3. d - (Left + Guard) = pcmStart
        BY <1>3, <1>4, <3>2
      <4>4. Hops(pcmStart) /\ pcmStart <= c
        BY <1>13, <1>14, <4>2, <4>3
      <4> QED
        BY <1>3, <1>6, <4>4, HopsOf
    <3> QED
      BY <1>13, <3>1, <3>2
  <2>2. Hops(next - start) /\ Hops(start)
    <3>1. CASE start = 0
      <4>1. next - start = next
        BY <1>13, <3>1
      <4> QED
        BY <1>4, <2>1, <3>1, <4>1
    <3>2. CASE start = next - Left
      <4>1. next - start = Left /\ Left <= next
        BY <1>4, <1>13, <3>2
      <4> QED
        BY <1>4, <2>1, <3>2, <4>1, HopsOf
    <3> QED
      BY <1>13, <3>1, <3>2
  <2>3. Hops(start - from)
    <3>1. CASE from = 0
      <4>1. start - from = start
        BY <1>13, <3>1
      <4> QED
        BY <2>2, <4>1
    <3>2. CASE from = start - Guard
      <4>1. start - from = Guard
        BY <1>4, <1>13, <3>2
      <4> QED
        BY <1>4, <4>1
    <3> QED
      BY <1>13, <3>1, <3>2
  <2>4. s.trimLeft + s.left = ((start - from) + (next - start)) \div MelSamples
    BY <1>12, <2>2, <2>3, RoundsExactly
  <2>5. (start - from) + (next - start) = s.core - s.from
    BY <1>12, <1>13
  <2> QED
    BY <2>4, <2>5
<1>17. s.core = c /\ s.from = Most(0, s.core - Left - Guard)
  BY <1>12, <1>13, <1>14
<1>18. ASSUME ~s.forced
       PROVE  /\ s.real = Core /\ s.to = s.core + Core + Right + Guard
              /\ s.trimRight + s.right = (Right + Guard) \div MelSamples
  <2>1. c + (Core + Right + Guard) <= r
    BY <1>12, <1>18
  <2>2. next + (Core + Right + Guard) <= size
    BY <1>4, <1>13, <1>14, <2>1
  <2>3. s.trimRight = Rounded(Guard, MelSamples) /\ s.right = Rounded(Right, MelSamples)
    BY <1>12, <1>15, <2>2
  <2>4. s.trimRight + s.right = (Guard + Right) \div MelSamples
    BY <1>4, <2>3, RoundsExactly
  <2>5. Guard + Right = Right + Guard
    BY <1>4
  <2> QED
    BY <1>4, <1>12, <1>13, <1>15, <2>2, <2>4, <2>5
<1>19. s.to = Least(r, s.core + Core + Right + Guard)
  <2>1. \A p \in Nat, x, y \in Nat : p + Least(x, y) = Least(p + x, p + y)
    BY DEF Least
  <2>2. PICK w \in Nat : w = next + Core + Right + Guard
    BY <1>4, <1>13
  <2>3. pcmStart + w = s.core + Core + Right + Guard
    BY <1>4, <1>12, <1>13, <2>2
  <2>4. s.to = Least(pcmStart + size, pcmStart + w)
    BY <1>12, <1>13, <1>14, <1>15, <2>1, <2>2
  <2> QED
    BY <1>14, <2>3, <2>4
<1> QED
  BY <1>5, <1>12, <1>14, <1>16, <1>17, <1>18, <1>19 DEF Shown, s

LEMMA DivGrows ==
  ASSUME NEW a \in Nat, NEW b \in Nat, a <= b, NEW c \in Nat \ {0}
  PROVE  a \div c <= b \div c
<1>1. PICK q \in Nat : q = a \div c
  BY Quotient
<1>2. q * c <= a /\ q * c \in Int
  <2>1. (a \div c) * c <= a
    BY Quotient
  <2> QED
    BY <1>1, <2>1, Times
<1>3. q * c <= b
  BY <1>2
<1> QED
  BY <1>1, <1>3, QuotientIs

LEMMA DivTimes ==
  ASSUME NEW a \in Nat, NEW c \in Nat \ {0}
  PROVE  (a * c) \div c = a
<1>1. a * c <= a * c /\ a * c < a * c + c /\ a * c \in Nat
  OBVIOUS
<1> QED
  BY <1>1, QuotientIs

LEMMA Cancel ==
  ASSUME NEW a \in Nat, NEW b \in Nat, NEW c \in Nat \ {0}, a * c = b * c
  PROVE  a = b
<1>1. (a * c) \div c = a /\ (b * c) \div c = b
  BY DivTimes
<1> QED
  BY <1>1

\* What a step may speak of, that made its frames after the first g.
Timed(s, g, r) ==
    /\ s.starts = g * FrameMs /\ s.finalized \in Nat
    /\ s.starts <= s.finalized /\ s.finalized <= r \div MsSamples

LEMMA CeilCovers ==
  ASSUME NEW a \in Nat \ {0}, NEW c \in Nat \ {0}
  PROVE  a <= CeilDiv(a, c) * c
<1>1. PICK b \in Nat : b = a + c - 1
  OBVIOUS
<1>2. PICK q \in Nat : q = b \div c
  BY Quotient
<1>3. b < q * c + c
  <2>1. b < (b \div c) * c + c
    BY Quotient
  <2> QED
    BY <1>2, <2>1, Zenon
<1>4. q * c \in Int
  BY Times
<1>5. a <= q * c
  BY <1>1, <1>3, <1>4
<1> QED
  BY <1>1, <1>2, <1>5 DEF CeilDiv

LEMMA StepTimes ==
  ASSUME NEW c \in Nat, NEW r \in Nat, c < r, NEW g \in Nat, g * FrameSamples = c,
         pcmStart \in Nat, pcmStart <= c
  PROVE  LET s == Step(r - pcmStart, c - pcmStart, g)
         IN  /\ Timed(s, g, r)
             /\ c + Core <= r => s.finalized = (g + CoreFrames) * FrameMs
             /\ r <= c + Core => s.finalized = r \div MsSamples
<1> DEFINE s == Step(r - pcmStart, c - pcmStart, g)
<1>1. PICK p \in Nat : p = pcmStart
  OBVIOUS
<1>2. p + (r - p) = r /\ (r - p) - (c - p) = r - c /\ r - c \in Nat \ {0} /\ p <= c
  BY <1>1
<1>3. PICK real : real = Least(Core, r - c)
  OBVIOUS
<1>4. real \in Nat \ {0} /\ (c + Core <= r => real = Core)
  BY <1>2, <1>3, Sizes DEF Least
<1>5. PICK up \in Nat \ {0} : up = CeilDiv(real, FrameSamples)
  BY <1>4, Sizes, RoundedUp
<1>6. /\ s.starts = g * FrameMs
      /\ s.finalized = Least((g + up) * FrameMs, r \div MsSamples)
  BY <1>1, <1>2, <1>3, <1>5 DEF Step, SpanOf
<1> HIDE DEF s
<1>7. PICK ms \in Nat : ms = r \div MsSamples
  BY Sizes, Quotient
<1>8. g * FrameMs \in Nat /\ (g + up) * FrameMs \in Nat /\ g * FrameMs <= (g + up) * FrameMs
  <2>1. \A x, y \in Nat : x * y \in Nat
    OBVIOUS
  <2>2. g <= g + up
    OBVIOUS
  <2> QED
    BY <2>1, <2>2, Sizes, Times
<1>9. ASSUME NEW h \in Nat, h * FrameSamples <= r PROVE h * FrameMs <= ms
  <2>1. (h * FrameMs) * MsSamples = h * FrameSamples
    BY Sizes, Associative
  <2>2. h * FrameMs \in Nat
    <3>1. \A x, y \in Nat : x * y \in Nat
      OBVIOUS
    <3> QED
      BY <3>1, Sizes
  <2> QED
    BY <1>7, <1>9, <2>1, <2>2, Sizes, QuotientIs
<1>10. g * FrameMs <= ms
  BY <1>9
<1>11. ASSUME c + Core <= r PROVE s.finalized = (g + CoreFrames) * FrameMs
  <2>1. up = CoreFrames
    BY <1>4, <1>5, <1>11, Sizes, WholeRoundedUp
  <2>2. (g + CoreFrames) * FrameSamples = c + Core
    <3>1. (g + CoreFrames) * FrameSamples = g * FrameSamples + CoreFrames * FrameSamples
      BY Sizes, Times
    <3>2. CoreFrames * FrameSamples = Core
      BY Sizes
    <3> QED
      BY <3>1, <3>2, Zenon
  <2>3. (g + CoreFrames) * FrameMs <= ms
    <3>1. g + CoreFrames \in Nat
      BY Sizes
    <3>2. (g + CoreFrames) * FrameSamples <= r
      BY <1>11, <2>2, Zenon
    <3> QED
      BY <1>9, <3>1, <3>2, Zenon
  <2>4. Least((g + up) * FrameMs, ms) = (g + up) * FrameMs
    BY <1>8, <2>1, <2>3 DEF Least
  <2> QED
    BY <1>6, <1>7, <2>1, <2>4
<1>12. \A x, y \in Nat : x <= y /\ x <= ms => /\ Least(y, ms) \in Nat
                                              /\ x <= Least(y, ms) /\ Least(y, ms) <= ms
  BY DEF Least
<1>13. Timed(s, g, r)
  BY <1>6, <1>7, <1>8, <1>10, <1>12, Zenon DEF Timed
<1>14. ASSUME r <= c + Core PROVE s.finalized = ms
  <2>1. real = r - c
    BY <1>2, <1>3, <1>14, Sizes DEF Least
  <2>2. r - c <= up * FrameSamples
    BY <1>2, <1>5, <2>1, Sizes, CeilCovers
  <2>3. (g + up) * FrameSamples = c + up * FrameSamples /\ up * FrameSamples \in Int
    <3>1. (g + up) * FrameSamples = g * FrameSamples + up * FrameSamples
      BY Sizes, Times
    <3>2. up * FrameSamples \in Int
      BY Sizes, Times
    <3> QED
      BY <3>1, <3>2, Zenon
  <2>4. r <= (g + up) * FrameSamples
    BY <1>2, <2>2, <2>3
  <2>5. PICK x \in Nat : x = (g + up) * FrameMs
    BY <1>8
  <2>6. x * MsSamples = (g + up) * FrameSamples
    BY <2>5, Sizes, Associative
  <2>7. r \div MsSamples <= (x * MsSamples) \div MsSamples
    <3>1. x * MsSamples \in Nat
      <4>1. \A y, z \in Nat : y * z \in Nat
        OBVIOUS
      <4> QED
        BY <4>1, Sizes
    <3> QED
      BY <2>4, <2>6, <3>1, Sizes, DivGrows
  <2>8. (x * MsSamples) \div MsSamples = x
    BY Sizes, DivTimes
  <2>9. Least(x, ms) = ms
    BY <1>7, <2>7, <2>8 DEF Least
  <2> QED
    BY <1>6, <1>7, <2>5, <2>9, Zenon
<1> QED
  BY <1>7, <1>11, <1>13, <1>14 DEF s

\* By force, all the audio is made into steps; otherwise the steps whose whole window
\* is there.
LEMMA ReadyWindows ==
  ASSUME NEW force \in BOOLEAN, NEW a \in Nat
  PROVE  /\ force => a <= Ready(force, a) * Core
         /\ ~force => /\ a < Ready(force, a) * Core + (Core + Right + Guard)
                      /\ \A k \in 1..Ready(force, a) :
                            (k - 1) * Core + (Core + Right + Guard) <= a
<1>1. PICK whole \in Nat \ {0} : whole = Core + Right + Guard
  BY Sizes
<1>2. CASE a = 0
  <2>1. Ready(force, a) = 0 /\ 0 * Core = 0
    BY <1>2, Sizes DEF Ready
  <2> QED
    BY <1>1, <1>2, <2>1
<1>3. CASE a > 0 /\ force
  <2>1. Ready(force, a) = CeilDiv(a, Core)
    BY <1>3 DEF Ready
  <2>2. a \in Nat \ {0}
    BY <1>3
  <2>3. a <= CeilDiv(a, Core) * Core
    BY <2>2, Sizes, CeilCovers
  <2> QED
    BY <1>3, <2>1, <2>3, Zenon
<1>4. CASE a > 0 /\ ~force /\ a < whole
  <2>1. Ready(force, a) = 0 /\ 0 * Core = 0
    BY <1>1, <1>4, Sizes DEF Ready
  <2> QED
    BY <1>1, <1>4, <2>1
<1>5. CASE a > 0 /\ ~force /\ a >= whole
  <2>1. PICK d \in Nat : d = a - whole
    BY <1>5
  <2>2. PICK q \in Nat : q = d \div Core
    BY Sizes, Quotient
  <2>3. Ready(force, a) = q + 1
    BY <1>1, <1>5, <2>1, <2>2 DEF Ready
  <2>4. q * Core <= d /\ d < q * Core + Core /\ q * Core \in Int
    <3>1. (d \div Core) * Core <= d /\ d < (d \div Core) * Core + Core
      BY Sizes, Quotient
    <3> QED
      BY <2>2, <3>1, Sizes, Times
  <2>5. (q + 1) * Core = q * Core + 1 * Core
    BY Sizes, Times
  <2>6. a < (q + 1) * Core + whole
    BY <2>1, <2>4, <2>5, Sizes
  <2>7. ASSUME NEW k \in 1..(q + 1) PROVE (k - 1) * Core + whole <= a
    <3>1. k - 1 \in Nat /\ k - 1 <= q
      OBVIOUS
    <3>2. (k - 1) * Core <= q * Core /\ (k - 1) * Core \in Int
      BY <3>1, Sizes, Times
    <3> QED
      BY <2>1, <2>4, <3>2
  <2> QED
    BY <1>1, <1>5, <2>3, <2>6, <2>7
<1> QED
  BY <1>2, <1>3, <1>4, <1>5

-----------------------------------------------------------------------------
(* The windows of all the steps. *)

\* Every step of st is whole, when r samples of the recording are there; those made
\* before the end have the frames of a full core.
Whole(st, r, ended) ==
    \A k \in 1..Len(st) :
        /\ Shown(st[k], (k - 1) * Core, r)
        /\ Timed(st[k], (k - 1) * CoreFrames, r)
        /\ k < Len(st) \/ ~ended => st[k].finalized = (k * CoreFrames) * FrameMs
        /\ st[k].forced => ended

\* How far the steps st speak of.
LastTime(st) == IF st = <<>> THEN 0 ELSE st[Len(st)].finalized

\* The stream between two calls: its buffer was cut for the next core, whose window
\* is not all there yet.
WindowInv ==
    /\ Whole(steps, received, finished)
    /\ ~finished => /\ pcmStart + nextCore = Len(steps) * Core
                    /\ pcmStart = Most(0, Len(steps) * Core - Left - Guard)
                    /\ received < Len(steps) * Core + (Core + Right + Guard)
    /\ finished => /\ received <= Len(steps) * Core
                   /\ LastTime(steps) = received \div MsSamples

\* What was whole stays so, and what is added is.
LEMMA WholeConcat ==
  ASSUME NEW S, NEW old \in Seq(S), NEW T, NEW made \in Seq(T), NEW r \in Nat, NEW q \in Nat,
         q <= r, Whole(old, q, FALSE), NEW ended \in BOOLEAN,
         \A k \in 1..Len(made) :
            LET m == Len(old) + k IN
            /\ Shown(made[k], (m - 1) * Core, r)
            /\ Timed(made[k], (m - 1) * CoreFrames, r)
            /\ k < Len(made) \/ ~ended => made[k].finalized = (m * CoreFrames) * FrameMs
            /\ made[k].forced => ended
  PROVE  Whole(old \o made, r, ended)
<1> DEFINE all == old \o made
<1>1. /\ Len(old) \in Nat /\ Len(made) \in Nat /\ Len(all) = Len(old) + Len(made)
      /\ \A i \in 1..Len(old) : all[i] = old[i]
      /\ \A k \in 1..Len(made) : all[Len(old) + k] = made[k]
  <2>1. old \in Seq(S \cup T) /\ made \in Seq(S \cup T)
    OBVIOUS
  <2> QED
    BY <2>1, ConcatProperties, LenProperties
<1> HIDE DEF all
<1>2. PICK n \in Nat : n = Len(old)
  BY <1>1
<1>3. PICK l \in Nat : l = Len(made)
  BY <1>1
<1> SUFFICES ASSUME NEW i \in 1..Len(all)
             PROVE  /\ Shown(all[i], (i - 1) * Core, r)
                    /\ Timed(all[i], (i - 1) * CoreFrames, r)
                    /\ i < Len(all) \/ ~ended => all[i].finalized = (i * CoreFrames) * FrameMs
                    /\ all[i].forced => ended
  BY DEF Whole, all
<1>4. CASE i <= n
  <2>1. i \in 1..Len(old) /\ all[i] = old[i]
    BY <1>1, <1>2, <1>4
  <2>2. /\ Shown(old[i], (i - 1) * Core, q)
        /\ Timed(old[i], (i - 1) * CoreFrames, q)
        /\ old[i].finalized = (i * CoreFrames) * FrameMs
        /\ ~old[i].forced
    BY <2>1 DEF Whole
  <2>3. Shown(old[i], (i - 1) * Core, r)
    BY <2>2, Zenon DEF Shown
  <2>4. q \div MsSamples <= r \div MsSamples
    BY Sizes, DivGrows
  <2>5. q \div MsSamples \in Nat /\ r \div MsSamples \in Nat
    BY Sizes, Quotient
  <2>6. Timed(old[i], (i - 1) * CoreFrames, r)
    <3>1. PICK x \in Nat : x = q \div MsSamples
      BY <2>5
    <3>2. PICK y \in Nat : y = r \div MsSamples
      BY <2>5
    <3>3. x <= y
      BY <2>4, <3>1, <3>2
    <3>4. PICK end \in Nat : end = (i * CoreFrames) * FrameMs
      <4>1. \A a, b \in Nat : a * b \in Nat
        OBVIOUS
      <4>2. i \in Nat
        OBVIOUS
      <4> QED
        BY <4>1, <4>2, Sizes
    <3>5. end <= x => end <= y
      BY <3>3
    <3> QED
      BY <2>2, <3>1, <3>2, <3>4, <3>5, Zenon DEF Timed
  <2> QED
    BY <2>1, <2>2, <2>3, <2>6
<1>5. CASE i > n
  <2>1. PICK k \in 1..l : i = n + k
    <3>1. i - n \in 1..l /\ i = n + (i - n)
      BY <1>1, <1>2, <1>3, <1>5
    <3> QED
      BY <3>1
  <2>2. k \in 1..Len(made) /\ all[i] = made[k] /\ i = Len(old) + k
    BY <1>1, <1>2, <1>3, <2>1
  <2>3. i < Len(all) <=> k < Len(made)
    BY <1>1, <1>2, <1>3, <2>1
  <2> QED
    BY <2>2, <2>3, Zenon
<1> QED
  BY <1>1, <1>2, <1>4, <1>5

\* The core after the first n + k - 1, and its frames, from those after the first n.
LEMMA CoreAfter ==
  ASSUME NEW n \in Nat, NEW k \in Nat \ {0}
  PROVE  /\ (n + k - 1) * Core \in Nat /\ (n + k - 1) * CoreFrames \in Nat
         /\ (n + k - 1) * Core = n * Core + (k - 1) * Core
         /\ (n + k - 1) * CoreFrames = n * CoreFrames + (k - 1) * CoreFrames
         /\ (n + k - 1) * CoreFrames + CoreFrames = (n + k) * CoreFrames
         /\ ((n + k - 1) * CoreFrames) * FrameSamples = (n + k - 1) * Core
         /\ (k - 1) * Core \in Nat /\ k * Core = (k - 1) * Core + Core
         /\ Hops((n + k - 1) * Core)
<1>1. PICK j \in Nat : j = k - 1
  OBVIOUS
<1>2. n + k - 1 = n + j /\ n + k = (n + j) + 1 /\ k = j + 1 /\ n + j \in Nat
  BY <1>1
<1>3. (n + j) * Core = n * Core + j * Core /\ (n + j) * CoreFrames = n * CoreFrames + j * CoreFrames
  BY Sizes, Times
<1>4. ((n + j) + 1) * CoreFrames = (n + j) * CoreFrames + 1 * CoreFrames
  BY Sizes, Times
<1>5. (j + 1) * Core = j * Core + 1 * Core
  BY Sizes, Times
<1>6. 1 * Core = Core /\ 1 * CoreFrames = CoreFrames
  BY Sizes
<1>7. ((n + j) * CoreFrames) * FrameSamples = (n + j) * Core
  BY Sizes, Associative
<1>8. Hops((n + j) * Core) /\ (n + j) * Core \in Nat /\ j * Core \in Nat
  BY <1>2, HopsTimes
<1>9. (n + j) * CoreFrames \in Nat
  <2>1. \A x, y \in Nat : x * y \in Nat
    OBVIOUS
  <2> QED
    BY <2>1, <1>2, Sizes
<1> QED
  BY <1>1, <1>2, <1>3, <1>4, <1>5, <1>6, <1>7, <1>8, <1>9, Zenon

LEMMA DrainWindows ==
  ASSUME Aligned, ~finished, IsHistory(steps), WindowInv, NEW force \in BOOLEAN,
         NEW r \in Nat, received <= r, received' = r, finished' = force, Drain(force)
  PROVE  WindowInv' /\ \E T : \E made \in Seq(T) : steps' = steps \o made
<1> DEFINE size == Most(0, received' - pcmStart)
           made == [k \in 1..Ready(force, size - nextCore) |->
                      Step(size, nextCore + (k - 1) * Core, outputFrames + (k - 1) * CoreFrames)]
           next == nextCore + Ready(force, size - nextCore) * Core
<1>0. /\ received \in Nat /\ pcmStart \in Nat /\ nextCore \in Nat /\ outputFrames \in Nat
      /\ pcmStart + nextCore = outputFrames * FrameSamples /\ pcmStart + nextCore <= received
      /\ finished = FALSE
  BY DEF Aligned
<1>1. /\ steps' = steps \o made
      /\ pcmStart' = pcmStart + Dropped(next)
      /\ nextCore' = next - Dropped(next)
  BY DEF Drain
<1>2. PICK S : steps \in Seq(S)
  BY DEF IsHistory
<1>3. PICK N \in Nat : N = Len(steps)
  BY <1>2, LenProperties
<1>4. PICK top \in Nat : top = N * Core
  BY HopsTimes
<1>5. /\ Whole(steps, received, FALSE)
      /\ pcmStart + nextCore = top /\ pcmStart = Most(0, top - Left - Guard)
      /\ received < top + (Core + Right + Guard) /\ Hops(top)
  BY <1>0, <1>3, <1>4, HopsTimes DEF WindowInv
<1>6. outputFrames = N * CoreFrames
  <2>1. N * CoreFrames \in Nat
    <3>1. \A x, y \in Nat : x * y \in Nat
      OBVIOUS
    <3> QED
      BY <3>1, Sizes
  <2>2. (N * CoreFrames) * FrameSamples = top
    BY <1>4, Sizes, Associative
  <2>3. outputFrames * FrameSamples = top
    BY <1>0, <1>5, Zenon
  <2> QED
    BY <1>0, <2>1, <2>2, <2>3, Sizes, Cancel
<1>7. PICK a \in Nat : a = r - top
  BY <1>0, <1>5
<1>8. size = r - pcmStart /\ size - nextCore = a
  <2>1. PICK p \in Nat : p = pcmStart
    BY <1>0
  <2>2. PICK x \in Nat : x = nextCore
    BY <1>0
  <2>3. p + x = top /\ top <= r
    BY <1>0, <1>5, <2>1, <2>2
  <2>4. Most(0, r - p) = r - p /\ (r - p) - x = a
    BY <1>7, <2>3 DEF Most
  <2> QED
    BY <2>1, <2>2, <2>4
<1>9. PICK n \in Nat : n = Ready(force, a)
  BY ReadyCores
<1>10. /\ \A k \in 1..n : (k - 1) * Core < a /\ (k < n \/ ~force => k * Core <= a)
       /\ force => a <= n * Core
       /\ ~force => /\ a < n * Core + (Core + Right + Guard)
                    /\ \A k \in 1..n : (k - 1) * Core + (Core + Right + Guard) <= a
  BY <1>9, ReadyCores, ReadyWindows
<1>11. /\ made = [k \in 1..n |-> Step(r - pcmStart, nextCore + (k - 1) * Core,
                                      outputFrames + (k - 1) * CoreFrames)]
       /\ next = nextCore + n * Core
  BY <1>8, <1>9
<1> HIDE DEF made, next, size
<1>12. ASSUME NEW k \in 1..n
       PROVE  LET m == N + k IN
              /\ Shown(made[k], (m - 1) * Core, r)
              /\ Timed(made[k], (m - 1) * CoreFrames, r)
              /\ k < n \/ ~force => made[k].finalized = (m * CoreFrames) * FrameMs
              /\ made[k].forced => force
              /\ force /\ k = n => made[k].finalized = r \div MsSamples
  <2>0. k \in Nat \ {0}
    OBVIOUS
  <2>1. PICK c \in Nat : c = (N + k - 1) * Core
    BY <2>0, CoreAfter, Zenon
  <2>2. PICK g \in Nat : g = (N + k - 1) * CoreFrames
    BY <2>0, CoreAfter, Zenon
  <2>3. PICK x \in Nat : x = (k - 1) * Core
    BY <2>0, CoreAfter, Zenon
  <2>4. c = top + x /\ k * Core = x + Core
    BY <1>4, <2>0, <2>1, <2>3, CoreAfter, Zenon
  <2>5. g * FrameSamples = c /\ Hops(c) /\ g + CoreFrames = (N + k) * CoreFrames
    BY <2>0, <2>1, <2>2, CoreAfter, Zenon
  <2>6. nextCore + (k - 1) * Core = c - pcmStart /\ pcmStart <= c
    <3>1. nextCore + x = c - pcmStart /\ pcmStart <= c
      BY <1>0, <1>5, <2>4
    <3> QED
      BY <2>3, <3>1
  <2>7. outputFrames + (k - 1) * CoreFrames = g
    BY <1>6, <2>0, <2>2, CoreAfter, Zenon
  <2>8. made[k] = Step(r - pcmStart, c - pcmStart, g)
    BY <1>11, <2>6, <2>7, Zenon
  <2>9. x < a /\ (k < n \/ ~force => x + Core <= a)
        /\ (~force => x + (Core + Right + Guard) <= a)
    BY <1>10, <2>3, <2>4
  <2>10. top <= c /\ c < r /\ (k < n \/ ~force => c + Core <= r)
         /\ (~finished' => c + (Core + Right + Guard) <= r)
    BY <1>7, <2>4, <2>9, Sizes
  <2>11. Shown(made[k], c, r) /\ made[k].forced = finished'
    <3>1. finished' \in BOOLEAN /\ pcmStart = Most(0, top - Left - Guard) /\ Hops(top)
      BY <1>5
    <3>2. LET s == Step(r - pcmStart, c - pcmStart, g)
          IN  Shown(s, c, r) /\ s.forced = finished'
      BY <2>5, <2>10, <3>1, StepShows
    <3> QED
      BY <2>8, <3>2, Zenon
  <2>12. /\ Timed(made[k], g, r)
         /\ c + Core <= r => made[k].finalized = (g + CoreFrames) * FrameMs
         /\ r <= c + Core => made[k].finalized = r \div MsSamples
    BY <1>0, <2>5, <2>6, <2>8, <2>10, StepTimes
  <2>13. made[k].forced => force
    BY <2>11
  <2>14. ASSUME k < n \/ ~force PROVE made[k].finalized = ((N + k) * CoreFrames) * FrameMs
    <3>1. c + Core <= r
      BY <2>10, <2>14
    <3> QED
      BY <2>5, <2>12, <3>1, Zenon
  <2>15. ASSUME force, k = n PROVE made[k].finalized = r \div MsSamples
    <3>1. a <= x + Core
      BY <1>10, <2>3, <2>4, <2>15
    <3>2. r <= c + Core
      BY <1>7, <2>4, <3>1, Sizes
    <3> QED
      BY <2>12, <3>2
  <2> QED
    <3>1. N + k - 1 = (N + k) - 1
      OBVIOUS
    <3>2. Shown(made[k], ((N + k) - 1) * Core, r) /\ Timed(made[k], ((N + k) - 1) * CoreFrames, r)
      BY <2>1, <2>2, <2>11, <2>12, <3>1, Zenon
    <3> QED
      BY <2>13, <2>14, <2>15, <3>2, Zenon
<1>13. PICK T : made \in Seq(T) /\ Len(made) = n
  <2> DEFINE T == {made[k] : k \in 1..n}
  <2>1. made \in [1..n -> T]
    BY <1>11
  <2> HIDE DEF T
  <2>2. made \in Seq(T) /\ Len(made) = n
    BY <2>1
  <2> QED
    BY <2>2
<1>14. Whole(steps \o made, r, force)
  BY <1>0, <1>2, <1>3, <1>5, <1>12, <1>13, WholeConcat
<1>15. Len(steps \o made) = N + n
  <2>1. steps \in Seq(S \cup T) /\ made \in Seq(S \cup T)
    BY <1>2, <1>13
  <2> QED
    BY <1>3, <1>13, <2>1, ConcatProperties
<1>16. PICK bot \in Nat : bot = (N + n) * Core
  BY HopsTimes
<1>17. PICK x \in Nat : x = n * Core
  BY HopsTimes
<1>18. bot = top + x
  BY <1>4, <1>16, <1>17, Sizes, Times
<1>19. /\ force => r <= bot
       /\ ~force => r < bot + (Core + Right + Guard)
  BY <1>7, <1>10, <1>17, <1>18, Sizes
<1>20. pcmStart' + nextCore' = bot /\ pcmStart' = Most(0, bot - Left - Guard)
  <2>1. PICK p \in Nat : p = pcmStart
    BY <1>0
  <2>2. PICK y \in Nat : y = next
    BY <1>0, <1>11, <1>17
  <2>3. p + y = bot
    BY <1>0, <1>5, <1>11, <1>17, <1>18, <2>1, <2>2
  <2>4. PICK d : d = Most(0, y - Left - Guard)
    OBVIOUS
  <2>5. p = Most(0, top - Left - Guard) /\ top <= bot
    BY <1>5, <1>18, <2>1
  <2>6. d \in Nat /\ p + d = Most(0, bot - Left - Guard) /\ (p + d) + (y - d) = bot
    BY <2>3, <2>4, <2>5, Sizes DEF Most
  <2>7. pcmStart' = p + d /\ nextCore' = y - d
    BY <1>1, <2>1, <2>2, <2>4 DEF Dropped
  <2> QED
    BY <2>6, <2>7
<1>21. ASSUME force PROVE LastTime(steps \o made) = r \div MsSamples
  <2>1. CASE n = 0
    <3>1. made = <<>> /\ steps \o made = steps
      BY <1>2, <1>13, <2>1, ConcatEmptySeq, EmptySeq
    <3>2. r = top
      BY <1>7, <1>10, <1>21, <2>1, Sizes
    <3>3. PICK e \in Nat : e = (N * CoreFrames) * FrameMs
      <4>1. \A y, z \in Nat : y * z \in Nat
        OBVIOUS
      <4> QED
        BY <4>1, Sizes
    <3>4. r \div MsSamples = e
      <4>1. e * MsSamples = (N * CoreFrames) * FrameSamples
        BY <3>3, Sizes, Associative
      <4>2. (N * CoreFrames) * FrameSamples = top
        BY <1>4, Sizes, Associative
      <4> QED
        BY <3>2, <4>1, <4>2, Sizes, DivTimes
    <3>5. CASE N = 0
      <4>1. steps = <<>> /\ e = 0
        <5>1. 0 * CoreFrames = 0 /\ 0 * FrameMs = 0
          BY Sizes
        <5> QED
          BY <1>2, <1>3, <3>3, <3>5, <5>1, EmptySeq
      <4> QED
        BY <3>1, <3>4, <4>1 DEF LastTime
    <3>6. CASE N > 0
      <4>1. steps # <<>> /\ N \in 1..Len(steps)
        BY <1>3, <3>6
      <4>2. steps[N].finalized = e
        BY <1>5, <3>3, <4>1 DEF Whole
      <4> QED
        BY <1>3, <3>1, <3>4, <4>1, <4>2 DEF LastTime
    <3> QED
      BY <3>5, <3>6
  <2>2. CASE n > 0
    <3>1. n \in 1..n /\ N + n > 0 /\ n \in 1..Len(made)
      BY <1>13, <2>2
    <3>2. (steps \o made)[N + n] = made[n] /\ steps \o made # <<>>
      <4>1. steps \in Seq(S \cup T) /\ made \in Seq(S \cup T)
        BY <1>2, <1>13
      <4> QED
        BY <1>3, <1>15, <3>1, <4>1, ConcatProperties
    <3>3. made[n].finalized = r \div MsSamples
      BY <1>12, <1>21, <3>1
    <3> QED
      BY <1>15, <3>2, <3>3 DEF LastTime
  <2> QED
    BY <2>1, <2>2
<1>22. WindowInv'
  BY <1>1, <1>14, <1>15, <1>16, <1>19, <1>20, <1>21, Zenon DEF WindowInv
<1> QED
  BY <1>1, <1>13, <1>22, Zenon

LEMMA InitWindows == Init => WindowInv
<1> SUFFICES ASSUME Init PROVE WindowInv
  OBVIOUS
<1>1. /\ received = 0 /\ pcmStart = 0 /\ nextCore = 0 /\ finished = FALSE /\ steps = <<>>
  BY Zenon DEF Init, StreamInit
<1>2. Len(steps) = 0 /\ 0 * Core = 0
  BY <1>1, Sizes
<1>3. Whole(steps, received, finished)
  BY <1>2 DEF Whole
<1>4. Most(0, 0 - Left - Guard) = 0 /\ 0 < 0 + (Core + Right + Guard)
  BY Sizes DEF Most
<1> QED
  BY <1>1, <1>2, <1>3, <1>4 DEF WindowInv

LEMMA NextWindows == TimelineInv /\ WindowInv /\ [Next]_vars => WindowInv'
<1> SUFFICES ASSUME TimelineInv, WindowInv, [Next]_vars PROVE WindowInv'
  OBVIOUS
<1>1. ClientTypes /\ Aligned /\ IsHistory(steps)
  BY DEF TimelineInv
<1>2. CASE ServeAudio
  <2>1. PICK n \in Nat : n = Head(queue)
    BY <1>1, <1>2, QueueTakes DEF ServeAudio
  <2>2. ~finished /\ finished' = finished /\ received' = received + n /\ Drain(FALSE)
    BY <1>2, <2>1 DEF ServeAudio, StreamFeed
  <2>3. PICK r \in Nat : r = received + n /\ received <= r
    BY <1>1 DEF Aligned
  <2>4. finished' = FALSE /\ FALSE \in BOOLEAN
    BY <1>1, <2>2 DEF Aligned
  <2> QED
    BY <1>1, <2>2, <2>3, <2>4, DrainWindows, Zenon
<1>3. CASE ServeEnd
  <2>1. ~finished /\ finished' = TRUE /\ received' = received /\ Drain(TRUE)
    BY <1>3 DEF ServeEnd, StreamFinish
  <2>2. received \in Nat /\ received <= received /\ TRUE \in BOOLEAN
    BY <1>1 DEF Aligned
  <2> QED
    BY <1>1, <2>1, <2>2, DrainWindows, Zenon
<1>4. CASE UNCHANGED streamVars
  BY <1>4 DEF WindowInv, Whole, streamVars
<1>5. ServeAudio \/ ServeEnd \/ UNCHANGED streamVars
  BY DEF Next, Client, Sidecar, StartReturns, StartTimesOut, Feed, Finish, FinishPuts, Aclose,
         AcloseReturns, AcloseTimesOut, TurnsFor, TurnsForReturns, TurnsForTimesOut,
         ReceiveEvent, ReceiveStarted, ReceiveTurns, ReceiveEnded, ReceiveFailed,
         ServeStart, ServeFails, vars, serverVars
<1> QED
  BY <1>2, <1>3, <1>4, <1>5

\* However the connection cuts its audio into chunks, and whenever it ends, every core
\* is shown to the model inside the same window as if the recording were all there,
\* what the steps may speak of leaves no gap, and no more than one window of audio is
\* kept (model.py:433-464): for every size of frames, cores, contexts and guard.
THEOREM EveryWindowIsWhole == Spec => []WindowsAreWhole
<1>1. TimelineInv /\ WindowInv => WindowsAreWhole
  <2> SUFFICES ASSUME TimelineInv, WindowInv PROVE WindowsAreWhole
    OBVIOUS
  <2>1. /\ received \in Nat /\ pcmStart \in Nat /\ nextCore \in Nat /\ finished \in BOOLEAN
        /\ IsHistory(steps)
    BY DEF TimelineInv, Aligned
  <2>2. PICK N \in Nat : N = Len(steps) /\ DOMAIN steps = 1..N
    BY <2>1, LenProperties DEF IsHistory
  <2>3. ASSUME NEW k \in DOMAIN steps
        PROVE  LET s == steps[k] IN
          /\ s.core = (k - 1) * Core
          /\ s.from = Most(0, s.core - Left - Guard)
          /\ s.trimLeft + s.left = (s.core - s.from) \div MelSamples
          /\ ~s.forced => /\ s.real = Core /\ s.to = s.core + Core + Right + Guard
                          /\ s.trimRight + s.right = (Right + Guard) \div MelSamples
          /\ s.forced  => s.to = Least(received, s.core + Core + Right + Guard)
          /\ s.starts <= s.finalized /\ s.finalized <= received \div MsSamples
          /\ s.starts = IF k = 1 THEN 0 ELSE steps[k - 1].finalized
    <3>1. k \in 1..Len(steps) /\ k \in 1..N
      BY <2>2, <2>3
    <3>2. Shown(steps[k], (k - 1) * Core, received)
          /\ Timed(steps[k], (k - 1) * CoreFrames, received)
      BY <3>1 DEF WindowInv, Whole
    <3>3. k = 1 => steps[k].starts = 0
      <4>1. (1 - 1) * CoreFrames = 0 /\ 0 * FrameMs = 0
        BY Sizes
      <4> QED
        BY <3>2, <4>1, Zenon DEF Timed
    <3>4. ASSUME k # 1 PROVE steps[k].starts = steps[k - 1].finalized
      <4>1. k - 1 \in 1..Len(steps) /\ k - 1 < Len(steps)
        BY <2>2, <3>1, <3>4
      <4>2. steps[k - 1].finalized = ((k - 1) * CoreFrames) * FrameMs
        BY <4>1 DEF WindowInv, Whole
      <4> QED
        BY <3>2, <4>2, Zenon DEF Timed
    <3> QED
      BY <3>2, <3>3, <3>4, Zenon DEF Shown, Timed
  <2>4. finished => received <= Len(steps) * Core
    BY DEF WindowInv
  <2>5. ~finished => received - pcmStart < Left + Core + Right + 2 * Guard
    <3> SUFFICES ASSUME ~finished PROVE received - pcmStart < Left + Core + Right + 2 * Guard
      OBVIOUS
    <3>1. PICK top \in Nat : top = Len(steps) * Core
      BY <2>2, HopsTimes
    <3>2. pcmStart = Most(0, top - Left - Guard) /\ received < top + (Core + Right + Guard)
      BY <3>1 DEF WindowInv
    <3> QED
      BY <2>1, <3>2, Sizes DEF Most
  <2> QED
    BY <2>3, <2>4, <2>5, Zenon DEF WindowsAreWhole
<1> QED
  BY <1>1, InitTimeline, NextTimeline, InitWindows, NextWindows, PTL DEF Spec

-----------------------------------------------------------------------------
(* The end of the timeline. *)

\* The steps speak of ever later times.
LEMMA TimesGrow ==
  ASSUME NEW S, NEW st \in Seq(S), NEW r \in Nat, NEW ended \in BOOLEAN, Whole(st, r, ended)
  PROVE  /\ LastTime(st) \in Nat
         /\ \A k \in 1..Len(st) : st[k].finalized \in Nat /\ st[k].finalized <= LastTime(st)
<1>1. PICK N \in Nat : N = Len(st)
  BY LenProperties
<1>2. \A x, y \in Nat : x * y \in Nat
  OBVIOUS
<1>3. CASE N = 0
  <2>1. st = <<>>
    BY <1>1, <1>3, EmptySeq
  <2> QED
    BY <1>1, <1>3, <2>1 DEF LastTime
<1>4. CASE N > 0
  <2>1. st # <<>> /\ N \in 1..Len(st) /\ N - 1 \in Nat
    BY <1>1, <1>4
  <2>2. PICK start \in Nat : start = ((N - 1) * CoreFrames) * FrameMs
    BY <1>2, <2>1, Sizes
  <2>3. Timed(st[N], (N - 1) * CoreFrames, r)
    BY <2>1 DEF Whole
  <2>4. PICK last \in Nat : last = st[N].finalized /\ start <= last
    BY <2>2, <2>3, Zenon DEF Timed
  <2>5. LastTime(st) = last
    BY <1>1, <2>1, <2>4 DEF LastTime
  <2>6. ASSUME NEW k \in 1..Len(st) PROVE st[k].finalized \in Nat /\ st[k].finalized <= last
    <3>1. CASE k = N
      BY <2>4, <3>1
    <3>2. CASE k < N
      <4>1. st[k].finalized = (k * CoreFrames) * FrameMs
        BY <1>1, <3>2 DEF Whole
      <4>2. k \in Nat /\ k <= N - 1
        BY <1>1, <3>2
      <4>3. k * CoreFrames \in Nat /\ (N - 1) * CoreFrames \in Nat
        BY <1>2, <2>1, <4>2, Sizes
      <4>4. k * CoreFrames <= (N - 1) * CoreFrames
        BY <2>1, <4>2, Sizes, Times
      <4>5. (k * CoreFrames) * FrameMs <= ((N - 1) * CoreFrames) * FrameMs
        BY <4>3, <4>4, Sizes, Times
      <4>6. PICK x \in Nat : x = (k * CoreFrames) * FrameMs
        BY <1>2, <4>3, Sizes
      <4> QED
        BY <2>2, <2>4, <4>1, <4>5, <4>6
    <3> QED
      BY <1>1, <3>1, <3>2
  <2> QED
    BY <2>5, <2>6
<1> QED
  BY <1>1, <1>3, <1>4

\* The events ev, not yet received, and the timeline w tell how far the steps speak, t;
\* the end of the stream is the last of them.
Tell(ev, w, t, ended) ==
    /\ w <= t /\ Reaches(ev, Len(ev), w, t)
    /\ \A i \in 1..Len(ev) : /\ ev[i].kind = "turns" => ev[i].to <= t
                             /\ ev[i].kind = "ended" => i = Len(ev) /\ ended

EventsTell == Tell(events, watermark, LastTime(steps), finished)

\* When the receive loop is done, for no other reason, it has seen the end.
EndIsSeen ==
    recv = "done" /\ ~degraded /\ closing # "closed" => finished /\ events = <<>>

LEMMA TellTail ==
  ASSUME NEW ev \in Seq(Events), ev # <<>>, NEW w \in Nat, NEW t \in Nat, NEW ended,
         Tell(ev, w, t, ended), NEW v \in Nat, w <= v,
         v = IF Head(ev).kind = "turns" /\ Head(ev).to > w THEN Head(ev).to ELSE w
  PROVE  /\ Tell(Tail(ev), v, t, ended)
         /\ Head(ev).kind = "ended" => Tail(ev) = <<>> /\ ended
<1> DEFINE rest == Tail(ev)
<1>1. /\ rest \in Seq(Events) /\ Len(ev) \in Nat \ {0} /\ Len(rest) = Len(ev) - 1
      /\ \A j \in 1..Len(rest) : rest[j] = ev[j + 1]
      /\ Head(ev) = ev[1] /\ 1 \in 1..Len(ev) /\ ev[1] \in Events
  BY HeadTailProperties, ElementOfSeq
<1> HIDE DEF rest
<1>2. Head(ev).to \in Nat
  BY <1>1, EventTimes
<1>3. v <= t
  BY <1>1 DEF Tell
<1>4. Reaches(rest, Len(rest), v, t)
  <2>1. Head(ev).kind = "turns" => Head(ev).to <= v
    BY <1>2
  <2>2. Reaches(ev, Len(ev), w, t)
    BY DEF Tell
  <2> QED
    BY <2>1, <2>2, LinkedTail DEF rest
<1>5. ASSUME NEW i \in 1..Len(rest)
      PROVE  /\ rest[i].kind = "turns" => rest[i].to <= t
             /\ rest[i].kind = "ended" => i = Len(rest) /\ ended
  <2>1. i + 1 \in 1..Len(ev) /\ rest[i] = ev[i + 1]
    BY <1>1
  <2>2. /\ ev[i + 1].kind = "turns" => ev[i + 1].to <= t
        /\ ev[i + 1].kind = "ended" => i + 1 = Len(ev) /\ ended
    BY <2>1 DEF Tell
  <2>3. i + 1 = Len(ev) => i = Len(rest)
    BY <1>1
  <2> QED
    BY <2>1, <2>2, <2>3
<1>6. ASSUME Head(ev).kind = "ended" PROVE rest = <<>> /\ ended
  <2>1. 1 = Len(ev) /\ ended
    BY <1>1, <1>6 DEF Tell
  <2> QED
    BY <1>1, <2>1, EmptySeq
<1> QED
  BY <1>3, <1>4, <1>5, <1>6 DEF Tell, rest

\* New events are added, none of them beyond the new end, which the last of them reaches
\* when it is not the old one.
LEMMA TellMore ==
  ASSUME NEW ev \in Seq(Events), NEW new \in Seq(Events), NEW w \in Nat, NEW t \in Nat,
         NEW u \in Nat, t <= u, NEW ended, Tell(ev, w, t, FALSE),
         \A k \in 1..Len(new) : /\ new[k].kind = "turns" => new[k].to <= u
                                /\ new[k].kind = "ended" => k = Len(new) /\ ended,
         t = u \/ \E k \in 1..Len(new) : new[k].kind = "turns" /\ new[k].to = u
  PROVE  Tell(ev \o new, w, u, ended)
<1> DEFINE all == ev \o new
<1>1. /\ Len(ev) \in Nat /\ Len(new) \in Nat /\ Len(all) = Len(ev) + Len(new)
      /\ \A i \in 1..Len(ev) : all[i] = ev[i] /\ ev[i] \in Events
      /\ \A k \in 1..Len(new) : all[Len(ev) + k] = new[k]
  BY ConcatProperties, LenProperties, ElementOfSeq
<1> HIDE DEF all
<1>2. w <= u
  BY DEF Tell
<1>3. Reaches(all, Len(all), w, u)
  <2>1. CASE t = u
    <3>1. CASE t <= w
      BY <2>1, <3>1 DEF Reaches
    <3>2. CASE \E j \in 1..Len(ev) : ev[j].kind = "turns" /\ t <= ev[j].to
      <4>1. PICK j \in 1..Len(ev) : ev[j].kind = "turns" /\ t <= ev[j].to
        BY <3>2
      <4>2. j \in 1..Len(all) /\ all[j] = ev[j]
        BY <1>1
      <4> QED
        BY <2>1, <4>1, <4>2 DEF Reaches
    <3> QED
      BY <3>1, <3>2 DEF Tell, Reaches
  <2>2. CASE \E k \in 1..Len(new) : new[k].kind = "turns" /\ new[k].to = u
    <3>1. PICK k \in 1..Len(new) : new[k].kind = "turns" /\ new[k].to = u
      BY <2>2
    <3>2. Len(ev) + k \in 1..Len(all) /\ all[Len(ev) + k] = new[k] /\ u <= new[k].to
      BY <1>1, <3>1
    <3> QED
      BY <3>1, <3>2 DEF Reaches
  <2> QED
    BY <2>1, <2>2
<1>4. ASSUME NEW i \in 1..Len(all)
      PROVE  /\ all[i].kind = "turns" => all[i].to <= u
             /\ all[i].kind = "ended" => i = Len(all) /\ ended
  <2>1. CASE i <= Len(ev)
    <3>1. i \in 1..Len(ev) /\ all[i] = ev[i] /\ ev[i].to \in Nat
      BY <1>1, <2>1, EventTimes
    <3>2. (ev[i].kind = "turns" => ev[i].to <= t) /\ ev[i].kind # "ended"
      BY <3>1 DEF Tell
    <3> QED
      BY <3>1, <3>2
  <2>2. CASE i > Len(ev)
    <3>1. PICK k \in 1..Len(new) : i = Len(ev) + k
      <4>1. i - Len(ev) \in 1..Len(new) /\ i = Len(ev) + (i - Len(ev))
        BY <1>1, <2>2
      <4> QED
        BY <4>1
    <3>2. k = Len(new) => i = Len(all)
      BY <1>1, <3>1
    <3> QED
      BY <1>1, <3>1, <3>2
  <2> QED
    BY <1>1, <2>1, <2>2
<1> QED
  BY <1>2, <1>3, <1>4 DEF Tell, all

LEMMA ConcatThree ==
  ASSUME NEW a \in Seq(Events), NEW b \in Seq(Events), NEW c \in Seq(Events),
         NEW x, x = a \o b, NEW y, y = b \o c
  PROVE  x \o c = a \o y
  BY ConcatAssociative

\* What the sidecar's stream makes of a drain, and what follows it, tells how far it came.
LEMMA DrainTells ==
  ASSUME TimelineInv, WindowInv, EventsTell, ~finished, NEW force \in BOOLEAN,
         NEW r \in Nat, received <= r, received' = r, finished' = force, Drain(force),
         UNCHANGED watermark,
         NEW last \in Seq(Events), Len(last) <= 1,
         \A k \in 1..Len(last) : last[k].kind = "ended" /\ force,
         events' = (events \o EventsOf(Made)) \o last
  PROVE  EventsTell'
<1>1. /\ Aligned /\ IsHistory(steps) /\ finished = FALSE /\ received \in Nat
      /\ events \in Seq(Events) /\ watermark \in Nat
  BY DEF TimelineInv, ClientTypes, Aligned
<1>2. WindowInv' /\ \E T : \E made \in Seq(T) : steps' = steps \o made
  BY <1>1, DrainWindows, Zenon
<1> PICK T : \E m \in Seq(T) : steps' = steps \o m
  BY <1>2
<1>3. PICK made \in Seq(T) : steps' = steps \o made
  OBVIOUS
<1>4. PICK S : steps \in Seq(S)
  BY <1>1 DEF IsHistory
<1>5. PICK st \in Seq(S \cup T) : st = steps'
  <2>1. steps \in Seq(S \cup T) /\ made \in Seq(S \cup T)
    BY <1>3, <1>4
  <2>2. steps \o made \in Seq(S \cup T)
    BY <2>1, ConcatProperties
  <2> QED
    BY <1>3, <2>2
<1>6. /\ st = steps \o made /\ Len(st) = Len(steps) + Len(made)
      /\ Len(steps) \in Nat /\ Len(made) \in Nat
      /\ \A i \in 1..Len(steps) : st[i] = steps[i]
      /\ \A k \in 1..Len(made) : st[Len(steps) + k] = made[k]
  <2>1. steps \in Seq(S \cup T) /\ made \in Seq(S \cup T)
    BY <1>3, <1>4
  <2> QED
    BY <1>3, <1>5, <2>1, ConcatProperties, LenProperties
<1>7. Made = made
  <2>1. made = [k \in 1..Len(made) |-> made[k]]
    BY LenProperties
  <2>2. SubSeq(steps \o made, Len(steps) + 1, Len(steps \o made)) = made
    BY <1>1, <1>6, <2>1, NewSteps
  <2> QED
    BY <1>3, <2>2, Zenon DEF Made
<1>8. PICK t \in Nat : t = LastTime(steps)
  BY <1>1, <1>4, TimesGrow DEF WindowInv
<1>9. Whole(st, r, force)
  BY <1>2, <1>5 DEF WindowInv
<1>10. PICK u \in Nat : /\ u = LastTime(st)
                        /\ \A k \in 1..Len(st) : st[k].finalized \in Nat /\ st[k].finalized <= u
  BY <1>9, TimesGrow
<1>11. t <= u
  <2>1. CASE steps = <<>>
    BY <1>8, <2>1 DEF LastTime
  <2>2. CASE steps # <<>>
    <3>1. Len(steps) \in 1..Len(steps)
      BY <1>4, <1>6, <2>2, EmptySeq
    <3>2. Len(steps) \in 1..Len(st)
      BY <1>6, <3>1
    <3> QED
      BY <1>6, <1>8, <1>10, <2>2, <3>1, <3>2 DEF LastTime
  <2> QED
    BY <2>1, <2>2
<1> DEFINE ev == EventsOf(made)
<1>12. /\ ev \in Seq(Events) /\ Len(ev) = Len(made)
       /\ \A k \in 1..Len(made) : ev[k].kind = "turns" /\ ev[k].to = st[Len(steps) + k].finalized
  <2>1. ev \in Seq(Events)
    BY <1>1, <1>7, DrainSpans, Zenon
  <2>2. DOMAIN made = 1..Len(made)
    BY LenProperties
  <2>3. DOMAIN ev = 1..Len(made)
        /\ \A k \in 1..Len(made) : ev[k] = Event("turns", made[k].starts, made[k].finalized)
    BY <2>2 DEF EventsOf
  <2> HIDE DEF ev
  <2>4. Len(ev) = Len(made)
    <3>1. DOMAIN ev = 1..Len(ev) /\ Len(ev) \in Nat
      BY <2>1, LenProperties
    <3> QED
      BY <1>6, <2>3, <3>1
  <2> QED
    BY <1>6, <2>1, <2>3, <2>4 DEF Event
<1> DEFINE new == ev \o last
<1>13. /\ new \in Seq(Events) /\ Len(new) = Len(made) + Len(last) /\ Len(last) \in Nat
       /\ \A k \in 1..Len(made) : new[k] = ev[k]
       /\ \A k \in 1..Len(last) : new[Len(made) + k] = last[k]
  <2> HIDE DEF ev
  <2> QED
    BY <1>12, ConcatProperties, LenProperties
<1>14. events' = events \o new
  <2>1. events' = (events \o ev) \o last
    BY <1>7, Zenon
  <2> HIDE DEF ev
  <2>2. (events \o ev) \o last = events \o (ev \o last)
    <3>1. PICK x : x = events \o ev
      OBVIOUS
    <3>2. PICK y : y = ev \o last
      OBVIOUS
    <3>3. x \o last = events \o y
      <4>1. events \in Seq(Events) /\ ev \in Seq(Events) /\ last \in Seq(Events)
        BY <1>1, <1>12
      <4> QED
        BY <3>1, <3>2, <4>1, ConcatThree
    <3> QED
      BY <3>1, <3>2, <3>3
  <2> QED
    BY <2>1, <2>2, Zenon
<1> HIDE DEF ev, new
<1>15. ASSUME NEW k \in 1..Len(new)
       PROVE  /\ new[k].kind = "turns" => new[k].to <= u
              /\ new[k].kind = "ended" => k = Len(new) /\ force
  <2>1. CASE k <= Len(made)
    <3>1. k \in 1..Len(made) /\ Len(steps) + k \in 1..Len(st)
      BY <1>6, <1>13, <2>1
    <3> QED
      BY <1>10, <1>12, <1>13, <3>1
  <2>2. CASE k > Len(made)
    <3>0. PICK x \in Nat, y \in Nat : x = Len(made) /\ y = Len(last)
      BY <1>6, <1>13
    <3>1. k = x + 1 /\ y = 1 /\ 1 \in 1..y /\ k = x + y /\ x + y = Len(new)
      <4>1. k \in 1..(x + y) /\ k > x /\ y <= 1 /\ x + y = Len(new)
        BY <1>13, <2>2, <3>0
      <4> QED
        BY <4>1
    <3>2. new[k] = last[1]
      BY <1>13, <3>0, <3>1
    <3>3. last[1].kind = "ended" /\ force
      BY <3>0, <3>1, Zenon
    <3> QED
      BY <3>1, <3>2, <3>3
  <2> QED
    BY <1>6, <1>13, <2>1, <2>2
<1>16. t = u \/ \E k \in 1..Len(new) : new[k].kind = "turns" /\ new[k].to = u
  <2>1. CASE Len(made) = 0
    <3>1. made = <<>> /\ steps \o made = steps
      BY <1>4, <2>1, ConcatEmptySeq, EmptySeq
    <3> QED
      BY <1>6, <1>8, <1>10, <3>1
  <2>2. CASE Len(made) > 0
    <3>1. /\ Len(made) \in 1..Len(made) /\ Len(made) \in 1..Len(new)
          /\ Len(steps) + Len(made) = Len(st)
      BY <1>6, <1>13, <2>2
    <3>2. st # <<>>
      BY <1>6, <2>2, EmptySeq
    <3>3. new[Len(made)].kind = "turns" /\ new[Len(made)].to = st[Len(st)].finalized
      BY <1>12, <1>13, <3>1
    <3> QED
      BY <1>10, <3>1, <3>2, <3>3 DEF LastTime
  <2> QED
    BY <1>6, <2>1, <2>2
<1>17. Tell(events \o new, watermark, u, force)
  <2>1. Tell(events, watermark, t, FALSE)
    BY <1>1, <1>8 DEF EventsTell
  <2> QED
    BY <1>1, <1>11, <1>13, <1>15, <1>16, <2>1, TellMore
<1> QED
  BY <1>5, <1>10, <1>14, <1>17 DEF EventsTell

LEMMA InitTell == Init => EventsTell /\ EndIsSeen
<1> SUFFICES ASSUME Init PROVE EventsTell /\ EndIsSeen
  OBVIOUS
<1>1. steps = <<>> /\ events = <<>> /\ watermark = 0 /\ recv = "running"
  BY Zenon DEF Init, StreamInit
<1>2. LastTime(steps) = 0 /\ Len(events) = 0
  BY <1>1 DEF LastTime
<1> QED
  BY <1>1, <1>2 DEF EventsTell, Tell, Reaches, EndIsSeen

\* After the end of the stream the sidecar sends nothing.
LEMMA NextTell ==
  TimelineInv /\ WindowInv /\ EventsTell /\ EndIsSeen /\ [Next]_vars => EventsTell' /\ EndIsSeen'
<1> SUFFICES ASSUME TimelineInv, WindowInv, EventsTell, EndIsSeen, [Next]_vars
             PROVE  EventsTell' /\ EndIsSeen'
  OBVIOUS
<1>1. /\ Aligned /\ IsHistory(steps) /\ received \in Nat /\ finished \in BOOLEAN
      /\ events \in Seq(Events) /\ watermark \in Nat /\ Linked(events, watermark)
      /\ ClientTypes /\ (server \in {"new", "serving"} => finished = FALSE)
  BY DEF TimelineInv, ClientTypes, Aligned
<1>2. PICK t \in Nat : t = LastTime(steps)
  BY <1>1, TimesGrow DEF WindowInv, IsHistory
<1>3. Tell(events, watermark, t, finished)
  BY <1>2 DEF EventsTell
<1>4. CASE ServeAudio
  <2>1. PICK n \in Nat : n = Head(queue)
    BY <1>1, <1>4, QueueTakes DEF ServeAudio
  <2>2. ~finished /\ finished' = finished /\ received' = received + n /\ Drain(FALSE)
        /\ UNCHANGED <<watermark, recv, degraded, closing>> /\ events' = events \o EventsOf(Made)
    BY <1>4, <2>1 DEF ServeAudio, StreamFeed, clientVars, callVars
  <2>3. PICK r \in Nat : r = received + n /\ received <= r
    BY <1>1 DEF Aligned
  <2>4. finished' = FALSE /\ FALSE \in BOOLEAN
    BY <1>1, <2>2
  <2>5. events' = (events \o EventsOf(Made)) \o <<>> /\ <<>> \in Seq(Events) /\ Len(<<>>) = 0
    <3>1. EventsOf(Made) \in Seq(Events)
      BY <1>1, <2>2, <2>3, <2>4, DrainSpans, Zenon
    <3>2. events \o EventsOf(Made) \in Seq(Events)
      BY <1>1, <3>1, ConcatProperties
    <3> QED
      BY <2>2, <3>2, ConcatEmptySeq, EmptySeq
  <2>6. Len(<<>>) <= 1 /\ \A k \in 1..Len(<<>>) : <<>>[k].kind = "ended" /\ FALSE
    BY <2>5
  <2>7. EventsTell'
    BY <2>2, <2>3, <2>4, <2>5, <2>6, DrainTells, Zenon
  <2> QED
    BY <2>2, <2>7 DEF EndIsSeen
<1>5. CASE ServeEnd
  <2> DEFINE last == <<Event("ended", 0, 0)>>
  <2>1. ~finished /\ finished' = TRUE /\ received' = received /\ Drain(TRUE)
        /\ UNCHANGED <<watermark, recv, degraded, closing>>
        /\ events' = (events \o EventsOf(Made)) \o last
    BY <1>5 DEF ServeEnd, StreamFinish, clientVars, callVars
  <2>2. received <= received /\ TRUE \in BOOLEAN
    BY <1>1
  <2>3. last \in Seq(Events) /\ Len(last) = 1 /\ last[1].kind = "ended"
    BY DEF Event, Events
  <2> HIDE DEF last
  <2>4. Len(last) <= 1 /\ \A k \in 1..Len(last) : last[k].kind = "ended" /\ TRUE
    BY <2>3
  <2>5. EventsTell'
    BY <1>1, <2>1, <2>2, <2>3, <2>4, DrainTells, Zenon
  <2> QED
    BY <2>1, <2>5 DEF EndIsSeen
<1>6. CASE ServeStart \/ ServeFails
  <2>1. PICK kind \in {"started", "failed"} : events' = Append(events, Event(kind, 0, 0))
    BY <1>6 DEF ServeStart, ServeFails
  <2>2. finished = FALSE /\ UNCHANGED <<watermark, streamVars, recv, degraded, closing>>
    BY <1>1, <1>6 DEF ServeStart, ServeFails, clientVars, callVars
  <2>3. PICK new \in Seq(Events) :
           Len(new) = 1 /\ new[1].kind = kind /\ Append(events, Event(kind, 0, 0)) = events \o new
    <3>1. Event(kind, 0, 0) \in Events /\ Event(kind, 0, 0).kind = kind
      BY DEF Event, Events
    <3>2. <<Event(kind, 0, 0)>> \in Seq(Events)
      BY <3>1
    <3> QED
      BY <1>1, <3>1, <3>2, AppendIsConcat
  <2>4. \A k \in 1..Len(new) : /\ new[k].kind = "turns" => new[k].to <= t
                               /\ new[k].kind = "ended" => k = Len(new) /\ FALSE
    BY <2>3
  <2>5. Tell(events, watermark, t, FALSE)
    BY <1>3, <2>2
  <2>6. Tell(events \o new, watermark, t, FALSE)
    <3>1. t <= t /\ t = t
      OBVIOUS
    <3> QED
      BY <1>1, <2>4, <2>5, <3>1, TellMore, Zenon
  <2>7. steps' = steps /\ finished' = FALSE /\ watermark' = watermark
    BY <2>2 DEF streamVars
  <2>8. EventsTell'
    BY <1>2, <2>1, <2>3, <2>6, <2>7, Zenon DEF EventsTell
  <2> QED
    BY <2>2, <2>8 DEF EndIsSeen
<1>7. CASE ReceiveEvent
  <2> DEFINE v == IF Head(events).kind = "turns" /\ Head(events).to > watermark
                  THEN Head(events).to ELSE watermark
  <2>1. /\ events # <<>> /\ events' = Tail(events) /\ UNCHANGED <<streamVars, closing>>
        /\ watermark' = v /\ recv = "running"
        /\ recv' = "done" => Head(events).kind = "ended" \/ degraded'
    BY <1>7 DEF ReceiveEvent, ReceiveStarted, ReceiveTurns, ReceiveEnded, ReceiveFailed,
                NextEvent, callVars, serverVars
  <2>2. v \in Nat /\ watermark <= v
    <3>1. Head(events) \in Events
      BY <1>1, <2>1, HeadTailProperties
    <3> QED
      BY <1>1, <3>1, EventTimes
  <2>3. /\ Tell(Tail(events), v, t, finished)
        /\ Head(events).kind = "ended" => Tail(events) = <<>> /\ finished
    BY <1>1, <1>3, <2>1, <2>2, TellTail
  <2> HIDE DEF v
  <2>4. steps' = steps /\ finished' = finished
    BY <2>1 DEF streamVars
  <2>5. EventsTell'
    BY <1>2, <2>1, <2>3, <2>4, Zenon DEF EventsTell
  <2>6. EndIsSeen'
    BY <2>1, <2>3, <2>4, Zenon DEF EndIsSeen
  <2> QED
    BY <2>5, <2>6
<1>8. CASE UNCHANGED <<events, watermark, streamVars>>
           /\ (degraded => degraded') /\ (closing = "closed" => closing' = "closed")
           /\ (recv' = "done" => recv = "done" \/ degraded' \/ closing' = "closed")
  BY <1>8 DEF EventsTell, Tell, Reaches, LastTime, EndIsSeen, streamVars
<1>9. CASE StartReturns \/ StartTimesOut \/ (\E n \in ChunkSizes : Feed(n)) \/ Finish \/ FinishPuts
           \/ Aclose \/ AcloseReturns \/ AcloseTimesOut
           \/ (\E end \in SegmentEnds \cup {fed} : TurnsFor(end))
           \/ TurnsForReturns \/ TurnsForTimesOut \/ UNCHANGED vars
  <2>1. UNCHANGED <<events, watermark, streamVars>>
    BY <1>9 DEF StartReturns, StartTimesOut, Feed, Finish, FinishPuts, Aclose, AcloseReturns,
           AcloseTimesOut, TurnsFor, TurnsForReturns, TurnsForTimesOut, vars, serverVars, clientVars
  <2>2. /\ degraded => degraded'
        /\ closing = "closed" => closing' = "closed"
        /\ recv' = "done" => recv = "done" \/ degraded' \/ closing' = "closed"
    <3>1. CASE StartReturns \/ StartTimesOut \/ UNCHANGED vars
      BY <3>1 DEF StartReturns, StartTimesOut, vars, clientVars, callVars
    <3>2. CASE \E n \in ChunkSizes : Feed(n)
      <4>1. PICK n \in ChunkSizes : Feed(n)
        BY <3>2
      <4>2. degraded' = (degraded \/ Len(queue) = QueueMax) /\ recv' = recv /\ closing' = closing
        BY <4>1 DEF Feed, callVars
      <4> QED
        BY <4>2, Zenon
    <3>3. CASE Finish \/ FinishPuts \/ Aclose \/ AcloseReturns \/ AcloseTimesOut
      BY <3>3 DEF Finish, FinishPuts, Aclose, AcloseReturns, AcloseTimesOut, clientVars
    <3>4. CASE TurnsForReturns \/ TurnsForTimesOut
               \/ (\E end \in SegmentEnds \cup {fed} : TurnsFor(end))
      BY <3>4 DEF TurnsFor, TurnsForReturns, TurnsForTimesOut, clientVars
    <3> QED
      BY <1>9, <3>1, <3>2, <3>3, <3>4
  <2> QED
    BY <1>8, <2>1, <2>2
<1> QED
  BY <1>4, <1>5, <1>6, <1>7, <1>9 DEF Next, Client, Sidecar

-----------------------------------------------------------------------------
(* The audio, from the session to the sidecar. *)

\* c counts the audio in q up to every chunk of it, from what the sidecar received to
\* what the session heard.
Accounts(c, q, from, to) ==
    /\ c \in [0..Len(q) -> Nat] /\ c[0] = from /\ c[Len(q)] = to
    /\ \A i \in 1..Len(q) : c[i] = c[i - 1] + q[i]

AudioKept ==
    /\ Len(queue) <= QueueMax
    /\ ~degraded => \E c : Accounts(c, queue, received, fed)
    /\ \A i \in 1..Len(queue) : queue[i] = EOS => i = Len(queue) /\ finishing = "done"
    /\ finished => queue = <<>> /\ finishing = "done"
    /\ finishing \in {"no", "putting", "done"}
    /\ closing # "no" => finishing = "done"

LEMMA AccountsAppend ==
  ASSUME NEW q \in Seq(Nat), NEW n \in Nat, NEW a, NEW b, NEW c, Accounts(c, q, a, b)
  PROVE  \E d : Accounts(d, Append(q, n), a, b + n)
<1>1. PICK l \in Nat : l = Len(q)
  BY LenProperties
<1>2. PICK p \in Seq(Nat) : p = Append(q, n)
  BY AppendProperties
<1>3. /\ Len(p) = l + 1 /\ p[l + 1] = n /\ \A i \in 1..l : p[i] = q[i]
  BY <1>1, <1>2, AppendProperties
<1>4. /\ c \in [0..l -> Nat] /\ c[0] = a /\ c[l] = b /\ b \in Nat
      /\ \A i \in 1..l : c[i] = c[i - 1] + q[i]
  BY <1>1 DEF Accounts
<1> DEFINE d == [i \in 0..(l + 1) |-> IF i = l + 1 THEN b + n ELSE c[i]]
<1>5. d \in [0..(l + 1) -> Nat]
  BY <1>4
<1>6. d[0] = a /\ d[l + 1] = b + n
  BY <1>4
<1>7. ASSUME NEW i \in 1..(l + 1) PROVE d[i] = d[i - 1] + p[i]
  <2>1. CASE i = l + 1
    <3>1. d[i] = b + n /\ i - 1 = l /\ d[l] = c[l]
      BY <2>1
    <3> QED
      BY <1>3, <1>4, <2>1, <3>1
  <2>2. CASE i # l + 1
    <3>1. i \in 1..l /\ i - 1 \in 0..l /\ d[i] = c[i] /\ d[i - 1] = c[i - 1]
      BY <2>2
    <3> QED
      BY <1>3, <1>4, <3>1
  <2> QED
    BY <2>1, <2>2
<1> HIDE DEF d
<1>8. Accounts(d, p, a, b + n)
  BY <1>3, <1>5, <1>6, <1>7 DEF Accounts
<1> QED
  BY <1>2, <1>8

LEMMA AccountsTail ==
  ASSUME NEW q \in Seq(Nat), q # <<>>, NEW a, NEW b, NEW c, Accounts(c, q, a, b)
  PROVE  \E d : Accounts(d, Tail(q), a + Head(q), b)
<1>1. PICK p \in Seq(Nat) : p = Tail(q)
  BY HeadTailProperties
<1>2. PICK l \in Nat : l = Len(p) /\ Len(q) = l + 1
  BY <1>1, HeadTailProperties, LenProperties
<1>3. Head(q) = q[1] /\ \A i \in 1..l : p[i] = q[i + 1]
  BY <1>1, <1>2, HeadTailProperties
<1>4. /\ c \in [0..(l + 1) -> Nat] /\ c[0] = a /\ c[l + 1] = b
      /\ \A i \in 1..(l + 1) : c[i] = c[i - 1] + q[i]
  BY <1>2 DEF Accounts
<1> DEFINE d == [i \in 0..l |-> c[i + 1]]
<1>5. d \in [0..l -> Nat] /\ d[l] = b
  BY <1>4
<1>6. d[0] = a + Head(q)
  <2>1. 1 \in 1..(l + 1) /\ c[1] = c[1 - 1] + q[1]
    BY <1>4
  <2> QED
    BY <1>3, <1>4, <2>1
<1>7. ASSUME NEW i \in 1..l PROVE d[i] = d[i - 1] + p[i]
  <2>1. i + 1 \in 1..(l + 1) /\ (i + 1) - 1 = i /\ i \in 0..l /\ i - 1 \in 0..l /\ (i - 1) + 1 = i
    OBVIOUS
  <2>2. d[i] = c[i + 1] /\ d[i - 1] = c[i] /\ c[i + 1] = c[i] + q[i + 1]
    BY <1>4, <2>1
  <2> QED
    BY <1>3, <2>2
<1> HIDE DEF d
<1>8. Accounts(d, p, a + Head(q), b)
  BY <1>2, <1>5, <1>6, <1>7 DEF Accounts
<1> QED
  BY <1>1, <1>8

LEMMA InitAudio == Init => AudioKept
<1> SUFFICES ASSUME Init PROVE AudioKept
  OBVIOUS
<1>1. /\ received = 0 /\ fed = 0 /\ queue = <<>> /\ finished = FALSE /\ finishing = "no"
      /\ closing = "no"
  BY Zenon DEF Init, StreamInit
<1> DEFINE c == [i \in 0..0 |-> 0]
<1>2. Accounts(c, <<>>, 0, 0)
  BY DEF Accounts
<1> HIDE DEF c
<1>3. \E d : Accounts(d, queue, received, fed)
  BY <1>1, <1>2, Zenon
<1>4. Len(queue) <= QueueMax
  BY <1>1, DiarizationAssumption DEF DiarizationAssumption
<1> QED
  BY <1>1, <1>3, <1>4 DEF AudioKept

\* The parts of the invariant that a step leaves alone.
LEMMA AudioStays ==
  ASSUME AudioKept, UNCHANGED <<queue, received, fed, finished>>, degraded => degraded',
         finishing = "done" => finishing' = "done", finishing' \in {"no", "putting", "done"},
         closing' # "no" => finishing' = "done"
  PROVE  AudioKept'
<1>1. ~degraded' => \E c : Accounts(c, queue', received', fed')
  <2>1. ~degraded => \E c : Accounts(c, queue, received, fed)
    BY DEF AudioKept
  <2>2. queue' = queue /\ received' = received /\ fed' = fed
    OBVIOUS
  <2> QED
    BY <2>1, <2>2, Zenon
<1>2. \A i \in 1..Len(queue') : queue'[i] = EOS => i = Len(queue') /\ finishing' = "done"
  BY DEF AudioKept, EOS
<1>3. finished' => queue' = <<>> /\ finishing' = "done"
  BY DEF AudioKept
<1>4. EOS' = EOS /\ Len(queue') <= QueueMax
  BY DEF EOS, AudioKept
<1> QED
  BY <1>1, <1>2, <1>3, <1>4, Zenon DEF AudioKept

\* The whole queue has been taken when its end of stream has.
LEMMA AudioTaken ==
  ASSUME AudioKept, queue \in Seq(Nat), queue # <<>>, ~finished, received \in Nat,
         queue' = Tail(queue), received' = received + Head(queue),
         UNCHANGED <<fed, degraded, finishing, closing>>,
         finished' => Head(queue) = EOS
  PROVE  AudioKept'
<1>1. PICK q \in Seq(Nat) : q = queue /\ q # <<>>
  OBVIOUS
<1>2. PICK p \in Seq(Nat) : p = Tail(q)
  BY <1>1, HeadTailProperties
<1>3. PICK l \in Nat : l = Len(p) /\ Len(q) = l + 1
  BY <1>1, <1>2, HeadTailProperties, LenProperties
<1>4. Head(q) = q[1] /\ \A i \in 1..l : p[i] = q[i + 1]
  BY <1>1, <1>2, <1>3, HeadTailProperties
<1>5. queue' = p
  BY <1>1, <1>2
<1>6. ~degraded' => \E c : Accounts(c, queue', received', fed')
  <2> SUFFICES ASSUME ~degraded' PROVE \E c : Accounts(c, queue', received', fed')
    OBVIOUS
  <2>1. PICK c : Accounts(c, queue, received, fed)
    BY DEF AudioKept
  <2>2. PICK d : Accounts(d, Tail(queue), received + Head(queue), fed)
    BY <2>1, AccountsTail
  <2> QED
    BY <2>2, Zenon
<1>7. ASSUME NEW i \in 1..Len(q), q[i] = EOS PROVE i = Len(q) /\ finishing = "done"
  BY <1>1, <1>7 DEF AudioKept
<1>8. ASSUME NEW i \in 1..l, p[i] = EOS PROVE i = l /\ finishing' = "done"
  <2>1. i + 1 \in 1..Len(q) /\ q[i + 1] = EOS
    BY <1>3, <1>4, <1>8
  <2>2. i + 1 = Len(q) /\ finishing = "done"
    BY <1>7, <2>1
  <2> QED
    BY <1>3, <2>2
<1>9. ASSUME finished' PROVE p = <<>> /\ finishing' = "done"
  <2>1. 1 \in 1..Len(q) /\ q[1] = EOS
    BY <1>1, <1>3, <1>4, <1>9
  <2>2. 1 = Len(q) /\ finishing = "done"
    BY <1>7, <2>1
  <2>3. l = 0
    BY <1>3, <2>2
  <2> QED
    BY <1>3, <2>2, <2>3, EmptySeq
<1>10. \A i \in 1..Len(queue') : queue'[i] = EOS => i = Len(queue') /\ finishing' = "done"
  BY <1>3, <1>5, <1>8
<1>11. finished' => queue' = <<>> /\ finishing' = "done"
  BY <1>5, <1>9
<1>12. finishing' \in {"no", "putting", "done"} /\ (closing' # "no" => finishing' = "done")
  BY DEF AudioKept
<1>13. EOS' = EOS /\ Len(queue') <= QueueMax
  <2>1. Len(q) <= QueueMax /\ QueueMax \in Nat
    BY <1>1, DiarizationAssumption DEF DiarizationAssumption, AudioKept
  <2> QED
    BY <1>3, <1>5, <2>1 DEF EOS
<1> QED
  BY <1>6, <1>10, <1>11, <1>12, <1>13, Zenon DEF AudioKept

LEMMA AudioAdded ==
  ASSUME AudioKept, queue \in Seq(Nat), fed \in Nat, ~finished, NEW n \in Nat,
         n = EOS => finishing' = "done", finishing # "done", Len(queue) < QueueMax,
         queue' = Append(queue, n), fed' = fed + n,
         UNCHANGED <<received, closing, finished>>, degraded => degraded',
         finishing' \in {"no", "putting", "done"}
  PROVE  AudioKept'
<1>1. PICK q \in Seq(Nat) : q = queue
  OBVIOUS
<1>2. PICK l \in Nat : l = Len(q)
  BY LenProperties
<1>3. PICK p \in Seq(Nat) : p = Append(q, n)
  BY AppendProperties
<1>4. Len(p) = l + 1 /\ p[l + 1] = n /\ \A i \in 1..l : p[i] = q[i]
  BY <1>2, <1>3, AppendProperties
<1>5. queue' = p
  BY <1>1, <1>3
<1>6. ~degraded' => \E c : Accounts(c, queue', received', fed')
  <2> SUFFICES ASSUME ~degraded' PROVE \E c : Accounts(c, queue', received', fed')
    OBVIOUS
  <2>1. PICK c : Accounts(c, queue, received, fed)
    BY DEF AudioKept
  <2>2. PICK d : Accounts(d, Append(queue, n), received, fed + n)
    BY <2>1, AccountsAppend
  <2>3. received' = received
    OBVIOUS
  <2> QED
    BY <2>2, <2>3, Zenon
<1>7. ASSUME NEW i \in 1..(l + 1), p[i] = EOS PROVE i = l + 1 /\ finishing' = "done"
  <2>1. CASE i = l + 1
    BY <1>4, <1>7, <2>1
  <2>2. CASE i # l + 1
    <3>1. i \in 1..Len(q) /\ q[i] = EOS
      BY <1>2, <1>4, <1>7, <2>2
    <3> QED
      BY <1>1, <3>1 DEF AudioKept
  <2> QED
    BY <2>1, <2>2
<1>8. \A i \in 1..Len(queue') : queue'[i] = EOS => i = Len(queue') /\ finishing' = "done"
  BY <1>4, <1>5, <1>7
<1>9. ~finished' /\ closing' = "no"
  BY DEF AudioKept
<1>10. EOS' = EOS /\ Len(queue') <= QueueMax
  <2>1. Len(q) < QueueMax /\ QueueMax \in Nat
    BY <1>1, DiarizationAssumption DEF DiarizationAssumption
  <2> QED
    BY <1>2, <1>4, <1>5, <2>1 DEF EOS
<1> QED
  BY <1>6, <1>8, <1>9, <1>10, Zenon DEF AudioKept

LEMMA NextAudio == TimelineInv /\ AudioKept /\ [Next]_vars => AudioKept'
<1> SUFFICES ASSUME TimelineInv, AudioKept, [Next]_vars PROVE AudioKept'
  OBVIOUS
<1>1. received \in Nat /\ fed \in Nat /\ queue \in Seq(Nat) /\ finished \in BOOLEAN
  BY DEF TimelineInv, ClientTypes, Aligned
<1>2. CASE \E n \in ChunkSizes : Feed(n)
  <2>1. PICK n \in ChunkSizes : Feed(n)
    BY <1>2
  <2>2. n \in Nat /\ n # EOS
    BY DiarizationAssumption DEF DiarizationAssumption, EOS
  <2>3. /\ finishing = "no" /\ finishing' = "no" /\ fed' = fed + n
        /\ UNCHANGED <<received, closing, finished>>
        /\ queue' = IF available /\ Len(queue) < QueueMax THEN Append(queue, n) ELSE queue
        /\ degraded' = (degraded \/ Len(queue) = QueueMax)
    BY <2>1 DEF Feed, callVars, serverVars, streamVars
  <2>4. ~finished /\ closing = "no"
    BY <2>3 DEF AudioKept
  <2>5. CASE available /\ Len(queue) < QueueMax
    <3>1. degraded => degraded'
      BY <2>3, Zenon
    <3>2. finishing # "done" /\ finishing' \in {"no", "putting", "done"}
      BY <2>3
    <3> QED
      BY <1>1, <2>2, <2>3, <2>4, <2>5, <3>1, <3>2, AudioAdded, Zenon
  <2>6. CASE ~(available /\ Len(queue) < QueueMax)
    <3>1. degraded'
      <4>1. CASE degraded
        BY <2>3, <4>1, Zenon
      <4>2. CASE ~degraded
        <5>1. available
          BY <2>4, <4>2 DEF available
        <5>2. Len(queue) = QueueMax
          BY <1>1, <2>6, <5>1, DiarizationAssumption, LenProperties
             DEF DiarizationAssumption, AudioKept
        <5> QED
          BY <2>3, <5>2, Zenon
      <4> QED
        BY <4>1, <4>2
    <3>2. queue' = queue
      BY <2>3, <2>6, Zenon
    <3>3. \A i \in 1..Len(queue') : queue'[i] = EOS => i = Len(queue') /\ finishing' = "done"
      BY <2>3, <3>2 DEF AudioKept, EOS
    <3>4. EOS' = EOS /\ ~finished' /\ closing' = "no" /\ finishing' \in {"no", "putting", "done"}
      BY <2>3, <2>4 DEF EOS
    <3>5. Len(queue') <= QueueMax
      BY <3>2 DEF AudioKept
    <3> QED
      BY <3>1, <3>3, <3>4, <3>5, Zenon DEF AudioKept
  <2> QED
    BY <2>3, <2>5, <2>6, Zenon
<1>3. CASE FinishPuts
  <2>1. /\ finishing = "putting" /\ finishing' = "done" /\ queue' = Append(queue, EOS)
        /\ Len(queue) < QueueMax
        /\ UNCHANGED <<received, closing, finished, fed, degraded>>
    BY <1>3 DEF FinishPuts, clientVars, serverVars, streamVars
  <2>2. EOS \in Nat /\ fed' = fed + EOS
    BY <1>1, <2>1 DEF EOS
  <2>3. ~finished
    BY <2>1 DEF AudioKept
  <2>4. finishing # "done" /\ finishing' \in {"no", "putting", "done"} /\ (degraded => degraded')
    BY <2>1
  <2> QED
    BY <1>1, <2>1, <2>2, <2>3, <2>4, AudioAdded, Zenon
<1>4. CASE ServeAudio
  <2>1. /\ queue # <<>> /\ ~finished /\ ~finished' /\ queue' = Tail(queue)
        /\ received' = received + Head(queue)
        /\ UNCHANGED <<fed, degraded, finishing, closing>>
    BY <1>4 DEF ServeAudio, StreamFeed, clientVars, callVars
  <2> QED
    BY <1>1, <2>1, AudioTaken, Zenon
<1>5. CASE ServeEnd
  <2>1. /\ queue # <<>> /\ ~finished /\ queue' = Tail(queue) /\ Head(queue) = EOS
        /\ received' = received /\ UNCHANGED <<fed, degraded, finishing, closing>>
    BY <1>5 DEF ServeEnd, StreamFinish, clientVars, callVars
  <2>2. received' = received + Head(queue)
    BY <1>1, <2>1 DEF EOS
  <2> QED
    BY <1>1, <2>1, <2>2, AudioTaken, Zenon
<1>6. ASSUME UNCHANGED <<queue, received, fed, finished>>, degraded => degraded',
             UNCHANGED <<finishing, closing>>
      PROVE  AudioKept'
  <2>1. /\ finishing = "done" => finishing' = "done"
        /\ finishing' \in {"no", "putting", "done"}
        /\ closing' # "no" => finishing' = "done"
    BY <1>6 DEF AudioKept
  <2> QED
    BY <1>6, <2>1, AudioStays, Zenon
<1>7. CASE Finish \/ Aclose \/ AcloseReturns \/ AcloseTimesOut
  <2>1. UNCHANGED <<queue, received, fed, finished, degraded>>
    BY <1>7 DEF Finish, Aclose, AcloseReturns, AcloseTimesOut, clientVars, serverVars, streamVars
  <2>2. /\ finishing = "done" => finishing' = "done"
        /\ finishing' \in {"no", "putting", "done"}
        /\ closing' # "no" => finishing' = "done"
    BY <1>7 DEF AudioKept, Finish, Aclose, AcloseReturns, AcloseTimesOut
  <2> QED
    BY <2>1, <2>2, AudioStays, Zenon
<1>8. CASE StartReturns \/ StartTimesOut \/ TurnsForReturns \/ TurnsForTimesOut
           \/ (\E end \in SegmentEnds \cup {fed} : TurnsFor(end))
           \/ ReceiveEvent \/ ServeStart \/ ServeFails \/ UNCHANGED vars
  <2>1. UNCHANGED <<queue, received, fed, finished, finishing, closing>>
    BY <1>8 DEF StartReturns, StartTimesOut, TurnsFor, TurnsForReturns, TurnsForTimesOut,
           ReceiveEvent, ReceiveStarted, ReceiveTurns, ReceiveEnded, ReceiveFailed,
           ServeStart, ServeFails, vars, serverVars, streamVars, clientVars, callVars
  <2>2. degraded => degraded'
    BY <1>8 DEF StartReturns, StartTimesOut, TurnsFor, TurnsForReturns, TurnsForTimesOut,
           ReceiveEvent, ReceiveStarted, ReceiveTurns, ReceiveEnded, ReceiveFailed,
           ServeStart, ServeFails, vars, clientVars
  <2> QED
    BY <1>6, <2>1, <2>2
<1> QED
  BY <1>2, <1>3, <1>4, <1>5, <1>7, <1>8 DEF Next, Client, Sidecar

\* When the sidecar ended the stream as asked, the timeline has reached the last full
\* millisecond of all the audio the session heard (client.py:205, model.py:433):
\* nothing fed was dropped on the way unless the connection is degraded, and the last
\* step of the stream speaks up to the end of what was received.
THEOREM TheTimelineIsComplete == Spec => []EndedTimelineIsComplete
<1>1. TimelineInv /\ WindowInv /\ EventsTell /\ EndIsSeen /\ AudioKept => EndedTimelineIsComplete
  <2> SUFFICES ASSUME TimelineInv, WindowInv, EventsTell, EndIsSeen, AudioKept,
                      recv = "done", ~degraded, closing = "no"
               PROVE  watermark = fed \div MsSamples
    BY DEF EndedTimelineIsComplete
  <2>1. finished /\ events = <<>> /\ queue = <<>>
    BY DEF EndIsSeen, AudioKept
  <2>2. received \in Nat /\ fed \in Nat /\ watermark \in Nat
    BY DEF TimelineInv, ClientTypes, Aligned
  <2>3. received = fed
    <3>1. PICK c : Accounts(c, queue, received, fed)
      BY DEF AudioKept
    <3>2. Len(queue) = 0
      BY <2>1
    <3> QED
      BY <3>1, <3>2, Zenon DEF Accounts
  <2>4. PICK t \in Nat : t = LastTime(steps) /\ t = received \div MsSamples
    BY <2>1, <2>2, Sizes, Quotient DEF WindowInv
  <2>5. watermark <= t /\ t <= watermark
    <3>1. Len(events) = 0
      BY <2>1
    <3> QED
      BY <2>4, <3>1 DEF EventsTell, Tell, Reaches
  <2> QED
    BY <2>2, <2>3, <2>4, <2>5
<1>2. Init => EventsTell /\ EndIsSeen /\ AudioKept /\ TimelineInv /\ WindowInv
  BY InitTell, InitAudio, InitTimeline, InitWindows
<1>3. TimelineInv /\ WindowInv /\ EventsTell /\ EndIsSeen /\ AudioKept /\ [Next]_vars
        => (TimelineInv /\ WindowInv /\ EventsTell /\ EndIsSeen /\ AudioKept)'
  BY NextTell, NextAudio, NextTimeline, NextWindows
<1> QED
  BY <1>1, <1>2, <1>3, PTL DEF Spec

=============================================================================
