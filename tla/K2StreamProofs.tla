---------------------------- MODULE K2StreamProofs ----------------------------
(***************************************************************************)
(* Theorems about K2Stream, for every capacity of the request queue, every *)
(* cap on a segment and every amount of idle audio kept: the bounds of the *)
(* segments and the ids the recogniser's segments get.                     *)
(***************************************************************************)
EXTENDS K2Stream, TLAPS

Segments == [kind : {"segment"}, id : Nat, start : Nat, end : Nat, stop : BOOLEAN]
Partials == [kind : {"partial"}, id : Nat]
Reported == Segments \cup Partials \cup [kind : {"exception"}]

\* What SpansAndIdsAdvance says of any sequence of events.
Of(l, kinds) == {i \in DOMAIN l : l[i].kind \in kinds}

Advances(l) ==
    /\ \A i \in Of(l, {"segment"}) : l[i].start < l[i].end
    /\ \A i, j \in Of(l, {"segment"}) : i < j => l[i].end <= l[j].start
    /\ \A i \in Of(l, {"segment"}), j \in Of(l, {"segment", "partial"}) :
          i < j => l[i].id < l[j].id

\* No segment reaches beyond sample b, and the id next has not been used by one.
Before(l, b, next) == \A i \in Of(l, {"segment"}) : l[i].end <= b /\ l[i].id < next

\* An event that starts where the others ended and takes the next id is in order.
LEMMA OneMoreEvent ==
  ASSUME NEW l \in Seq(Reported), NEW e \in Reported,
         NEW b \in Nat, NEW next \in Nat, NEW b2 \in Nat, NEW next2 \in Nat,
         Advances(l), Before(l, b, next), b <= b2, next <= next2,
         e.kind \in {"segment", "partial"} => next <= e.id,
         e.kind = "segment" => /\ b <= e.start /\ e.start < e.end
                               /\ e.end <= b2 /\ e.id < next2
  PROVE  /\ Append(l, e) \in Seq(Reported)
         /\ Advances(Append(l, e)) /\ Before(Append(l, e), b2, next2)
<1> DEFINE m == Append(l, e)
           n == Len(l) + 1
<1>1. /\ m \in Seq(Reported) /\ DOMAIN m = 1..n /\ DOMAIN l = 1..Len(l) /\ Len(l) \in Nat
      /\ m[n] = e /\ \A i \in 1..Len(l) : m[i] = l[i]
  OBVIOUS
<1>2. \A i \in DOMAIN m : i = n \/ (i \in DOMAIN l /\ m[i] = l[i] /\ i < n)
  BY <1>1
<1>3. \A i \in Of(m, {"segment"}) : \/ i = n /\ e.kind = "segment"
                                    \/ i \in Of(l, {"segment"}) /\ m[i] = l[i] /\ i < n
  BY <1>1, <1>2 DEF Of
<1>4. \A i \in Of(m, {"segment", "partial"}) :
         \/ i = n /\ e.kind \in {"segment", "partial"}
         \/ i \in Of(l, {"segment", "partial"}) /\ m[i] = l[i] /\ i < n
  BY <1>1, <1>2 DEF Of
<1>5. \A i \in Of(l, {"segment"}) : l[i].start \in Nat /\ l[i].end \in Nat /\ l[i].id \in Nat
  BY DEF Of, Reported, Segments, Partials
<1>6. /\ e.kind = "segment" => e.start \in Nat /\ e.end \in Nat
      /\ e.kind \in {"segment", "partial"} => e.id \in Nat
  BY DEF Reported, Segments, Partials
<1>7. \A i \in Of(m, {"segment"}) : m[i].start < m[i].end
  BY <1>1, <1>3 DEF Advances
<1>8. \A i, j \in Of(m, {"segment"}) : i < j => m[i].end <= m[j].start
  <2> SUFFICES ASSUME NEW i \in Of(m, {"segment"}), NEW j \in Of(m, {"segment"}), i < j
               PROVE  m[i].end <= m[j].start
    OBVIOUS
  <2>1. i \in Of(l, {"segment"}) /\ m[i] = l[i] /\ i \in Int /\ n \in Int
    BY <1>1, <1>3 DEF Of
  <2>2. CASE j = n /\ e.kind = "segment"
    BY <2>1, <2>2, <1>1, <1>5, <1>6 DEF Before
  <2>3. CASE j \in Of(l, {"segment"}) /\ m[j] = l[j]
    BY <2>1, <2>3 DEF Advances
  <2> QED
    BY <1>3, <2>2, <2>3
<1>9. \A i \in Of(m, {"segment"}), j \in Of(m, {"segment", "partial"}) :
         i < j => m[i].id < m[j].id
  <2> SUFFICES ASSUME NEW i \in Of(m, {"segment"}), NEW j \in Of(m, {"segment", "partial"}), i < j
               PROVE  m[i].id < m[j].id
    OBVIOUS
  <2>1. i \in Of(l, {"segment"}) /\ m[i] = l[i]
    BY <1>1, <1>3 DEF Of
  <2>2. CASE j = n /\ e.kind \in {"segment", "partial"}
    BY <2>1, <2>2, <1>1, <1>5, <1>6 DEF Before
  <2>3. CASE j \in Of(l, {"segment", "partial"}) /\ m[j] = l[j]
    BY <2>1, <2>3 DEF Advances
  <2> QED
    BY <1>4, <2>2, <2>3
<1>10. \A i \in Of(m, {"segment"}) : m[i].end <= b2 /\ m[i].id < next2
  <2> SUFFICES ASSUME NEW i \in Of(m, {"segment"}) PROVE m[i].end <= b2 /\ m[i].id < next2
    OBVIOUS
  <2>1. CASE i = n /\ e.kind = "segment"
    BY <2>1, <1>1
  <2>2. CASE i \in Of(l, {"segment"}) /\ m[i] = l[i]
    <3>1. l[i].end <= b /\ l[i].id < next
      BY <2>2 DEF Before
    <3> QED
      BY <2>2, <3>1, <1>5
  <2> QED
    BY <1>3, <2>1, <2>2
<1> QED
  BY <1>1, <1>7, <1>8, <1>9, <1>10 DEF Advances, Before

-----------------------------------------------------------------------------
(* The types. *)

Requests == {"audio", "eos", "sentinel"}

TaskTypes ==
    /\ recv \in {"receiving", "eos", "sentinel", "done"}
    /\ loop \in {"reading", "done"}
    /\ main \in {"running", "closing", "cancelling", "ended"}
    /\ call \in {"live", "half", "ended", "failed", "finished", "cancelled"}

RequestTypes == requests \in Seq(Requests) /\ Len(requests) <= RequestMax

FlagTypes ==
    /\ raised \in BOOLEAN /\ closing \in BOOLEAN /\ closed \in BOOLEAN
    /\ sawPartial \in BOOLEAN /\ idleSpeech \in BOOLEAN /\ active \in BOOLEAN
    /\ gate \in BOOLEAN /\ hasVoice \in BOOLEAN

BufferTypes ==
    /\ bufStart \in Nat /\ bufLen \in Nat /\ total \in Nat /\ seq \in Nat
    /\ bufStart + bufLen = total

Types == TaskTypes /\ RequestTypes /\ FlagTypes /\ BufferTypes

LEMMA TypesImplyTypeOK == Types => TypeOK
<1> SUFFICES ASSUME Types PROVE TypeOK
  OBVIOUS
<1>1. {raised, closing, closed, sawPartial, idleSpeech, gate, hasVoice, active} \subseteq BOOLEAN
  BY Zenon DEF Types, FlagTypes
<1>2. {bufStart, bufLen, total, seq} \subseteq Nat /\ bufStart + bufLen = total
  BY DEF Types, BufferTypes
<1> QED
  BY <1>1, <1>2, Zenon DEF Types, TaskTypes, RequestTypes, TypeOK, Requests

LEMMA InitTypes == Init => Types
<1> SUFFICES ASSUME Init PROVE Types
  OBVIOUS
<1>1. TaskTypes
  BY DEF Init, TaskTypes
<1>2. RequestTypes
  <2>1. requests = <<>>
    BY Zenon DEF Init
  <2> QED
    BY <2>1, K2Assumption DEF RequestTypes, K2Assumption
<1>3. FlagTypes
  BY Zenon DEF Init, FlagTypes
<1>4. BufferTypes
  <2>1. bufStart = 0 /\ bufLen = 0 /\ total = 0 /\ seq = 0
    BY Zenon DEF Init
  <2> QED
    BY <2>1 DEF BufferTypes
<1> QED
  BY <1>1, <1>2, <1>3, <1>4 DEF Types

\* What a put into the request queue, and a get from it, leave there.
LEMMA RequestPut ==
  ASSUME RequestTypes, NEW r \in Requests, Len(requests) < RequestMax
  PROVE  Append(requests, r) \in Seq(Requests) /\ Len(Append(requests, r)) <= RequestMax
  BY K2Assumption DEF RequestTypes, K2Assumption

LEMMA RequestTaken ==
  ASSUME RequestTypes, requests # <<>>
  PROVE  Tail(requests) \in Seq(Requests) /\ Len(Tail(requests)) <= RequestMax
  BY K2Assumption DEF RequestTypes, K2Assumption

\* What feed() leaves of the buffer: nothing older than what it began with.
LEMMA TrimmedSize ==
  ASSUME NEW n \in Nat, NEW idle \in BOOLEAN
  PROVE  Trimmed(n, idle) \in Nat /\ Trimmed(n, idle) <= n
  BY K2Assumption DEF Trimmed, K2Assumption

LEMMA ResetTypes ==
  ASSUME FlagTypes, BufferTypes, NEW t \in Nat, NEW n \in Nat, ResetBuffer(t), EmitIds(n),
         raised' = raised, closing' = closing, closed' \in BOOLEAN, gate' = gate
  PROVE  FlagTypes' /\ BufferTypes'
<1>1. FlagTypes'
  BY Zenon DEF FlagTypes, ResetBuffer, EmitIds
<1>2. seq' \in Nat
  <2>1. seq' = seq \/ seq' = SegmentId
    BY Zenon DEF EmitIds
  <2> QED
    BY <2>1 DEF BufferTypes, SegmentId
<1>3. BufferTypes'
  <2>1. bufLen' = 0 /\ bufStart' = t /\ total' = t
    BY Zenon DEF ResetBuffer
  <2> QED
    BY <1>2, <2>1 DEF BufferTypes
<1> QED
  BY <1>1, <1>3

\* feed(), by what it does when the request queue is full, when the buffer is
\* cut, and otherwise.
Size(n) == bufLen + n
Kept(n, isLoud) == Trimmed(Size(n), ~sawPartial /\ ~SpeechHeard(isLoud))
Start(n, isLoud) == total + n - Kept(n, isLoud)

Overflows(n, isLoud, isVoice) ==
    /\ raised' = TRUE /\ recv' = "eos" /\ requests' = requests
    /\ total' = total + n /\ bufLen' = Size(n) /\ bufStart' = bufStart
    /\ idleSpeech' = SpeechHeard(isLoud) /\ hasVoice' = Convinced(isVoice)
    /\ UNCHANGED <<sawPartial, seq, active, output>>

Buffers(n, isLoud, isVoice) ==
    /\ total' = total + n /\ bufLen' = Kept(n, isLoud) /\ bufStart' = Start(n, isLoud)
    /\ idleSpeech' = SpeechHeard(isLoud) /\ hasVoice' = Convinced(isVoice)
    /\ UNCHANGED <<sawPartial, seq, active, output>>

CutsAt(n, isLoud, isVoice) ==
    /\ \E sound \in BOOLEAN :
          Put(Emitted(Start(n, isLoud), Kept(n, isLoud), sound, Convinced(isVoice), FALSE))
    /\ EmitIds(Kept(n, isLoud))
    /\ ResetBuffer(total + n)

LEMMA FeedCases ==
  ASSUME NEW n \in Nat, NEW isLoud \in BOOLEAN, NEW isVoice \in BOOLEAN,
         Feed(n, isLoud, isVoice)
  PROVE  /\ UNCHANGED <<loop, main, closing, closed, call, gate>>
         /\ \/ Overflows(n, isLoud, isVoice)
            \/ /\ ~(Len(requests) >= RequestMax)
               /\ requests' = Append(requests, "audio") /\ raised' = raised /\ recv' = recv
               /\ Buffers(n, isLoud, isVoice) \/ CutsAt(n, isLoud, isVoice)
  BY Zenon DEF Feed, Overflows, Buffers, CutsAt, Size, Kept, Start

\* What is kept is the end of what was buffered.
LEMMA FeedNumbers ==
  ASSUME Types, NEW n \in Nat, NEW isLoud \in BOOLEAN
  PROVE  /\ Kept(n, isLoud) \in Nat /\ Start(n, isLoud) \in Nat
         /\ bufStart <= Start(n, isLoud) /\ Start(n, isLoud) + Kept(n, isLoud) = total + n
<1>1. /\ bufStart \in Nat /\ bufLen \in Nat /\ total \in Nat /\ bufStart + bufLen = total
      /\ (~sawPartial /\ ~SpeechHeard(isLoud)) \in BOOLEAN
  BY Zenon DEF Types, BufferTypes
<1>2. Size(n) \in Nat /\ Size(n) = bufLen + n
  BY <1>1 DEF Size
<1>3. Kept(n, isLoud) \in Nat /\ Kept(n, isLoud) <= Size(n)
  BY <1>1, <1>2, TrimmedSize DEF Kept
<1> QED
  BY <1>1, <1>2, <1>3 DEF Start

LEMMA FeedTypes ==
  ASSUME Types, NEW n \in Chunks, NEW isLoud \in BOOLEAN, NEW isVoice \in BOOLEAN,
         Feed(n, isLoud, isVoice)
  PROVE  Types'
<1>0. n \in Nat
  BY K2Assumption DEF K2Assumption
<1>1. SpeechHeard(isLoud) \in BOOLEAN /\ Convinced(isVoice) \in BOOLEAN
  BY Zenon DEF SpeechHeard, Convinced
<1>2. /\ Kept(n, isLoud) \in Nat /\ Start(n, isLoud) \in Nat
      /\ Start(n, isLoud) + Kept(n, isLoud) = total + n
  BY <1>0, FeedNumbers
<1>3. UNCHANGED <<loop, main, closing, closed, call, gate>>
  BY <1>0, FeedCases
<1>4. CASE Overflows(n, isLoud, isVoice)
  <2>1. TaskTypes' /\ RequestTypes'
    BY <1>3, <1>4 DEF Overflows, Types, TaskTypes, RequestTypes
  <2>2. FlagTypes'
    BY <1>1, <1>3, <1>4, Zenon DEF Overflows, Types, FlagTypes
  <2>3. /\ total' = total + n /\ bufLen' = bufLen + n /\ bufStart' = bufStart /\ seq' = seq
    BY <1>4, Zenon DEF Overflows, Size
  <2>4. BufferTypes'
    BY <1>0, <2>3 DEF Types, BufferTypes
  <2> QED
    BY <2>1, <2>2, <2>4 DEF Types
<1>5. CASE /\ ~(Len(requests) >= RequestMax)
           /\ requests' = Append(requests, "audio") /\ raised' = raised /\ recv' = recv
           /\ Buffers(n, isLoud, isVoice) \/ CutsAt(n, isLoud, isVoice)
  <2>1. TaskTypes'
    BY <1>3, <1>5 DEF Types, TaskTypes
  <2>2. RequestTypes'
    <3>1. Len(requests) < RequestMax
      BY <1>5, K2Assumption DEF Types, RequestTypes, K2Assumption
    <3> QED
      BY <1>5, <3>1, RequestPut DEF Types, RequestTypes, Requests
  <2>3. CASE Buffers(n, isLoud, isVoice)
    <3>1. FlagTypes'
      BY <1>1, <1>3, <1>5, <2>3, Zenon DEF Buffers, Types, FlagTypes
    <3>2. BufferTypes'
      BY <1>0, <1>2, <2>3 DEF Buffers, Types, BufferTypes
    <3> QED
      BY <2>1, <2>2, <3>1, <3>2 DEF Types
  <2>4. CASE CutsAt(n, isLoud, isVoice)
    <3>1. total + n \in Nat
      BY <1>0 DEF Types, BufferTypes
    <3>2. FlagTypes' /\ BufferTypes'
      BY <1>2, <1>3, <1>5, <2>4, <3>1, ResetTypes, Zenon DEF CutsAt, Types, FlagTypes
    <3> QED
      BY <2>1, <2>2, <3>2 DEF Types
  <2> QED
    BY <1>5, <2>3, <2>4
<1> QED
  BY <1>0, <1>4, <1>5, FeedCases

LEMMA NextTypes == Types /\ [Next]_vars => Types'
<1> SUFFICES ASSUME Types, [Next]_vars PROVE Types'
  OBVIOUS
<1> USE DEF Types
<1>1. CASE \E n \in Chunks, isLoud, isVoice \in BOOLEAN :
             total + n <= MaxSamples /\ Feed(n, isLoud, isVoice)
  BY <1>1, FeedTypes
<1>2. CASE EndInput \/ FlushClosed \/ BeginFlush \/ FlushEos \/ FlushSentinel
           \/ AcloseSentinel \/ TakeRequest \/ HalfClose \/ Dispatch
  <2>1. FlagTypes' /\ BufferTypes'
    BY <1>2, Zenon
       DEF EndInput, FlushClosed, BeginFlush, FlushEos, FlushSentinel, AcloseSentinel, PutRequest,
           TakeRequest, HalfClose, Dispatch, FlagTypes, BufferTypes, request, buffer, tasks
  <2>2. TaskTypes'
    BY <1>2
       DEF EndInput, FlushClosed, BeginFlush, FlushEos, FlushSentinel, AcloseSentinel, PutRequest,
           TakeRequest, HalfClose, Dispatch, TaskTypes, tasks
  <2>3. RequestTypes'
    <3>1. CASE \E r \in Requests : requests' = Append(requests, r) /\ Len(requests) < RequestMax
      BY <3>1, RequestPut DEF RequestTypes
    <3>2. CASE requests # <<>> /\ requests' = Tail(requests)
      BY <3>2, RequestTaken DEF RequestTypes
    <3>3. CASE requests' = requests
      BY <3>3 DEF RequestTypes
    <3> QED
      BY <1>2, <3>1, <3>2, <3>3, Zenon
         DEF EndInput, FlushClosed, BeginFlush, FlushEos, FlushSentinel, AcloseSentinel,
             PutRequest, TakeRequest, HalfClose, Dispatch, Requests, request
  <2> QED
    BY <2>1, <2>2, <2>3
<1>3. CASE ReceivePartial
  <2>1. FlagTypes'
    BY <1>3, Zenon DEF ReceivePartial, FlagTypes, request, tasks
  <2>2. seq' = seq \/ seq' = SegmentId
    BY <1>3, Zenon DEF ReceivePartial
  <2>3. bufStart' = bufStart /\ bufLen' = bufLen /\ total' = total
    BY <1>3, Zenon DEF ReceivePartial
  <2>4. BufferTypes'
    BY <2>2, <2>3 DEF BufferTypes, SegmentId
  <2> QED
    BY <1>3, <2>1, <2>4 DEF ReceivePartial, TaskTypes, RequestTypes, request, tasks
<1>4. CASE ReceiveEndpoint \/ ReceiveEnd
  <2>1. /\ raised' = raised /\ closing' = closing /\ gate' = gate /\ requests' = requests
        /\ recv' = recv /\ loop' = loop /\ main' = main
        /\ closed' \in BOOLEAN
    BY <1>4, Zenon DEF ReceiveEndpoint, ReceiveEnd, request, tasks, FlagTypes
  <2>2. call' \in {call, "ended", "failed", "finished"}
    BY <1>4, Zenon DEF ReceiveEndpoint, ReceiveEnd
  <2>3. CASE EmitIds(bufLen) /\ ResetBuffer(total)
    <3>1. FlagTypes' /\ BufferTypes'
      BY <2>1, <2>3, ResetTypes, Zenon DEF BufferTypes
    <3> QED
      BY <2>1, <2>2, <3>1 DEF TaskTypes, RequestTypes
  <2>4. CASE UNCHANGED buffer
    <3>1. FlagTypes' /\ BufferTypes'
      BY <2>1, <2>4, Zenon DEF FlagTypes, BufferTypes, buffer
    <3> QED
      BY <2>1, <2>2, <3>1 DEF TaskTypes, RequestTypes
  <2> QED
    BY <1>4, <2>3, <2>4, Zenon DEF ReceiveEndpoint, ReceiveEnd
<1>5. CASE Cleanup \/ AcloseCancel
  <2>1. FlagTypes' /\ BufferTypes'
    BY <1>5, Zenon DEF Cleanup, AcloseCancel, FlagTypes, BufferTypes, request, buffer
  <2>2. TaskTypes' /\ RequestTypes'
    BY <1>5, Zenon DEF Cleanup, AcloseCancel, TaskTypes, RequestTypes, request
  <2> QED
    BY <2>1, <2>2
<1>6. CASE UNCHANGED vars
  <2>1. FlagTypes' /\ BufferTypes'
    BY <1>6, Zenon DEF vars, buffer, tasks, request, FlagTypes, BufferTypes
  <2>2. TaskTypes' /\ RequestTypes'
    BY <1>6 DEF vars, tasks, request, TaskTypes, RequestTypes
  <2> QED
    BY <2>1, <2>2
<1> QED
  BY <1>1, <1>2, <1>3, <1>4, <1>5, <1>6, Zenon DEF Next

\* The variables of the stream and of the tasks around it keep their types, the
\* request queue its bound, and the buffer always ends where the audio fed so far
\* does (k2_stream.py:148-174, :338-349, :394-407).
THEOREM K2Types == Spec => []TypeOK
<1>1. Spec => []Types
  BY InitTypes, NextTypes, PTL DEF Spec
<1> QED
  BY <1>1, TypesImplyTypeOK, PTL

-----------------------------------------------------------------------------
(* Spans and ids. *)

LogAdvances ==
    log \in Seq(Reported) /\ Advances(log) /\ Before(log, bufStart, SegmentId)

\* _emit_buffered_segment(), whatever it forwards, of a buffer not older than what
\* was reported, and the reset that comes after it.
LEMMA EmittedAdvances ==
  ASSUME Types, LogAdvances, NEW s \in Nat, NEW n \in Nat, bufStart <= s,
         NEW sound \in BOOLEAN, NEW voice \in BOOLEAN, NEW stop \in BOOLEAN,
         EmitIds(n), ResetBuffer(s + n)
  PROVE  LET l == log \o Emitted(s, n, sound, voice, stop)
         IN  l \in Seq(Reported) /\ Advances(l) /\ Before(l, bufStart', SegmentId')
<1> DEFINE e == SegmentOf(s, n, stop)
<1>1. /\ SegmentId \in Nat /\ bufStart \in Nat /\ bufStart' = s + n /\ bufStart <= bufStart'
      /\ SegmentId' \in Nat /\ SegmentId <= SegmentId' /\ (n > 0 => SegmentId < SegmentId')
  BY DEF Types, BufferTypes, SegmentId, EmitIds, ResetBuffer
<1>2. CASE Forwarded(n, sound, voice)
  <2>1. e \in Reported /\ e.kind = "segment" /\ e.id = SegmentId /\ e.start = s /\ e.end = s + n
    BY <1>1 DEF SegmentOf, Reported, Segments
  <2>2. log \o Emitted(s, n, sound, voice, stop) = Append(log, e)
    BY <1>2, <2>1 DEF Emitted, LogAdvances
  <2>3. n > 0
    BY <1>2 DEF Forwarded
  <2> HIDE DEF e
  <2> QED
    BY <1>1, <2>1, <2>2, <2>3, OneMoreEvent DEF LogAdvances
<1>3. CASE ~Forwarded(n, sound, voice)
  <2>1. log \o Emitted(s, n, sound, voice, stop) = log
    BY <1>3 DEF Emitted, LogAdvances
  <2>2. \A i \in Of(log, {"segment"}) : log[i].end \in Nat /\ log[i].id \in Nat
    BY DEF Of, LogAdvances, Reported, Segments, Partials
  <2> QED
    BY <1>1, <2>1, <2>2 DEF LogAdvances, Before
<1> QED
  BY <1>2, <1>3

\* The same of the buffer as it stands.
LEMMA BufferedAdvances ==
  ASSUME Types, LogAdvances, NEW sound \in BOOLEAN, NEW stop \in BOOLEAN,
         EmitIds(bufLen), ResetBuffer(total)
  PROVE  LET l == log \o Buffered(sound, stop)
         IN  l \in Seq(Reported) /\ Advances(l) /\ Before(l, bufStart', SegmentId')
<1>1. /\ bufStart \in Nat /\ bufLen \in Nat /\ bufStart <= bufStart /\ bufStart + bufLen = total
  BY DEF Types, BufferTypes
<1>2. hasVoice \in BOOLEAN
  BY Zenon DEF Types, FlagTypes
<1>3. ResetBuffer(bufStart + bufLen)
  BY <1>1, Zenon
<1> QED
  BY <1>1, <1>2, <1>3, EmittedAdvances, Zenon DEF Buffered

\* An action that neither emits nor loses the id it holds.
LEMMA NothingEmitted ==
  ASSUME Types, LogAdvances, log' = log, bufStart' = bufStart, seq' = seq, active' = active
  PROVE  LogAdvances'
  BY DEF LogAdvances, SegmentId

LEMMA NextAdvances == Types /\ LogAdvances /\ [Next]_vars => LogAdvances'
<1> SUFFICES ASSUME Types, LogAdvances, [Next]_vars PROVE LogAdvances'
  OBVIOUS
<1>0. /\ bufStart \in Nat /\ bufLen \in Nat /\ total \in Nat /\ bufStart + bufLen = total
      /\ SegmentId \in Nat /\ closing \in BOOLEAN /\ hasVoice \in BOOLEAN
  <2>1. closing \in BOOLEAN /\ hasVoice \in BOOLEAN
    BY Zenon DEF Types, FlagTypes
  <2> QED
    BY <2>1 DEF Types, BufferTypes, SegmentId
<1>1. ASSUME NEW n \in Chunks, NEW isLoud \in BOOLEAN, NEW isVoice \in BOOLEAN,
             Feed(n, isLoud, isVoice)
      PROVE  LogAdvances'
  <2>0. n \in Nat
    BY K2Assumption DEF K2Assumption
  <2>1. /\ Kept(n, isLoud) \in Nat /\ Start(n, isLoud) \in Nat
        /\ bufStart <= Start(n, isLoud) /\ Start(n, isLoud) + Kept(n, isLoud) = total + n
    BY <2>0, FeedNumbers
  <2>2. CASE Overflows(n, isLoud, isVoice)
    BY <2>2, NothingEmitted, Zenon DEF Overflows, output
  <2>3. CASE Buffers(n, isLoud, isVoice)
    <3>1. /\ bufStart' = Start(n, isLoud) /\ log' = log /\ seq' = seq /\ active' = active
      BY <2>3, Zenon DEF Buffers, output
    <3>2. \A i \in Of(log, {"segment"}) : log[i].end \in Nat
      BY DEF Of, LogAdvances, Reported, Segments, Partials
    <3> QED
      BY <1>0, <2>1, <3>1, <3>2 DEF LogAdvances, Before, SegmentId
  <2>4. CASE CutsAt(n, isLoud, isVoice)
    <3>1. PICK sound \in BOOLEAN :
            log' = log \o Emitted(Start(n, isLoud), Kept(n, isLoud), sound, Convinced(isVoice), FALSE)
      BY <2>4, Zenon DEF CutsAt, Put
    <3>2. EmitIds(Kept(n, isLoud)) /\ ResetBuffer(Start(n, isLoud) + Kept(n, isLoud))
      BY <2>1, <2>4, Zenon DEF CutsAt
    <3>3. Convinced(isVoice) \in BOOLEAN
      BY Zenon DEF Convinced
    <3> QED
      BY <2>1, <3>1, <3>2, <3>3, EmittedAdvances DEF LogAdvances
  <2> QED
    BY <1>1, <2>0, <2>2, <2>3, <2>4, FeedCases
<1>2. CASE EndInput \/ FlushClosed \/ BeginFlush \/ FlushEos \/ FlushSentinel
           \/ AcloseSentinel \/ TakeRequest \/ HalfClose \/ Dispatch \/ Cleanup
  <2>1. log' = log /\ UNCHANGED buffer
    BY <1>2, Zenon
       DEF EndInput, FlushClosed, BeginFlush, FlushEos, FlushSentinel, AcloseSentinel, PutRequest,
           TakeRequest, HalfClose, Dispatch, Cleanup, output
  <2> QED
    BY <2>1, NothingEmitted, Zenon DEF buffer
<1>3. CASE ReceivePartial
  <2>0. bufStart' = bufStart
    BY <1>3, Zenon DEF ReceivePartial
  <2>1. CASE log' = log /\ ((seq' = SegmentId /\ active' = TRUE) \/ UNCHANGED <<seq, active>>)
    <3>1. SegmentId' = SegmentId
      BY <2>1 DEF SegmentId
    <3> QED
      BY <2>0, <2>1, <3>1 DEF LogAdvances
  <2>2. CASE log' = log \o <<[kind |-> "partial", id |-> SegmentId]>>
             /\ seq' = SegmentId /\ active' = TRUE
    <3> DEFINE e == [kind |-> "partial", id |-> SegmentId]
    <3>1. SegmentId' = SegmentId
      BY <2>2 DEF SegmentId
    <3>2. e \in Reported /\ e.kind = "partial" /\ e.id = SegmentId
      BY <1>0 DEF Reported, Partials
    <3>3. log' = Append(log, e)
      BY <2>2, <3>2 DEF LogAdvances
    <3> HIDE DEF e
    <3> QED
      BY <1>0, <2>0, <3>1, <3>2, <3>3, OneMoreEvent DEF LogAdvances
  <2>3. log \o <<>> = log
    BY DEF LogAdvances
  <2> QED
    BY <1>3, <2>1, <2>2, <2>3, Zenon DEF ReceivePartial, Put, output
<1>4. ASSUME NEW stop \in BOOLEAN, NEW sound \in BOOLEAN,
             log' = log \o Buffered(sound, stop), EmitIds(bufLen), ResetBuffer(total)
      PROVE  LogAdvances'
  BY <1>4, BufferedAdvances DEF LogAdvances
<1>5. CASE ReceiveEndpoint
  BY <1>0, <1>4, <1>5, Zenon DEF ReceiveEndpoint, Put
<1>6. CASE ReceiveEnd
  <2>1. CASE log' = log \o <<>> /\ UNCHANGED buffer
    <3>1. log' = log
      BY <2>1 DEF LogAdvances
    <3> QED
      BY <2>1, <3>1, NothingEmitted, Zenon DEF buffer
  <2>2. ASSUME NEW sound \in BOOLEAN, EmitIds(bufLen), ResetBuffer(total),
               log' = log \o Append(Buffered(sound, TRUE), [kind |-> "exception"])
        PROVE  LogAdvances'
    <3> DEFINE l == log \o Buffered(sound, TRUE)
               e == [kind |-> "exception"]
    <3>1. l \in Seq(Reported) /\ Advances(l) /\ Before(l, bufStart', SegmentId')
      BY <2>2, BufferedAdvances
    <3>2. bufStart' \in Nat /\ SegmentId' \in Nat
      BY <1>0, <2>2 DEF ResetBuffer, EmitIds, SegmentId, Types, BufferTypes
    <3>3. e \in Reported /\ e.kind = "exception"
      BY DEF Reported
    <3>4. log' = Append(l, e)
      BY <1>0, <2>2, <3>3 DEF Buffered, Emitted, SegmentOf, LogAdvances, Reported, Segments
    <3> HIDE DEF l, e
    <3> QED
      BY <3>1, <3>2, <3>3, <3>4, OneMoreEvent DEF LogAdvances
  <2> QED
    BY <1>4, <1>6, <2>1, <2>2, Zenon DEF ReceiveEnd, PutEnd
<1>7. CASE AcloseCancel
  <2>1. log' = log \/ log' = log \o <<>>
    BY <1>7, Zenon DEF AcloseCancel, PutEnd, output
  <2>2. log' = log /\ UNCHANGED buffer
    BY <1>7, <2>1 DEF AcloseCancel, LogAdvances
  <2> QED
    BY <2>2, NothingEmitted, Zenon DEF buffer
<1>8. CASE UNCHANGED vars
  BY <1>8, NothingEmitted, Zenon DEF vars, buffer, output
<1> QED
  BY <1>1, <1>2, <1>3, <1>5, <1>6, <1>7, <1>8, Zenon DEF Next

\* Whatever the recogniser says and whenever the queue overflows or the buffer is
\* trimmed or cut, the segments of a session are disjoint, in order and inside
\* the audio fed, and no id is used again after its segment (k2_stream.py:352).
THEOREM SegmentsAdvance == Spec => []SpansAndIdsAdvance
<1>1. Init => LogAdvances
  <2> SUFFICES ASSUME Init PROVE LogAdvances
    OBVIOUS
  <2>1. log = <<>>
    BY Zenon DEF Init
  <2> QED
    BY <2>1 DEF LogAdvances, Advances, Before, Of
<1>2. Spec => [](Types /\ LogAdvances)
  BY <1>1, InitTypes, NextTypes, NextAdvances, PTL DEF Spec
<1>3. Types /\ LogAdvances => SpansAndIdsAdvance
  <2> SUFFICES ASSUME Types, LogAdvances PROVE SpansAndIdsAdvance
    OBVIOUS
  <2>1. \A i \in Of(log, {"segment"}) : log[i].end \in Nat
    BY DEF Of, LogAdvances, Reported, Segments, Partials
  <2>2. \A i \in Of(log, {"segment"}) : log[i].end <= total
    BY <2>1 DEF LogAdvances, Before, Types, BufferTypes
  <2>3. SegmentsAt = Of(log, {"segment"})
    BY DEF SegmentsAt, Of
  <2>4. /\ \A i \in SegmentsAt : log[i].start < log[i].end
        /\ \A i, j \in SegmentsAt : i < j => log[i].end <= log[j].start
    BY <2>3, Zenon DEF LogAdvances, Advances
  <2>5. \A i \in SegmentsAt, j \in DOMAIN log :
          i < j /\ log[j].kind \in {"segment", "partial"} => log[i].id < log[j].id
    BY <2>3, Zenon DEF LogAdvances, Advances, Of
  <2> QED
    BY <2>2, <2>3, <2>4, <2>5, Zenon DEF SpansAndIdsAdvance
<1> QED
  BY <1>2, <1>3, PTL
-----------------------------------------------------------------------------
(* Partials and the segments that replace them. *)

\* What PartialsAreReplaced says of any sequence of events.
ReplacedIn(l, i, n) == \E j \in i + 1 .. n : l[j].kind = "segment" /\ l[j].id = l[i].id

Ordered(l) ==
    \A i \in Of(l, {"partial"}) : \A k \in i + 1 .. Len(l) :
        l[k].kind \in {"segment", "partial"} /\ l[k].id # l[i].id => ReplacedIn(l, i, k)

\* The partials a client still shows.
Shown(l) == {i \in Of(l, {"partial"}) : ~ReplacedIn(l, i, Len(l))}

\* An event about the id that is shown, if one is, keeps the order; a segment
\* takes away what is shown.
LEMMA OneMoreShown ==
  ASSUME NEW l \in Seq(Reported), NEW e \in Reported, Ordered(l),
         e.kind \in {"segment", "partial"} => \A i \in Shown(l) : l[i].id = e.id
  PROVE  LET m == Append(l, e)
         IN  /\ Ordered(m)
             /\ \A i \in Shown(m) :
                   \/ i \in Shown(l) /\ m[i] = l[i] /\ e.kind # "segment"
                   \/ i = Len(l) + 1 /\ m[i] = e /\ e.kind = "partial"
<1> DEFINE m == Append(l, e)
           n == Len(l) + 1
<1>1. /\ DOMAIN m = 1..n /\ DOMAIN l = 1..Len(l) /\ Len(l) \in Nat /\ Len(m) = n
      /\ m[n] = e /\ \A i \in 1..Len(l) : m[i] = l[i]
  OBVIOUS
<1> HIDE DEF m
<1>2. \A i \in Of(m, {"partial"}) : \/ i \in Of(l, {"partial"}) /\ i \in 1..Len(l) /\ m[i] = l[i]
                                    \/ i = n /\ e.kind = "partial"
  BY <1>1 DEF Of
<1>3. \A i \in 1..Len(l), k \in 1..Len(l) : ReplacedIn(m, i, k) <=> ReplacedIn(l, i, k)
  BY <1>1 DEF ReplacedIn
<1>4. \A i \in 1..Len(l) : ReplacedIn(l, i, Len(l)) => ReplacedIn(m, i, n)
  BY <1>1 DEF ReplacedIn
<1>5. \A i \in 1..Len(l) : e.kind = "segment" /\ e.id = l[i].id => ReplacedIn(m, i, n)
  BY <1>1 DEF ReplacedIn
<1>6. Ordered(m)
  <2> SUFFICES ASSUME NEW i \in Of(m, {"partial"}), NEW k \in i + 1 .. n,
                      m[k].kind \in {"segment", "partial"}, m[k].id # m[i].id
               PROVE  ReplacedIn(m, i, k)
    BY <1>1 DEF Ordered
  <2>1. i \in Of(l, {"partial"}) /\ i \in 1..Len(l) /\ m[i] = l[i]
    BY <1>1, <1>2
  <2>2. CASE k = n
    <3>1. i \notin Shown(l)
      BY <1>1, <2>1, <2>2
    <3> QED
      BY <1>4, <2>1, <2>2, <3>1 DEF Shown
  <2>3. CASE k # n
    <3>1. k \in 1..Len(l) /\ k \in i + 1 .. Len(l) /\ m[k] = l[k]
      BY <1>1, <2>1, <2>3
    <3> QED
      BY <1>3, <2>1, <3>1 DEF Ordered
  <2> QED
    BY <2>2, <2>3
<1>7. ASSUME NEW i \in Shown(m)
      PROVE  \/ i \in Shown(l) /\ m[i] = l[i] /\ e.kind # "segment"
             \/ i = n /\ m[i] = e /\ e.kind = "partial"
  <2>1. i \in Of(m, {"partial"}) /\ ~ReplacedIn(m, i, n)
    BY <1>1 DEF Shown
  <2>2. CASE i \in Of(l, {"partial"}) /\ i \in 1..Len(l) /\ m[i] = l[i]
    <3>1. i \in Shown(l)
      BY <1>4, <2>1, <2>2 DEF Shown
    <3>2. e.kind # "segment"
      BY <1>5, <2>1, <2>2, <3>1
    <3> QED
      BY <2>2, <3>1, <3>2
  <2> QED
    BY <1>1, <1>2, <2>1, <2>2
<1> QED
  BY <1>6, <1>7 DEF m

\* With the gate on, what is shown is the segment under way: the gate is convinced
\* of it, it was heard, and its buffer is not empty; and nothing is shown any more
\* when the recogniser's end is told.
Voiced == gate /\ hasVoice => bufLen > 0

ShownIsUnderWay ==
    \A i \in Shown(log) : hasVoice /\ sawPartial /\ active /\ seq = log[i].id

\* What is always so of the partials with the gate on.
Replaced ==
    gate => /\ Ordered(log)
            /\ Live => ShownIsUnderWay
            /\ call \in {"ended", "failed"} => Shown(log) = {}

\* The inductive invariant.
PartialsInv == (closed <=> ~Live) /\ Voiced /\ Replaced

\* _emit_buffered_segment(), whatever it forwards, leaves nothing shown.
LEMMA EmittedReplaces ==
  ASSUME Types, LogAdvances, Replaced, gate, Live, NEW s \in Nat, NEW n \in Nat,
         NEW sound \in BOOLEAN, NEW voice \in BOOLEAN, NEW stop \in BOOLEAN,
         hasVoice => voice /\ n > 0
  PROVE  LET l == log \o Emitted(s, n, sound, voice, stop)
         IN  l \in Seq(Reported) /\ Ordered(l) /\ Shown(l) = {}
<1> DEFINE e == SegmentOf(s, n, stop)
<1>0. log \in Seq(Reported) /\ Ordered(log) /\ ShownIsUnderWay
  BY Zenon DEF LogAdvances, Replaced
<1>1. CASE Forwarded(n, sound, voice)
  <2>1. e \in Reported /\ e.kind = "segment" /\ e.id = SegmentId
    BY DEF SegmentOf, Reported, Segments, Types, BufferTypes, SegmentId
  <2>2. log \o Emitted(s, n, sound, voice, stop) = Append(log, e)
    BY <1>0, <1>1, <2>1 DEF Emitted
  <2> HIDE DEF e
  <2>3. \A i \in Shown(log) : log[i].id = e.id
    BY <1>0, <2>1 DEF ShownIsUnderWay, SegmentId
  <2>4. Ordered(Append(log, e)) /\ Shown(Append(log, e)) = {}
    BY <1>0, <2>1, <2>3, OneMoreShown
  <2> QED
    BY <1>0, <2>1, <2>2, <2>4
<1>2. CASE ~Forwarded(n, sound, voice)
  <2>1. log \o Emitted(s, n, sound, voice, stop) = log
    BY <1>0, <1>2 DEF Emitted
  <2>2. Shown(log) = {}
    BY <1>0, <1>2, Zenon DEF ShownIsUnderWay, Forwarded
  <2> QED
    BY <1>0, <2>1, <2>2
<1> QED
  BY <1>1, <1>2

\* Nothing is shown, so it does not matter what is under way.
LEMMA NothingShown ==
  ASSUME gate' = gate, gate => Ordered(log') /\ Shown(log') = {}
  PROVE  Replaced'
  BY Zenon DEF Replaced, ShownIsUnderWay

\* An action that puts no event and forgets nothing of the segment under way.
LEMMA NothingPut ==
  ASSUME Replaced, log' = log, gate' = gate, seq' = seq, active' = active,
         sawPartial' = sawPartial, hasVoice => hasVoice',
         Live' => Live, call' \in {"ended", "failed"} => call' = call
  PROVE  Replaced'
  BY Zenon DEF Replaced, ShownIsUnderWay

\* A new buffer: the gate starts over.
LEMMA ResetVoiced == ASSUME ResetBuffer(total'), gate' = gate PROVE Voiced'
  BY Zenon DEF ResetBuffer, Voiced

LEMMA FeedReplaces ==
  ASSUME Types, LogAdvances, PartialsInv, NEW n \in Chunks, NEW isLoud \in BOOLEAN,
         NEW isVoice \in BOOLEAN, Feed(n, isLoud, isVoice)
  PROVE  PartialsInv'
<1>0. /\ n \in Nat \ {0} /\ IdleKeep \in Nat
  BY K2Assumption DEF K2Assumption
<1>1. /\ UNCHANGED <<closed, call, gate>> /\ ~closed
      /\ \/ Overflows(n, isLoud, isVoice)
         \/ Buffers(n, isLoud, isVoice) \/ CutsAt(n, isLoud, isVoice)
  <2>1. n \in Nat
    BY <1>0
  <2> QED
    BY <2>1, FeedCases, Zenon DEF Feed
<1>2. Live /\ (closed <=> ~Live)'
  BY <1>1, Zenon DEF PartialsInv, Live
<1>3. Size(n) > 0 /\ Kept(n, isLoud) > 0 /\ Kept(n, isLoud) \in Nat /\ Start(n, isLoud) \in Nat
  <2>1. bufLen \in Nat /\ Size(n) \in Nat \ {0}
    BY <1>0 DEF Types, BufferTypes, Size
  <2>2. Kept(n, isLoud) > 0
    BY <1>0, <2>1 DEF Kept, Trimmed
  <2> QED
    BY <1>0, <2>1, <2>2, FeedNumbers
<1>4. hasVoice => Convinced(isVoice)
  BY Zenon DEF Convinced
<1>5. CASE Overflows(n, isLoud, isVoice) \/ Buffers(n, isLoud, isVoice)
  <2>1. Replaced'
    BY <1>1, <1>2, <1>4, <1>5, NothingPut, Zenon DEF Overflows, Buffers, output, PartialsInv, Live
  <2>2. Voiced'
    <3>1. bufLen' = Size(n) \/ bufLen' = Kept(n, isLoud)
      BY <1>5, Zenon DEF Overflows, Buffers
    <3> QED
      BY <1>3, <3>1 DEF Voiced
  <2> QED
    BY <1>2, <2>1, <2>2 DEF PartialsInv
<1>6. CASE CutsAt(n, isLoud, isVoice)
  <2>1. PICK sound \in BOOLEAN :
          log' = log \o Emitted(Start(n, isLoud), Kept(n, isLoud), sound, Convinced(isVoice), FALSE)
    BY <1>6, Zenon DEF CutsAt, Put
  <2>2. Convinced(isVoice) \in BOOLEAN
    BY Zenon DEF Convinced
  <2>3. gate => Ordered(log') /\ Shown(log') = {}
    <3> SUFFICES ASSUME gate PROVE Ordered(log') /\ Shown(log') = {}
      OBVIOUS
    <3>1. hasVoice => Convinced(isVoice) /\ Kept(n, isLoud) > 0
      BY <1>3, <1>4
    <3> HIDE DEF Convinced, Kept, Start
    <3> QED
      BY <1>2, <1>3, <2>1, <2>2, <3>1, EmittedReplaces, Zenon DEF PartialsInv
  <2>4. Replaced'
    BY <1>1, <2>3, NothingShown, Zenon
  <2>5. ResetBuffer(total')
    BY <1>6, Zenon DEF CutsAt, ResetBuffer
  <2> QED
    BY <1>1, <1>2, <2>4, <2>5, ResetVoiced, Zenon DEF PartialsInv
<1> QED
  BY <1>1, <1>5, <1>6

LEMMA Single == ASSUME NEW S, NEW x \in S PROVE <<x>> \in Seq(S) /\ <<>> \in Seq(S)
  OBVIOUS

LEMMA AppendsLast ==
  ASSUME NEW S, NEW l \in Seq(S), NEW b \in Seq(S), NEW e \in S
  PROVE  l \o Append(b, e) = Append(l \o b, e)
<1> DEFINE m == l \o Append(b, e)
           r == Append(l \o b, e)
<1>1. /\ m \in Seq(S) /\ Len(m) = Len(l) + Len(b) + 1
      /\ r \in Seq(S) /\ Len(r) = Len(l) + Len(b) + 1
  OBVIOUS
<1>2. ASSUME NEW i \in 1..Len(l) + Len(b) + 1 PROVE m[i] = r[i]
  OBVIOUS
<1> HIDE DEF m, r
<1> QED
  BY <1>1, <1>2

LEMMA NextReplaces == Types /\ LogAdvances /\ PartialsInv /\ [Next]_vars => PartialsInv'
<1> SUFFICES ASSUME Types, LogAdvances, PartialsInv, [Next]_vars PROVE PartialsInv'
  OBVIOUS
<1>0. /\ log \in Seq(Reported) /\ gate \in BOOLEAN /\ closing \in BOOLEAN /\ hasVoice \in BOOLEAN
  BY Zenon DEF LogAdvances, Types, FlagTypes
<1>1. CASE \E n \in Chunks, isLoud, isVoice \in BOOLEAN :
             total + n <= MaxSamples /\ Feed(n, isLoud, isVoice)
  BY <1>1, FeedReplaces
<1>2. CASE EndInput \/ FlushClosed \/ BeginFlush \/ FlushEos \/ FlushSentinel
           \/ AcloseSentinel \/ TakeRequest \/ HalfClose \/ Dispatch \/ Cleanup \/ UNCHANGED vars
  <2>1. /\ log' = log /\ gate' = gate /\ UNCHANGED buffer /\ closed' = closed
        /\ call' = call \/ (call = "live" /\ call' = "half")
    BY <1>2, Zenon
       DEF EndInput, FlushClosed, BeginFlush, FlushEos, FlushSentinel, AcloseSentinel, PutRequest,
           TakeRequest, HalfClose, Dispatch, Cleanup, output, vars
  <2>2. /\ UNCHANGED <<bufLen, seq, active, sawPartial, hasVoice>>
    BY <2>1, Zenon DEF buffer
  <2>3. (Live' <=> Live) /\ (call' \in {"ended", "failed"} => call' = call)
    BY <2>1 DEF Live
  <2>4. Replaced'
    BY <2>1, <2>2, <2>3, NothingPut, Zenon DEF PartialsInv
  <2> QED
    BY <2>1, <2>2, <2>3, <2>4, Zenon DEF PartialsInv, Voiced
<1>3. CASE ReceivePartial
  <2>1. /\ UNCHANGED <<closed, call, gate, bufLen, hasVoice>> /\ sawPartial' = TRUE /\ Live
    BY <1>3, Zenon DEF ReceivePartial
  <2>2. Voiced' /\ (closed <=> ~Live)'
    BY <2>1, Zenon DEF PartialsInv, Voiced, Live
  <2>3. CASE log' = log /\ UNCHANGED <<seq, active>>
    BY <2>1, <2>2, <2>3, Zenon DEF PartialsInv, Replaced, ShownIsUnderWay, Live
  <2>4. CASE hasVoice /\ log' = log \o <<[kind |-> "partial", id |-> SegmentId]>>
             /\ seq' = SegmentId /\ active' = TRUE
    <3> DEFINE e == [kind |-> "partial", id |-> SegmentId]
    <3>1. e \in Reported /\ e.kind = "partial" /\ e.id = SegmentId
      BY DEF Reported, Partials, SegmentId, Types, BufferTypes
    <3>2. log' = Append(log, e)
      BY <1>0, <2>4, <3>1
    <3> HIDE DEF e
    <3> SUFFICES ASSUME gate PROVE Replaced'
      BY <2>1, <2>2, Zenon DEF PartialsInv, Replaced
    <3>3. Ordered(log) /\ ShownIsUnderWay
      BY <2>1, Zenon DEF PartialsInv, Replaced
    <3>4. \A i \in Shown(log) : log[i].id = e.id
      BY <3>1, <3>3 DEF ShownIsUnderWay, SegmentId
    <3>5. /\ Ordered(log')
          /\ \A i \in Shown(log') : \/ i \in Shown(log) /\ log'[i] = log[i]
                                    \/ log'[i] = e
      BY <1>0, <3>1, <3>2, <3>3, <3>4, OneMoreShown, Zenon
    <3>6. \A i \in Shown(log') : log'[i].id = SegmentId
      BY <3>1, <3>4, <3>5
    <3>7. ShownIsUnderWay'
      BY <2>1, <2>4, <3>6, Zenon DEF ShownIsUnderWay
    <3>8. ~(call' \in {"ended", "failed"})
      BY <2>1 DEF Live
    <3> QED
      BY <3>5, <3>7, <3>8, Zenon DEF Replaced
  <2>5. CASE ~hasVoice /\ log' = log \o <<>> /\ seq' = SegmentId /\ active' = TRUE
    <3>1. log' = log
      BY <1>0, <2>5
    <3>2. gate => Ordered(log) /\ Shown(log) = {}
      BY <2>1, <2>5, Zenon DEF PartialsInv, Replaced, ShownIsUnderWay
    <3> QED
      BY <2>1, <2>2, <3>1, <3>2, NothingShown, Zenon DEF PartialsInv
  <2> QED
    BY <1>0, <1>3, <2>3, <2>4, <2>5, Zenon DEF ReceivePartial, Put, output
<1>4. ASSUME NEW stop \in BOOLEAN, NEW sound \in BOOLEAN, Live
      PROVE  gate => LET l == log \o Buffered(sound, stop)
                     IN  l \in Seq(Reported) /\ Ordered(l) /\ Shown(l) = {}
  <2> SUFFICES ASSUME gate
               PROVE  LET l == log \o Buffered(sound, stop)
                      IN  l \in Seq(Reported) /\ Ordered(l) /\ Shown(l) = {}
    OBVIOUS
  <2>1. bufStart \in Nat /\ bufLen \in Nat
    BY DEF Types, BufferTypes
  <2>2. hasVoice => bufLen > 0
    BY Zenon DEF PartialsInv, Voiced
  <2> QED
    BY <1>0, <1>4, <2>1, <2>2, EmittedReplaces, Zenon DEF Buffered, PartialsInv
<1>5. CASE ReceiveEndpoint
  <2>1. Live /\ UNCHANGED <<closed, call, gate>> /\ ResetBuffer(total)
    BY <1>5, Zenon DEF ReceiveEndpoint
  <2>2. gate => Ordered(log') /\ Shown(log') = {}
    BY <1>0, <1>4, <1>5, Zenon DEF ReceiveEndpoint, Put
  <2>3. ResetBuffer(total')
    BY <2>1, Zenon DEF ResetBuffer
  <2> QED
    BY <2>1, <2>2, <2>3, NothingShown, ResetVoiced, Zenon DEF PartialsInv, Live
<1>6. CASE ReceiveEnd
  <2>0. Live /\ gate' = gate /\ closed' = TRUE /\ ~Live'
    BY <1>6 DEF ReceiveEnd, Live
  <2>1. CASE call' = "finished" /\ log' = log \o <<>> /\ UNCHANGED buffer
    <3>1. log' = log /\ ~(call' \in {"ended", "failed"})
      BY <1>0, <2>1
    <3>2. Replaced' /\ Voiced'
      BY <2>0, <2>1, <3>1, Zenon DEF PartialsInv, Replaced, Voiced, buffer
    <3> QED
      BY <2>0, <3>2 DEF PartialsInv
  <2>2. ASSUME NEW sound \in BOOLEAN, ResetBuffer(total),
               \/ log' = log \o Buffered(sound, TRUE)
               \/ log' = log \o Append(Buffered(sound, TRUE), [kind |-> "exception"])
        PROVE  PartialsInv'
    <3> DEFINE l == log \o Buffered(sound, TRUE)
               e == [kind |-> "exception"]
    <3>1. gate => l \in Seq(Reported) /\ Ordered(l) /\ Shown(l) = {}
      BY <1>4, <2>0
    <3>2. e \in Reported /\ e.kind = "exception"
      BY DEF Reported
    <3>3. Buffered(sound, TRUE) \in Seq(Reported)
      <4>1. SegmentOf(bufStart, bufLen, TRUE) \in Reported
        BY DEF SegmentOf, Reported, Segments, Types, BufferTypes, SegmentId
      <4>2. <<SegmentOf(bufStart, bufLen, TRUE)>> \in Seq(Reported) /\ <<>> \in Seq(Reported)
        BY <4>1, Single, Zenon
      <4> QED
        BY <4>2, Zenon DEF Buffered, Emitted
    <3>7. \/ log' = l
          \/ log' = log \o Append(Buffered(sound, TRUE), e)
      BY <2>2
    <3> HIDE DEF e
    <3>8. log \o Append(Buffered(sound, TRUE), e) = Append(log \o Buffered(sound, TRUE), e)
      <4> DEFINE b == Buffered(sound, TRUE)
      <4> HIDE DEF b, Reported
      <4>1. log \in Seq(Reported) /\ b \in Seq(Reported) /\ e \in Reported
        BY <1>0, <3>2, <3>3 DEF b
      <4>2. log \o Append(b, e) = Append(log \o b, e)
        BY <4>1, AppendsLast
      <4> QED
        BY <4>2 DEF b
    <3>4. log' = l \/ log' = Append(l, e)
      BY <3>7, <3>8
    <3> HIDE DEF l
    <3>5. gate => Ordered(log') /\ Shown(log') = {}
      <4>1. CASE log' = l
        BY <3>1, <4>1, Zenon
      <4>2. CASE log' = Append(l, e)
        BY <3>1, <3>2, <4>2, OneMoreShown
      <4> QED
        BY <3>4, <4>1, <4>2
    <3>6. ResetBuffer(total')
      BY <2>2, Zenon DEF ResetBuffer
    <3> QED
      BY <2>0, <3>5, <3>6, NothingShown, ResetVoiced, Zenon DEF PartialsInv
  <2> QED
    BY <1>6, <2>1, <2>2, Zenon DEF ReceiveEnd, PutEnd
<1>7. CASE AcloseCancel
  <2>1. /\ log' = log \/ log' = log \o <<>>
        /\ gate' = gate /\ UNCHANGED buffer /\ closed' = TRUE
        /\ (closed /\ call' = call) \/ call' = "cancelled"
    BY <1>7, Zenon DEF AcloseCancel, PutEnd, output
  <2>2. log' = log /\ UNCHANGED <<bufLen, seq, active, sawPartial, hasVoice>>
    BY <1>0, <2>1 DEF buffer
  <2>3. ~Live' /\ (call' \in {"ended", "failed"} => call' = call)
    BY <2>1 DEF PartialsInv, Live
  <2> QED
    BY <2>1, <2>2, <2>3, NothingPut, Zenon DEF PartialsInv, Voiced
<1> QED
  BY <1>1, <1>2, <1>3, <1>5, <1>6, <1>7, Zenon DEF Next

\* For every capacity of the request queue, every cap on a segment and any audio:
\* with the voice gate on, an id that was shown gets its segment before another id
\* is used and before the recogniser's end is told, and until then its segment is
\* under way (k2_stream.py:252-345).
THEOREM ShownIsReplaced == Spec => []PartialsAreReplaced
<1>1. Init => PartialsInv /\ LogAdvances
  <2> SUFFICES ASSUME Init PROVE PartialsInv /\ LogAdvances
    OBVIOUS
  <2>1. /\ log = <<>> /\ closed = FALSE /\ call = "live" /\ gate \in BOOLEAN /\ hasVoice = ~gate
    BY Zenon DEF Init
  <2>2. LogAdvances
    BY <2>1 DEF LogAdvances, Advances, Before, Of
  <2>3. Ordered(<<>>) /\ Shown(<<>>) = {}
    BY DEF Ordered, Shown, Of
  <2>4. Replaced
    BY <2>1, <2>3, Zenon DEF Replaced, ShownIsUnderWay
  <2>5. Live
    BY <2>1 DEF Live
  <2> QED
    BY <2>1, <2>2, <2>4, <2>5, Zenon DEF PartialsInv, Voiced
<1>2. Spec => [](Types /\ LogAdvances /\ PartialsInv)
  BY <1>1, InitTypes, NextTypes, NextAdvances, NextReplaces, PTL DEF Spec
<1>3. Types /\ LogAdvances /\ PartialsInv => PartialsAreReplaced
  <2> SUFFICES ASSUME LogAdvances, PartialsInv, gate, NEW i \in DOMAIN log, log[i].kind = "partial"
               PROVE  LET replaced(n) == \E j \in i + 1 .. n :
                                             log[j].kind = "segment" /\ log[j].id = log[i].id
                      IN  /\ \A k \in i + 1 .. Len(log) :
                                log[k].kind \in {"segment", "partial"} /\ log[k].id # log[i].id =>
                                    replaced(k)
                          /\ call \in {"ended", "failed"} => replaced(Len(log))
                          /\ Live => replaced(Len(log)) \/ (bufLen > 0 /\ active /\ seq = log[i].id)
    BY Zenon DEF PartialsAreReplaced
  <2>1. i \in Of(log, {"partial"})
    BY DEF Of
  <2>2. i \in Shown(log) <=> ~ReplacedIn(log, i, Len(log))
    BY <2>1, Zenon DEF Shown
  <2>3. Live /\ i \in Shown(log) => bufLen > 0 /\ active /\ seq = log[i].id
    BY Zenon DEF PartialsInv, Voiced, Replaced, ShownIsUnderWay
  <2>4. call \in {"ended", "failed"} => i \notin Shown(log)
    BY DEF PartialsInv, Replaced
  <2>5. \A k \in i + 1 .. Len(log) :
           log[k].kind \in {"segment", "partial"} /\ log[k].id # log[i].id => ReplacedIn(log, i, k)
    BY <2>1, Zenon DEF PartialsInv, Replaced, Ordered
  <2> QED
    BY <2>2, <2>3, <2>4, <2>5, Zenon DEF ReplacedIn
<1> QED
  BY <1>2, <1>3, PTL
===============================================================================
