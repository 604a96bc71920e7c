---------------------------- MODULE VadStreamProofs ----------------------------
(***************************************************************************)
(* Theorems about VadStream, for every setting of the VAD, every way the   *)
(* audio is cut into feeds and every judgement of its frames.              *)
(***************************************************************************)
EXTENDS VadStream, SequenceTheorems, TLAPS

\* What Open says of any sequence of events.
OpenIn(l, n) ==
    \E i \in 1 .. n : l[i].kind = "started" /\ \A j \in i + 1 .. n : l[j].kind = "partial"

Alternates(l) == \A i \in 1 .. Len(l) : OpenIn(l, i - 1) = (l[i].kind # "started")

LEMMA SameUpTo ==
  ASSUME NEW S, NEW l \in Seq(S), NEW e, NEW n \in 0 .. Len(l)
  PROVE  OpenIn(Append(l, e), n) = OpenIn(l, n)
  BY DEF OpenIn

\* An event that fits what is open: a start when nothing is, any other one else.
LEMMA OneMoreEvent ==
  ASSUME NEW S, NEW l \in Seq(S), NEW e, Alternates(l),
         OpenIn(l, Len(l)) <=> e.kind # "started"
  PROVE  /\ Alternates(Append(l, e))
         /\ Append(l, e) \in Seq(S \cup {e})
         /\ OpenIn(Append(l, e), Len(Append(l, e))) <=>
               e.kind = "started" \/ (e.kind = "partial" /\ OpenIn(l, Len(l)))
<1> DEFINE m == Append(l, e)
           n == Len(l)
<1>1. /\ Len(l) \in Nat /\ Len(m) = n + 1 /\ m[n + 1] = e /\ \A i \in 1..n : m[i] = l[i]
      /\ m \in Seq(S \cup {e})
  OBVIOUS
<1>2. \A k \in 0..n : OpenIn(m, k) = OpenIn(l, k)
  BY SameUpTo
<1>3. Alternates(m)
  <2> SUFFICES ASSUME NEW i \in 1..n + 1 PROVE OpenIn(m, i - 1) = (m[i].kind # "started")
    BY <1>1 DEF Alternates
  <2>1. CASE i = n + 1
    <3>1. m[i] = e /\ i - 1 = n /\ n \in 0..n
      BY <2>1, <1>1
    <3>2. OpenIn(m, i - 1) <=> OpenIn(l, n)
      BY <3>1, <1>2, Zenon
    <3> QED
      BY <3>1, <3>2, Zenon DEF OpenIn
  <2>2. CASE i \in 1..n
    BY <2>2, <1>1, <1>2 DEF Alternates
  <2> QED
    BY <1>1, <2>1, <2>2
<1>4. e.kind = "started" => OpenIn(m, n + 1)
  BY <1>1 DEF OpenIn
<1>5. e.kind = "partial" /\ OpenIn(l, n) => OpenIn(m, n + 1)
  BY <1>1 DEF OpenIn
<1>6. OpenIn(m, n + 1) => e.kind = "started" \/ (e.kind = "partial" /\ OpenIn(l, n))
  BY <1>1 DEF OpenIn
<1> QED
  BY <1>1, <1>3, <1>4, <1>5, <1>6
-----------------------------------------------------------------------------
(* The VAD and the log. *)

\* The judgements, and the shape of the utterance: it is announced exactly while
\* it is open, and holds a frame then.
Announces ==
    /\ isSpeaking \in BOOLEAN /\ announced = isSpeaking
    /\ \E S : preSpeech \in Seq(S)
    /\ \E S : audio \in Seq(S)
    /\ isSpeaking => audio # <<>>

LogAlternates ==
    /\ \E S : log \in Seq(S)
    /\ Alternates(log) /\ (isSpeaking <=> OpenIn(log, Len(log)))

Inv == Announces /\ LogAlternates

LEMMA InitInv == Init => Inv
<1> SUFFICES ASSUME Init PROVE Inv
  OBVIOUS
<1>1. /\ preSpeech = <<>> /\ audio = <<>> /\ log = <<>>
      /\ isSpeaking = FALSE /\ announced = FALSE
  BY Zenon DEF Init
<1>2. <<>> \in Seq({}) /\ Alternates(<<>>) /\ ~OpenIn(<<>>, Len(<<>>))
  BY DEF Alternates, OpenIn
<1> QED
  BY <1>1, <1>2, Zenon DEF Inv, Announces, LogAlternates

\* What one more event does to the invariant of the log.
LEMMA Logs ==
  ASSUME LogAlternates, isSpeaking \in BOOLEAN, isSpeaking' \in BOOLEAN, NEW e,
         log' = Append(log, e),
         isSpeaking <=> e.kind # "started",
         isSpeaking' <=> e.kind = "started" \/ (e.kind = "partial" /\ isSpeaking)
  PROVE  LogAlternates'
<1>1. PICK S : log \in Seq(S)
  BY DEF LogAlternates
<1>2. Alternates(log) /\ (isSpeaking <=> OpenIn(log, Len(log)))
  BY DEF LogAlternates
<1>3. /\ Alternates(Append(log, e)) /\ Append(log, e) \in Seq(S \cup {e})
      /\ OpenIn(Append(log, e), Len(Append(log, e))) <=>
            e.kind = "started" \/ (e.kind = "partial" /\ OpenIn(log, Len(log)))
  BY <1>1, <1>2, OneMoreEvent, Zenon
<1> QED
  BY <1>2, <1>3, Zenon DEF LogAlternates

LEMMA LogKept ==
  ASSUME LogAlternates, log' = log, isSpeaking' = isSpeaking
  PROVE  LogAlternates'
  BY Zenon DEF LogAlternates

LEMMA Appended ==
  ASSUME NEW S, NEW s \in Seq(S), NEW x
  PROVE  /\ Append(s, x) # <<>>
         /\ \E T : Append(s, x) \in Seq(T)
<1>1. Append(s, x) \in Seq(S \cup {x}) /\ Append(s, x) # <<>>
  OBVIOUS
<1> QED
  BY <1>1, Zenon

LEMMA PreRollOpens ==
  ASSUME Announces
  PROVE  /\ \E T : PreRoll \in Seq(T)
         /\ \E T : audio \o PreRoll \in Seq(T)
         /\ PreRoll # <<>> /\ audio \o PreRoll # <<>>
<1>1. PICK S : preSpeech \in Seq(S)
  BY DEF Announces
<1>2. PICK R : audio \in Seq(R)
  BY DEF Announces
<1> DEFINE q == Append(preSpeech, Frame)
<1>3. q \in Seq(S \cup {Frame}) /\ Len(q) \in Nat \ {0} /\ q # <<>>
  BY <1>1
<1>4. PreRoll \in Seq(S \cup {Frame}) /\ Len(PreRoll) > 0
  <2>1. CASE Len(q) > PreSpeechFrames
    <3>1. Len(q) > 1
      BY <2>1, <1>3, VadAssumption DEF VadAssumption
    <3>2. PreRoll = Tail(q)
      BY <2>1 DEF PreRoll
    <3> HIDE DEF q
    <3> QED
      BY <3>1, <3>2, <1>3
  <2>2. CASE ~(Len(q) > PreSpeechFrames)
    BY <2>2, <1>3 DEF PreRoll
  <2> QED
    BY <2>1, <2>2
<1>5. PreRoll \in Seq(S \cup {Frame} \cup R) /\ audio \in Seq(S \cup {Frame} \cup R)
  BY <1>2, <1>4
<1>6. audio \o PreRoll \in Seq(S \cup {Frame} \cup R) /\ Len(audio \o PreRoll) > 0
  BY <1>4, <1>5
<1> QED
  BY <1>4, <1>6

LEMMA ListenAnnounces ==
  ASSUME Inv, NEW isSpeech \in BOOLEAN, Listen(isSpeech)
  PROVE  Inv'
<1>1. CASE UNCHANGED <<audio, isSpeaking, silentCount, announced, log>> /\ preSpeech' = PreRoll
  BY <1>1, PreRollOpens, LogKept, Zenon DEF Inv, Announces
<1>2. CASE /\ isSpeaking' = TRUE /\ audio' = audio \o PreRoll /\ preSpeech' = <<>>
           /\ announced' = TRUE /\ log' = IF announced THEN log ELSE Append(log, Started)
  <2>1. ~isSpeaking /\ ~announced
    BY Zenon DEF Listen, Inv, Announces
  <2>2. log' = Append(log, Started) /\ Started.kind = "started"
    BY <1>2, <2>1 DEF Started
  <2>3. LogAlternates'
    BY <1>2, <2>1, <2>2, Logs, Zenon DEF Inv, Announces
  <2>4. <<>> \in Seq({})
    OBVIOUS
  <2> QED
    BY <1>2, <2>3, <2>4, PreRollOpens, Zenon DEF Inv, Announces
<1> QED
  BY <1>1, <1>2, Zenon DEF Listen

LEMMA HearAnnounces ==
  ASSUME Inv, NEW isSpeech \in BOOLEAN, Hear(isSpeech)
  PROVE  Inv'
<1>1. audio' # <<>> /\ \E T : audio' \in Seq(T)
  BY Appended, Zenon DEF Hear, Inv, Announces
<1> QED
  BY <1>1, LogKept, Zenon DEF Hear, Inv, Announces

\* An open utterance ends in a segment or is taken back.
LEMMA ClosesAnnounces ==
  ASSUME NEW e, Inv, ResetVad, announced' = FALSE, e.kind \in {"segment", "dropped"},
         (isSpeaking /\ log' = Append(log, e)) \/ (~isSpeaking /\ log' = log)
  PROVE  Inv'
<1>1. e.kind # "started" /\ e.kind # "partial"
  OBVIOUS
<1>2. LogAlternates'
  BY <1>1, Logs, LogKept, Zenon DEF Inv, Announces, ResetVad
<1>3. <<>> \in Seq({})
  OBVIOUS
<1> QED
  BY <1>2, <1>3, Zenon DEF Inv, Announces, ResetVad

LEMMA CutAnnounces ==
  ASSUME Inv, NEW isSpeech \in BOOLEAN, Cut(isSpeech)
  PROVE  Inv'
<1> DEFINE segment == TrimTail(Append(audio, Frame))
           end == consumed + offset + Hop
<1>1. /\ Segment(segment, end).kind \in {"segment", "dropped"}
      /\ Dropped(segment).kind \in {"segment", "dropped"}
  BY DEF Segment, Dropped
<1>2. isSpeaking /\ announced
  BY Zenon DEF Cut, Inv, Announces
<1>3. PICK e : e \in {Segment(segment, end), Dropped(segment)} /\ log' = Append(log, e)
  BY <1>2, Zenon DEF Cut, Finalized
<1> HIDE DEF segment, end
<1>4. e.kind \in {"segment", "dropped"}
  BY <1>1, <1>3
<1>5. ResetVad /\ announced' = FALSE
  BY Zenon DEF Cut
<1> QED
  BY <1>2, <1>3, <1>4, <1>5, ClosesAnnounces

LEMMA FlushAnnounces ==
  ASSUME Inv, NEW next, Flush(next)
  PROVE  Inv'
<1>1. Segment(audio, consumed).kind \in {"segment", "dropped"}
  BY DEF Segment
<1>2. \/ isSpeaking /\ log' = Append(log, Segment(audio, consumed))
      \/ ~isSpeaking /\ log' = log
  <2>1. CASE isSpeaking
    <3>1. audio # <<>>
      BY <2>1, Zenon DEF Inv, Announces
    <3> QED
      BY <2>1, <3>1, Zenon DEF Flush
  <2>2. CASE ~isSpeaking
    <3>1. ~announced
      BY <2>2, Zenon DEF Inv, Announces
    <3> QED
      BY <2>2, <3>1, Zenon DEF Flush
  <2> QED
    BY <2>1, <2>2
<1>3. ResetVad /\ announced' = FALSE
  BY Zenon DEF Flush
<1>4. PICK e : e = Segment(audio, consumed)
  OBVIOUS
<1> QED
  BY <1>1, <1>2, <1>3, <1>4, ClosesAnnounces

LEMMA NextInv == Inv /\ [Next]_vars => Inv'
<1> SUFFICES ASSUME Inv, [Next]_vars PROVE Inv'
  OBVIOUS
<1>1. CASE \E n \in FeedSizes : Feed(n)
  <2>1. UNCHANGED <<preSpeech, audio, isSpeaking, announced, log>>
    BY <1>1, Zenon DEF Feed, vad
  <2>2. Announces'
    BY <2>1, Zenon DEF Inv, Announces
  <2>3. LogAlternates'
    BY <2>1, LogKept, Zenon DEF Inv
  <2> QED
    BY <2>2, <2>3 DEF Inv
<1>2. CASE \E isSpeech \in BOOLEAN : Process(isSpeech)
  BY <1>2, ListenAnnounces, HearAnnounces, CutAnnounces, Zenon DEF Process
<1>3. CASE \E partial \in BOOLEAN : EndFeed(partial)
  <2>1. PICK partial \in BOOLEAN : EndFeed(partial)
    BY <1>3
  <2>2. Announces'
    BY <2>1, Zenon DEF EndFeed, Inv, Announces, vad
  <2>3. Partial(audio).kind = "partial"
    BY DEF Partial
  <2>4. LogAlternates'
    <3>1. CASE partial
      <4>1. isSpeaking /\ log' = Append(log, Partial(audio)) /\ isSpeaking' = isSpeaking
        BY <2>1, <3>1, Zenon DEF EndFeed, vad
      <4>2. Partial(audio).kind # "started"
        BY <2>3
      <4> QED
        BY <2>3, <4>1, <4>2, Logs, Zenon DEF Inv, Announces
    <3>2. CASE ~partial
      BY <2>1, <3>2, LogKept, Zenon DEF EndFeed, Inv, vad
    <3> QED
      BY <3>1, <3>2
  <2> QED
    BY <2>2, <2>4 DEF Inv
<1>4. CASE ForceCut \/ Stop
  BY <1>4, FlushAnnounces, Zenon DEF ForceCut, Stop
<1>5. CASE UNCHANGED vars
  BY <1>5, LogKept, Zenon DEF vars, vad, Inv, Announces
<1> QED
  BY <1>1, <1>2, <1>3, <1>4, <1>5, Zenon DEF Next

\* For every setting of the VAD, a client that shows a placeholder on a start and
\* takes it away on a segment or a drop never gets out of step, through feeds of
\* any size, forced cuts and the stop (audio_stream.py:152-240).
THEOREM StartsAreAnswered == Spec => []AnnouncementsPaired
<1>1. Spec => []Inv
  BY InitInv, NextInv, PTL DEF Spec
<1>2. Inv => AnnouncementsPaired
  <2> SUFFICES ASSUME Inv PROVE AnnouncementsPaired
    OBVIOUS
  <2>1. \A n : Open(n) <=> OpenIn(log, n)
    BY Zenon DEF Open, OpenIn
  <2>2. isSpeaking = Open(Len(log))
    BY <2>1, Zenon DEF Inv, Announces, LogAlternates, Open
  <2>3. \A i \in 1 .. Len(log) : Open(i - 1) = (log[i].kind # "started")
    BY <2>1, Zenon DEF Inv, LogAlternates, Alternates, Open, OpenIn
  <2> QED
    BY <2>2, <2>3 DEF AnnouncementsPaired
<1> QED
  BY <1>1, <1>2, PTL
-----------------------------------------------------------------------------
(* The types.  What the loop of feed() has done and has to do are whole hops. *)

Hops(n) == \E k \in Nat : n = k * Hop

FeedTypes ==
    /\ carry \in Nat /\ consumed \in Nat /\ offset \in Nat /\ used \in Nat
    /\ carry < Hop /\ offset <= used /\ Hops(offset) /\ Hops(used)
    /\ phase \in {"idle", "feeding", "stopped"}

FlagTypes == offline \in BOOLEAN /\ isSpeaking \in BOOLEAN /\ announced \in BOOLEAN

FrameTypes ==
    /\ Len(flags) \in Nat
    /\ preSpeech \in Frames /\ audio \in Frames /\ Len(preSpeech) <= PreSpeechFrames

CountTypes == speechCount \in Nat /\ silentCount \in Nat

Types == FeedTypes /\ FlagTypes /\ (\E S : flags \in Seq(S)) /\ FrameTypes /\ CountTypes

LEMMA Settings == Hop \in Nat \ {0} /\ PreSpeechFrames \in Nat \ {0} /\ FeedSizes \subseteq Nat
  BY VadAssumption DEF VadAssumption

LEMMA WholeHops ==
  ASSUME NEW a \in Nat
  PROVE  /\ (a \div Hop) * Hop \in Nat /\ Hops((a \div Hop) * Hop)
         /\ a - (a \div Hop) * Hop \in Nat /\ a - (a \div Hop) * Hop < Hop
<1>1. /\ (a \div Hop) \in Nat /\ (a \div Hop) * Hop <= a /\ a - (a \div Hop) * Hop < Hop
  BY Settings
<1>2. (a \div Hop) * Hop \in Nat
  BY <1>1, Settings
<1> QED
  BY <1>1, <1>2 DEF Hops

LEMMA OneMoreHop ==
  ASSUME NEW m \in Nat, NEW n \in Nat, Hops(m), Hops(n), m < n
  PROVE  m + Hop \in Nat /\ Hops(m + Hop) /\ m + Hop <= n
<1>1. PICK k \in Nat : m = k * Hop
  BY DEF Hops
<1>2. PICK j \in Nat : n = j * Hop
  BY DEF Hops
<1>3. (k + 1) * Hop <= j * Hop /\ (k + 1) * Hop = m + Hop /\ k + 1 \in Nat
  BY <1>1, <1>2, Settings
<1> QED
  BY <1>2, <1>3, Settings DEF Hops

LEMMA InitTypes == Init => Types
<1> SUFFICES ASSUME Init PROVE Types
  OBVIOUS
<1>1. FeedTypes /\ CountTypes
  <2>1. /\ carry = 0 /\ consumed = 0 /\ offset = 0 /\ used = 0 /\ phase = "idle"
        /\ speechCount = 0 /\ silentCount = 0
    BY Zenon DEF Init
  <2>2. 0 = 0 * Hop
    BY Settings
  <2> QED
    BY <2>1, <2>2, Settings DEF FeedTypes, CountTypes, Hops
<1>2. FlagTypes
  BY Zenon DEF Init, FlagTypes
<1>3. FrameTypes /\ flags \in Seq({})
  <2>1. flags = <<>> /\ preSpeech = <<>> /\ audio = <<>>
    BY Zenon DEF Init
  <2> QED
    BY <2>1, Settings DEF FrameTypes, Frames
<1> QED
  BY <1>1, <1>2, <1>3, Zenon DEF Types

LEMMA EmptyFrames == <<>> \in Frames /\ Len(<<>>) <= PreSpeechFrames
  BY Settings DEF Frames

LEMMA ResetTypes ==
  ASSUME ResetVad
  PROVE  /\ preSpeech' \in Frames /\ audio' \in Frames /\ Len(preSpeech') <= PreSpeechFrames
         /\ CountTypes' /\ isSpeaking' \in BOOLEAN
<1>1. /\ preSpeech' = <<>> /\ audio' = <<>> /\ speechCount' = 0 /\ silentCount' = 0
      /\ isSpeaking' = FALSE
  BY Zenon DEF ResetVad
<1> QED
  BY <1>1, EmptyFrames DEF CountTypes

\* One frame through the VAD.
LEMMA ProcessTypes ==
  ASSUME Types, NEW isSpeech \in BOOLEAN, Process(isSpeech)
  PROVE  Types'
<1>1. Frame \in Nat \ {0}
  BY DEF Types, FrameTypes, Frame
<1>2. FeedTypes'
  <2>1. /\ offset < used /\ offset' = offset + Hop
        /\ carry' = carry /\ consumed' = consumed /\ used' = used /\ phase' = phase
    BY Zenon DEF Process
  <2> QED
    BY <2>1, OneMoreHop DEF Types, FeedTypes, Hops
<1>3. Len(flags') \in Nat /\ \E S : flags' \in Seq(S)
  <2>1. PICK S : flags \in Seq(S)
    BY DEF Types
  <2>2. flags' = Append(flags, isSpeech)
    BY Zenon DEF Process
  <2>3. flags' \in Seq(S \cup BOOLEAN)
    BY <2>1, <2>2
  <2> QED
    BY <2>3
<1>4. /\ preSpeech' \in Frames /\ audio' \in Frames /\ Len(preSpeech') <= PreSpeechFrames
      /\ CountTypes' /\ isSpeaking' \in BOOLEAN /\ announced' \in BOOLEAN
  <2>1. CASE Cut(isSpeech)
    BY <2>1, ResetTypes, Zenon DEF Cut
  <2>2. CASE Hear(isSpeech)
    <3>1. /\ preSpeech' = preSpeech /\ audio' = Append(audio, Frame)
          /\ speechCount' = speechCount /\ (silentCount' = 0 \/ silentCount' = silentCount + 1)
          /\ isSpeaking' = isSpeaking /\ announced' = announced
      BY <2>2, Zenon DEF Hear
    <3>2. isSpeaking' \in BOOLEAN /\ announced' \in BOOLEAN
      BY <3>1, Zenon DEF Types, FlagTypes
    <3> QED
      BY <1>1, <3>1, <3>2 DEF Types, FrameTypes, CountTypes, Frames
  <2>3. CASE Listen(isSpeech)
    <3>1. /\ PreRoll \in Frames /\ Len(PreRoll) <= PreSpeechFrames
      <4> DEFINE q == Append(preSpeech, Frame)
      <4>1. q \in Frames /\ Len(q) \in Nat \ {0} /\ Len(q) <= PreSpeechFrames + 1
        BY <1>1, Settings DEF Types, FrameTypes, Frames
      <4>2. CASE Len(q) > PreSpeechFrames
        <5>1. Tail(q) \in Frames /\ Len(Tail(q)) = Len(q) - 1
          BY <4>1 DEF Frames
        <5> HIDE DEF q
        <5> QED
          BY <4>1, <4>2, <5>1, Settings DEF PreRoll, q
      <4>3. CASE ~(Len(q) > PreSpeechFrames)
        BY <4>1, <4>3, Settings DEF PreRoll
      <4> QED
        BY <4>2, <4>3
    <3>2. audio \in Frames /\ audio \o PreRoll \in Frames
      BY <3>1 DEF Types, FrameTypes, Frames
    <3>3. speechCount' \in {0, speechCount + 1} /\ silentCount' \in {0, silentCount}
      BY <2>3, Zenon DEF Listen
    <3>4. CountTypes'
      BY <3>3 DEF Types, CountTypes
    <3>5. isSpeaking' \in BOOLEAN /\ announced' \in BOOLEAN
      BY <2>3, Zenon DEF Listen, Types, FlagTypes
    <3>6. preSpeech' \in {PreRoll, <<>>} /\ audio' \in {audio, audio \o PreRoll}
      BY <2>3, Zenon DEF Listen
    <3> QED
      BY <3>1, <3>2, <3>4, <3>5, <3>6, EmptyFrames
  <2> QED
    BY <2>1, <2>2, <2>3, Zenon DEF Process
<1>5. offline' \in BOOLEAN
  BY Zenon DEF Process, Types, FlagTypes
<1> QED
  BY <1>2, <1>3, <1>4, <1>5, Zenon DEF Types, FlagTypes, FrameTypes

LEMMA FlushTypes ==
  ASSUME Types, NEW next \in {"idle", "stopped"}, Flush(next)
  PROVE  Types'
<1>1. ResetVad /\ announced' = FALSE /\ offline' = offline /\ flags' = flags
  BY Zenon DEF Flush
<1>2. FeedTypes'
  BY DEF Flush, Types, FeedTypes, Hops
<1> QED
  BY <1>1, <1>2, ResetTypes, Zenon DEF Types, FlagTypes, FrameTypes

LEMMA NextTypes == Types /\ [Next]_vars => Types'
<1> SUFFICES ASSUME Types, [Next]_vars PROVE Types'
  OBVIOUS
\* The VAD does not see a feed begin or end.
<1>0. ASSUME UNCHANGED <<offline, vad, flags>>, announced' = announced, FeedTypes'
      PROVE  Types'
  BY <1>0, Zenon DEF Types, FlagTypes, FrameTypes, CountTypes, vad
<1>1. ASSUME NEW n \in FeedSizes, Feed(n)
      PROVE  Types'
  <2>1. /\ used' = ((carry + n) \div Hop) * Hop /\ carry' = (carry + n) - used'
        /\ offset' = 0 /\ phase' = "feeding" /\ consumed' = consumed
    BY <1>1, Zenon DEF Feed
  <2>2. carry + n \in Nat /\ 0 = 0 * Hop
    BY Settings DEF Types, FeedTypes
  <2>3. used' \in Nat /\ Hops(used') /\ carry' \in Nat /\ carry' < Hop
    BY <2>1, <2>2, WholeHops
  <2>4. Hops(0)
    BY <2>2 DEF Hops
  <2>5. FeedTypes'
    BY <2>1, <2>3, <2>4 DEF Types, FeedTypes, Hops
  <2> QED
    BY <1>0, <1>1, <2>5, Zenon DEF Feed
<1>2. CASE \E isSpeech \in BOOLEAN : Process(isSpeech)
  BY <1>2, ProcessTypes
<1>3. ASSUME NEW partial \in BOOLEAN, EndFeed(partial)
      PROVE  Types'
  <2>1. /\ consumed' = consumed + used /\ phase' = "idle" /\ carry' = carry
        /\ offset' = offset /\ used' = used
    BY <1>3, Zenon DEF EndFeed
  <2>2. FeedTypes'
    BY <2>1 DEF Types, FeedTypes, Hops
  <2> QED
    BY <1>0, <1>3, <2>2, Zenon DEF EndFeed
<1>4. CASE ForceCut \/ Stop
  BY <1>4, FlushTypes DEF ForceCut, Stop
<1>5. CASE UNCHANGED vars
  <2>1. FeedTypes'
    BY <1>5 DEF vars, feed, Types, FeedTypes, Hops
  <2> QED
    BY <1>0, <1>5, <2>1, Zenon DEF vars
<1> QED
  BY <1>1, <1>2, <1>3, <1>4, <1>5, Zenon DEF Next

\* The carry is always less than a hop, the loop of feed() stays inside what the
\* feed brought, and the pre-roll within its length (audio_stream.py:139-151,
\* vad.py:160-250).
THEOREM VadTypes == Spec => []TypeOK
<1>1. Spec => []Types
  BY InitTypes, NextTypes, PTL DEF Spec
<1>2. Types => TypeOK
  <2> SUFFICES ASSUME Types PROVE TypeOK
    OBVIOUS
  <2>1. {offline, isSpeaking, announced} \subseteq BOOLEAN
    BY Zenon DEF Types, FlagTypes
  <2> QED
    BY <2>1 DEF Types, FeedTypes, FrameTypes, CountTypes, TypeOK
<1> QED
  BY <1>1, <1>2, PTL
-----------------------------------------------------------------------------
(* The frames of an utterance and the clock. *)

LEMMA HopTimes ==
  ASSUME NEW a \in Nat, NEW b \in Nat
  PROVE  /\ a * Hop \in Nat /\ Hop * a = a * Hop /\ a * Hop + Hop = (a + 1) * Hop
         /\ (a + b) * Hop = a * Hop + b * Hop
         /\ a <= b => a * Hop <= b * Hop
         /\ a <= b => (b - a) * Hop = b * Hop - a * Hop
<1>1. Hop \in Nat \ {0}
  BY Settings
<1>2. a * Hop \in Nat /\ b * Hop \in Nat
  BY <1>1
<1>3. a <= b => (b - a) * Hop = b * Hop - a * Hop /\ a * Hop <= b * Hop
  BY <1>1, <1>2
<1> QED
  BY <1>1, <1>2, <1>3

\* The frames up to the last one, without a gap.
IsRun(s, last) ==
    /\ s \in Seq(Nat) /\ Len(s) <= last
    /\ \A k \in 1 .. Len(s) : s[k] = last - Len(s) + k

LEMMA EmptyRun == ASSUME NEW last \in Nat PROVE IsRun(<<>>, last)
  BY DEF IsRun

LEMMA RunGrows ==
  ASSUME NEW last \in Nat, NEW s, IsRun(s, last)
  PROVE  /\ IsRun(Append(s, last + 1), last + 1)
         /\ Len(Append(s, last + 1)) = Len(s) + 1
  BY DEF IsRun

LEMMA RunTail ==
  ASSUME NEW last \in Nat, NEW s, IsRun(s, last), s # <<>>
  PROVE  IsRun(Tail(s), last) /\ Len(Tail(s)) = Len(s) - 1 /\ Len(s) \in Nat \ {0}
  BY DEF IsRun

LEMMA RunPrefix ==
  ASSUME NEW last \in Nat, NEW s, IsRun(s, last), NEW t \in Nat, t <= Len(s)
  PROVE  IsRun(SubSeq(s, 1, Len(s) - t), last - t) /\ Len(SubSeq(s, 1, Len(s) - t)) = Len(s) - t
<1>1. /\ s \in Seq(Nat) /\ Len(s) \in Nat /\ Len(s) <= last
      /\ \A k \in 1 .. Len(s) : s[k] = last - Len(s) + k
  BY DEF IsRun
<1>2. PICK n \in Nat : n = Len(s) - t
  BY <1>1
<1>3. 1 \in Int /\ n \in Int /\ \A i \in 1 .. n : s[i] \in Nat
  BY <1>1, <1>2
<1>4. /\ SubSeq(s, 1, n) \in Seq(Nat)
      /\ Len(SubSeq(s, 1, n)) = IF 1 <= n THEN n - 1 + 1 ELSE 0
      /\ \A i \in 1 .. n - 1 + 1 : SubSeq(s, 1, n)[i] = s[1 + i - 1]
  BY <1>1, <1>3, SubSeqProperties
<1>5. Len(SubSeq(s, 1, n)) = n /\ \A i \in 1 .. n : SubSeq(s, 1, n)[i] = s[i]
  BY <1>2, <1>4
<1>6. IsRun(SubSeq(s, 1, n), last - t)
  <2>1. n <= last - t
    BY <1>1, <1>2
  <2>2. ASSUME NEW i \in 1 .. n PROVE SubSeq(s, 1, n)[i] = (last - t) - n + i
    <3>1. s[i] = last - Len(s) + i
      BY <1>1, <1>2
    <3>2. SubSeq(s, 1, n)[i] = s[i]
      BY <1>5, Zenon
    <3> QED
      BY <1>1, <1>2, <3>1, <3>2
  <2> QED
    BY <1>4, <1>5, <2>1, <2>2, Zenon DEF IsRun
<1> QED
  BY <1>2, <1>5, <1>6, Zenon

LEMMA RunFrames ==
  ASSUME NEW last \in Nat, NEW s, IsRun(s, last)
  PROVE  /\ ToSet(s) = last - Len(s) + 1 .. last /\ Len(s) \in Nat /\ Len(s) <= last
         /\ Consecutive(s)
         /\ s # <<>> => Head(s) = last - Len(s) + 1 /\ Len(s) > 0
<1>1. /\ s \in Seq(Nat) /\ Len(s) \in Nat /\ Len(s) <= last
      /\ \A k \in 1 .. Len(s) : s[k] = last - Len(s) + k
  BY DEF IsRun
<1>2. ToSet(s) = last - Len(s) + 1 .. last
  <2>1. ASSUME NEW x \in last - Len(s) + 1 .. last PROVE x \in ToSet(s)
    <3>1. x - (last - Len(s)) \in 1 .. Len(s) /\ s[x - (last - Len(s))] = x
      BY <1>1
    <3>2. x - (last - Len(s)) \in DOMAIN s
      BY <1>1, <3>1
    <3> QED
      BY <3>1, <3>2, Zenon DEF ToSet
  <2>2. ASSUME NEW x \in ToSet(s) PROVE x \in last - Len(s) + 1 .. last
    <3>1. PICK k \in 1..Len(s) : x = s[k]
      BY <1>1 DEF ToSet
    <3> QED
      BY <1>1, <3>1
  <2> QED
    BY <2>1, <2>2
<1>3. Consecutive(s)
  <2> SUFFICES ASSUME NEW i \in 2 .. Len(s) PROVE s[i] = s[i - 1] + 1
    BY Zenon DEF Consecutive
  <2>1. i \in 1 .. Len(s) /\ i - 1 \in 1 .. Len(s)
    BY <1>1
  <2>2. s[i] = last - Len(s) + i /\ s[i - 1] = last - Len(s) + (i - 1)
    BY <1>1, <2>1, Zenon
  <2>3. Len(s) \in Int /\ i \in Int /\ last \in Int
    BY <1>1
  <2> QED
    BY <2>2, <2>3
<1> QED
  BY <1>1, <1>2, <1>3

Drifted == IF KeepTailFrames < SilenceFrames THEN SilenceFrames - KeepTailFrames ELSE 0

LEMMA DriftedIs ==
  /\ Drifted \in Nat /\ Drifted <= SilenceFrames /\ Drift = Hop * Drifted
  /\ SilenceFrames \in Nat \ {0} /\ StartFrames \in Nat \ {0}
  /\ \A frames : TrimTail(frames) = SubSeq(frames, 1, Len(frames) - Drifted)
<1>1. SilenceFrames \in Nat \ {0} /\ StartFrames \in Nat \ {0} /\ KeepTailFrames \in Nat
  BY VadAssumption DEF VadAssumption
<1> QED
  BY <1>1 DEF Drifted, Drift, TrimTail

\* While no utterance is open the newest frames are the pre-roll; while one is,
\* they are its frames, and it ends with silentCount silent ones.
Shape ==
    /\ flags \in Seq(BOOLEAN)
    /\ IsRun(preSpeech, Len(flags)) /\ IsRun(audio, Len(flags))
    /\ Len(preSpeech) <= PreSpeechFrames
    /\ isSpeaking \in BOOLEAN /\ speechCount \in Nat /\ silentCount \in Nat
    /\ isSpeaking => /\ preSpeech = <<>> /\ silentCount < Len(audio)
                     /\ \A k \in Len(flags) - silentCount + 1 .. Len(flags) : flags[k] = FALSE
    /\ ~isSpeaking => audio = <<>>

LEMMA FlagsGrow ==
  ASSUME Shape, NEW isSpeech \in BOOLEAN, flags' = Append(flags, isSpeech)
  PROVE  /\ flags' \in Seq(BOOLEAN) /\ Len(flags) \in Nat /\ Len(flags') = Len(flags) + 1
         /\ flags'[Len(flags) + 1] = isSpeech
         /\ \A k \in 1..Len(flags) : flags'[k] = flags[k]
  BY DEF Shape

LEMMA ResetShape ==
  ASSUME ResetVad, flags' \in Seq(BOOLEAN)
  PROVE  Shape'
<1>1. /\ preSpeech' = <<>> /\ audio' = <<>> /\ isSpeaking' = FALSE
      /\ speechCount' = 0 /\ silentCount' = 0 /\ 0 <= PreSpeechFrames
  BY Settings DEF ResetVad
<1>2. Len(flags') \in Nat
  OBVIOUS
<1>3. IsRun(<<>>, Len(flags'))
  BY <1>2, EmptyRun
<1> QED
  BY <1>1, <1>3 DEF Shape

\* The pre-roll keeps the newest frames, no more than it has room for.
LEMMA PreRollIs ==
  ASSUME Shape, ~isSpeaking
  PROVE  /\ IsRun(PreRoll, Len(flags) + 1) /\ Len(PreRoll) \in Nat \ {0}
         /\ Len(PreRoll) <= PreSpeechFrames /\ Len(PreRoll) <= Len(preSpeech) + 1
         /\ Len(PreRoll) = PreSpeechFrames \/ Len(PreRoll) = Len(preSpeech) + 1
         /\ audio \o PreRoll = PreRoll
<1> DEFINE q == Append(preSpeech, Frame)
<1>0. Len(flags) \in Nat /\ Len(preSpeech) \in Nat /\ Len(preSpeech) <= PreSpeechFrames
  BY DEF Shape, IsRun
<1>1. IsRun(q, Len(flags) + 1) /\ Len(q) = Len(preSpeech) + 1
  BY <1>0, RunGrows DEF Shape, Frame
<1>2. /\ IsRun(PreRoll, Len(flags) + 1) /\ Len(PreRoll) \in Nat \ {0}
      /\ Len(PreRoll) <= PreSpeechFrames /\ Len(PreRoll) <= Len(preSpeech) + 1
      /\ Len(PreRoll) = PreSpeechFrames \/ Len(PreRoll) = Len(preSpeech) + 1
  <2> HIDE DEF q
  <2>1. CASE Len(q) > PreSpeechFrames
    <3>1. PreRoll = Tail(q) /\ q # <<>>
      BY <1>0, <1>1, <2>1, Settings DEF PreRoll, q
    <3>2. IsRun(PreRoll, Len(flags) + 1) /\ Len(PreRoll) = Len(q) - 1
      BY <1>0, <1>1, <3>1, RunTail
    <3> QED
      BY <1>0, <1>1, <2>1, <3>2, Settings
  <2>2. CASE ~(Len(q) > PreSpeechFrames)
    <3>1. PreRoll = q
      BY <2>2 DEF PreRoll, q
    <3> QED
      BY <1>0, <1>1, <2>2, <3>1, Settings
  <2> QED
    BY <2>1, <2>2
<1>3. audio = <<>> /\ PreRoll \in Seq(Nat)
  BY <1>2 DEF Shape, IsRun
<1> QED
  BY <1>2, <1>3

LEMMA ListenShape ==
  ASSUME Shape, NEW isSpeech \in BOOLEAN, Listen(isSpeech), flags' = Append(flags, isSpeech)
  PROVE  Shape'
<1>1. /\ flags' \in Seq(BOOLEAN) /\ Len(flags) \in Nat /\ Len(flags') = Len(flags) + 1
  BY FlagsGrow
<1>2. /\ ~isSpeaking /\ speechCount' \in Nat
  BY DEF Listen, Shape
<1>3. /\ IsRun(PreRoll, Len(flags'))
      /\ Len(PreRoll) \in Nat \ {0} /\ Len(PreRoll) <= PreSpeechFrames
      /\ audio \o PreRoll = PreRoll
  BY <1>1, <1>2, PreRollIs, Zenon
<1>4. IsRun(<<>>, Len(flags')) /\ 0 <= PreSpeechFrames
  BY <1>1, EmptyRun, Settings
<1>5. CASE /\ isSpeaking' = TRUE /\ silentCount' = 0 /\ audio' = audio \o PreRoll
           /\ preSpeech' = <<>>
  <2>1. silentCount' < Len(audio') /\ Len(preSpeech') <= PreSpeechFrames /\ silentCount' \in Nat
    BY <1>3, <1>4, <1>5
  <2>2. \A k \in Len(flags') - silentCount' + 1 .. Len(flags') : flags'[k] = FALSE
    BY <1>1, <1>5
  <2> QED
    BY <1>1, <1>2, <1>3, <1>4, <1>5, <2>1, <2>2, Zenon DEF Shape
<1>6. CASE preSpeech' = PreRoll /\ UNCHANGED <<audio, isSpeaking, silentCount>>
  <2>1. audio = <<>>
    BY <1>2 DEF Shape
  <2> QED
    BY <1>1, <1>2, <1>3, <1>4, <1>6, <2>1, Zenon DEF Shape
<1> QED
  BY <1>5, <1>6, Zenon DEF Listen

LEMMA HearShape ==
  ASSUME Shape, NEW isSpeech \in BOOLEAN, Hear(isSpeech), flags' = Append(flags, isSpeech)
  PROVE  Shape'
<1>1. /\ flags' \in Seq(BOOLEAN) /\ Len(flags) \in Nat /\ Len(flags') = Len(flags) + 1
      /\ flags'[Len(flags) + 1] = isSpeech
      /\ \A k \in 1..Len(flags) : flags'[k] = flags[k]
  BY FlagsGrow
<1>2. /\ isSpeaking /\ isSpeaking' = isSpeaking /\ preSpeech' = preSpeech /\ preSpeech = <<>>
      /\ audio' = Append(audio, Len(flags) + 1) /\ speechCount' = speechCount
      /\ silentCount' = IF isSpeech THEN 0 ELSE silentCount + 1
  BY DEF Hear, Shape, Frame
<1>3. IsRun(audio', Len(flags')) /\ Len(audio') = Len(audio) + 1 /\ Len(audio) \in Nat
  <2>1. IsRun(audio, Len(flags)) /\ audio \in Seq(Nat)
    BY Zenon DEF Shape, IsRun
  <2>2. Len(audio) \in Nat
    BY <2>1
  <2> QED
    BY <1>1, <1>2, <2>1, <2>2, RunGrows, Zenon
<1>4. IsRun(<<>>, Len(flags'))
  BY <1>1, EmptyRun
<1>5. silentCount' \in Nat /\ silentCount' < Len(audio')
  BY <1>2, <1>3 DEF Shape
<1>6. \A k \in Len(flags') - silentCount' + 1 .. Len(flags') : flags'[k] = FALSE
  <2>1. CASE isSpeech
    BY <1>1, <1>2, <2>1
  <2>2. CASE ~isSpeech
    <3> SUFFICES ASSUME NEW k \in Len(flags') - silentCount' + 1 .. Len(flags')
                 PROVE  flags'[k] = FALSE
      OBVIOUS
    <3>1. k = Len(flags) + 1 \/ k \in Len(flags) - silentCount + 1 .. Len(flags)
      BY <1>1, <1>2, <2>2 DEF Shape
    <3>2. k \in Len(flags) - silentCount + 1 .. Len(flags) => k \in 1..Len(flags)
      BY <1>1, <1>2, <1>3 DEF Shape, IsRun
    <3> QED
      BY <1>1, <1>2, <2>2, <3>1, <3>2 DEF Shape
  <2> QED
    BY <2>1, <2>2
<1>7. speechCount \in Nat /\ Len(preSpeech) <= PreSpeechFrames
  BY Zenon DEF Shape
<1> QED
  BY <1>1, <1>2, <1>3, <1>4, <1>5, <1>6, <1>7, Zenon DEF Shape

LEMMA NextShape == Shape /\ [Next]_vars => Shape'
<1> SUFFICES ASSUME Shape, [Next]_vars PROVE Shape'
  OBVIOUS
<1>1. CASE UNCHANGED <<vad, flags>>
  BY <1>1 DEF Shape, vad
<1>2. ASSUME NEW isSpeech \in BOOLEAN, Process(isSpeech) PROVE Shape'
  <2>1. flags' = Append(flags, isSpeech)
    BY <1>2, Zenon DEF Process
  <2>2. flags' \in Seq(BOOLEAN)
    BY <2>1, FlagsGrow
  <2> QED
    BY <1>2, <2>1, <2>2, ListenShape, HearShape, ResetShape, Zenon DEF Process, Cut
<1>3. CASE ForceCut \/ Stop
  <2>1. ResetVad /\ flags' = flags
    BY <1>3, Zenon DEF ForceCut, Stop, Flush
  <2> QED
    BY <2>1, ResetShape DEF Shape
<1> QED
  BY <1>1, <1>2, <1>3, Zenon DEF Next, Feed, EndFeed, vars

LEMMA InitShape == Init => Shape
<1> SUFFICES ASSUME Init PROVE Shape
  OBVIOUS
<1>1. /\ preSpeech = <<>> /\ audio = <<>> /\ isSpeaking = FALSE
      /\ speechCount = 0 /\ silentCount = 0 /\ flags = <<>> /\ 0 <= PreSpeechFrames
  BY Settings DEF Init
<1>2. IsRun(<<>>, 0) /\ Len(<<>>) = 0 /\ 0 \in Nat /\ <<>> \in Seq(BOOLEAN)
  BY EmptyRun
<1> QED
  BY <1>1, <1>2, Zenon DEF Shape

-----------------------------------------------------------------------------
(* The clock. *)

\* The clock at the frame the loop is at, in a feed and between two.
Now == consumed + (IF phase = "feeding" THEN offset ELSE 0)

\* The clock counts the hops of the frames that were judged.
Clock == Types /\ Now = Len(flags) * Hop

LEMMA InitClock == Init => Clock
<1> SUFFICES ASSUME Init PROVE Clock
  OBVIOUS
<1>1. consumed = 0 /\ phase = "idle" /\ flags = <<>>
  BY Zenon DEF Init
<1>2. Len(flags) = 0 /\ 0 * Hop = 0 /\ Now = 0
  BY <1>1, Settings DEF Now
<1> QED
  BY <1>2, InitTypes DEF Clock

LEMMA NextClock == Clock /\ [Next]_vars => Clock'
<1> SUFFICES ASSUME Clock, [Next]_vars PROVE Clock'
  OBVIOUS
<1>0. Types /\ Types'
  BY NextTypes DEF Clock
<1>1. Len(flags) \in Nat /\ consumed \in Nat /\ offset \in Nat /\ Hop \in Nat /\ used \in Nat
  BY <1>0, Settings DEF Types, FeedTypes, FrameTypes
<1>2. Now = Len(flags) * Hop
  BY DEF Clock
<1>3. ASSUME Now' = Now, flags' = flags PROVE Clock'
  BY <1>0, <1>2, <1>3, Zenon DEF Clock
<1>4. ASSUME NEW n \in FeedSizes, Feed(n) PROVE Clock'
  <2>1. /\ phase = "idle" /\ phase' = "feeding" /\ offset' = 0 /\ consumed' = consumed
        /\ flags' = flags
    BY <1>4, Zenon DEF Feed
  <2> QED
    BY <1>1, <1>3, <2>1 DEF Now
<1>5. ASSUME NEW isSpeech \in BOOLEAN, Process(isSpeech) PROVE Clock'
  <2>1. /\ phase = "feeding" /\ phase' = phase /\ offset' = offset + Hop
        /\ consumed' = consumed /\ flags' = Append(flags, isSpeech)
    BY <1>5, Zenon DEF Process
  <2>2. Now' = Now + Hop
    BY <1>1, <2>1 DEF Now
  <2>3. PICK S : flags \in Seq(S)
    BY <1>0 DEF Types
  <2>4. Len(flags') = Len(flags) + 1
    BY <2>1, <2>3
  <2>5. Len(flags) * Hop + Hop = (Len(flags) + 1) * Hop
    BY <1>1, HopTimes
  <2> QED
    BY <1>0, <1>2, <2>2, <2>4, <2>5, Zenon DEF Clock
<1>6. ASSUME NEW partial \in BOOLEAN, EndFeed(partial) PROVE Clock'
  <2>1. /\ phase = "feeding" /\ phase' = "idle" /\ offset = used
        /\ consumed' = consumed + used /\ flags' = flags
    BY <1>6, Zenon DEF EndFeed
  <2> QED
    BY <1>1, <1>3, <2>1 DEF Now
<1>7. CASE ForceCut \/ Stop
  <2>1. /\ phase = "idle" /\ phase' \in {"idle", "stopped"} /\ consumed' = consumed
        /\ flags' = flags
    BY <1>7 DEF ForceCut, Stop, Flush
  <2> QED
    BY <1>1, <1>3, <2>1 DEF Now
<1>8. CASE UNCHANGED vars
  BY <1>3, <1>8, Zenon DEF vars, vad, feed, Now
<1> QED
  BY <1>4, <1>5, <1>6, <1>7, <1>8, Zenon DEF Next

-----------------------------------------------------------------------------
(* What the stream reports. *)

\* The frames and the stamps of a segment belong together.
Stamped(e) ==
    /\ Consecutive(e.frames)
    /\ e.end - e.start = Hop * Len(e.frames)
    /\ e.start - Hop * (Head(e.frames) - 1) \in 0 .. Drift

\* An event that reports frames after the first b, up to the c-th.
Reports(e, b, c) ==
    /\ Closes(e)
    /\ ToSet(e.frames) \subseteq b + 1 .. c
    /\ e.kind = "segment" =>
          /\ Stamped(e) /\ e.start \in Nat /\ e.end \in Nat
          /\ b * Hop <= e.start /\ e.end <= c * Hop

\* What is logged is stamped and apart, and is of the first b frames.
LogIn(l, b) ==
    /\ \A i \in 1 .. Len(l) : Closes(l[i]) => ToSet(l[i].frames) \subseteq 1 .. b
    /\ \A i, j \in 1 .. Len(l) : i < j /\ Closes(l[i]) /\ Closes(l[j]) =>
          ToSet(l[i].frames) \cap ToSet(l[j].frames) = {}
    /\ \A i \in 1 .. Len(l) : l[i].kind = "segment" =>
          /\ Stamped(l[i]) /\ l[i].start \in Nat /\ l[i].end \in Nat /\ l[i].end <= b * Hop
          /\ \A j \in 1 .. i - 1 : l[j].kind = "segment" => l[j].end <= l[i].start

LEMMA MoreFrames ==
  ASSUME NEW l, NEW b \in Nat, NEW c \in Nat, b <= c, LogIn(l, b)
  PROVE  LogIn(l, c)
<1>1. 1 .. b \subseteq 1 .. c
  OBVIOUS
<1>2. b * Hop \in Nat /\ c * Hop \in Nat /\ b * Hop <= c * Hop
  BY HopTimes
<1>3. ASSUME NEW i \in 1 .. Len(l), l[i].kind = "segment" PROVE l[i].end <= c * Hop
  <2>1. l[i].end \in Nat /\ l[i].end <= b * Hop
    BY <1>3, Zenon DEF LogIn
  <2> QED
    BY <1>2, <2>1
<1>4. ASSUME NEW i \in 1 .. Len(l), Closes(l[i]) PROVE ToSet(l[i].frames) \subseteq 1 .. c
  <2>1. ToSet(l[i].frames) \subseteq 1 .. b
    BY <1>4, Zenon DEF LogIn
  <2> QED
    BY <1>1, <2>1, Zenon
<1> QED
  BY <1>3, <1>4, Zenon DEF LogIn

\* A start or a partial says nothing of what is reported.
LEMMA NothingReported ==
  ASSUME NEW S, NEW l \in Seq(S), NEW e, NEW b \in Nat, LogIn(l, b),
         e.kind \in {"started", "partial"}
  PROVE  LogIn(Append(l, e), b)
<1> DEFINE m == Append(l, e)
<1>1. /\ Len(m) = Len(l) + 1 /\ Len(l) \in Nat /\ m[Len(l) + 1] = e
      /\ \A i \in 1 .. Len(l) : m[i] = l[i]
  OBVIOUS
<1>2. ~Closes(e) /\ e.kind # "segment"
  BY DEF Closes
<1> HIDE DEF m
<1>3. \A i \in 1 .. Len(m) : Closes(m[i]) \/ m[i].kind = "segment" =>
         i \in 1 .. Len(l) /\ m[i] = l[i]
  <2> SUFFICES ASSUME NEW i \in 1 .. Len(m), Closes(m[i]) \/ m[i].kind = "segment"
               PROVE  i \in 1 .. Len(l) /\ m[i] = l[i]
    OBVIOUS
  <2>1. i # Len(l) + 1
    BY <1>1, <1>2, Zenon
  <2>2. i \in 1 .. Len(l)
    BY <1>1, <2>1
  <2> QED
    BY <1>1, <2>2
<1>4. \A i \in 1 .. Len(m) : \A j \in 1 .. i - 1 : j \in 1 .. Len(m)
  BY <1>1
<1>5. LogIn(m, b)
  <2>1. \A i \in 1 .. Len(m) : Closes(m[i]) => ToSet(m[i].frames) \subseteq 1 .. b
    BY <1>3, Zenon DEF LogIn
  <2>2. \A i, j \in 1 .. Len(m) : i < j /\ Closes(m[i]) /\ Closes(m[j]) =>
          ToSet(m[i].frames) \cap ToSet(m[j].frames) = {}
    BY <1>3, Zenon DEF LogIn
  <2>3. ASSUME NEW i \in 1 .. Len(m), m[i].kind = "segment"
        PROVE  /\ Stamped(m[i]) /\ m[i].start \in Nat /\ m[i].end \in Nat /\ m[i].end <= b * Hop
               /\ \A j \in 1 .. i - 1 : m[j].kind = "segment" => m[j].end <= m[i].start
    <3>1. i \in 1 .. Len(l) /\ m[i] = l[i]
      BY <1>3, <2>3, Zenon
    <3>2. /\ Stamped(l[i]) /\ l[i].start \in Nat /\ l[i].end \in Nat /\ l[i].end <= b * Hop
          /\ \A j \in 1 .. i - 1 : l[j].kind = "segment" => l[j].end <= l[i].start
      BY <2>3, <3>1, Zenon DEF LogIn
    <3>3. \A j \in 1 .. i - 1 : m[j].kind = "segment" => m[j] = l[j]
      BY <1>3, <1>4, Zenon
    <3> QED
      BY <3>1, <3>2, <3>3, Zenon
  <2> QED
    BY <2>1, <2>2, <2>3, Zenon DEF LogIn
<1> QED
  BY <1>5 DEF m

LEMMA OneMoreReport ==
  ASSUME NEW S, NEW l \in Seq(S), NEW e, NEW b \in Nat, NEW c \in Nat, b <= c,
         LogIn(l, b), Reports(e, b, c)
  PROVE  LogIn(Append(l, e), c)
<1> DEFINE m == Append(l, e)
           n == Len(l) + 1
<1>1. /\ Len(m) = n /\ Len(l) \in Nat /\ m[n] = e
      /\ \A i \in 1 .. Len(l) : m[i] = l[i]
  OBVIOUS
<1>2. LogIn(l, c)
  BY MoreFrames
<1>3. 1 .. n = 1 .. Len(l) \cup {n} /\ \A i \in 1 .. Len(l) : i < n /\ ~(n < i)
  BY <1>1
<1> HIDE DEF m
<1>4. \A i \in 1 .. n : Closes(m[i]) => ToSet(m[i].frames) \subseteq 1 .. c
  <2>1. b + 1 .. c \subseteq 1 .. c
    OBVIOUS
  <2>2. ToSet(m[n].frames) \subseteq 1 .. c
    BY <1>1, <2>1, Zenon DEF Reports
  <2> QED
    BY <1>1, <1>2, <1>3, <2>2, Zenon DEF LogIn
<1>5. ASSUME NEW i \in 1 .. n, NEW j \in 1 .. n, i < j, Closes(m[i]), Closes(m[j])
      PROVE  ToSet(m[i].frames) \cap ToSet(m[j].frames) = {}
  <2>1. i \in 1 .. Len(l) /\ m[i] = l[i]
    BY <1>1, <1>5
  <2>2. CASE j = n
    <3>1. ToSet(m[i].frames) \subseteq 1 .. b
      BY <1>5, <2>1, Zenon DEF LogIn
    <3>2. ToSet(m[j].frames) \subseteq b + 1 .. c
      BY <1>1, <2>2, Zenon DEF Reports
    <3>3. (1 .. b) \cap (b + 1 .. c) = {}
      OBVIOUS
    <3> QED
      BY <3>1, <3>2, <3>3, Zenon
  <2>3. CASE j \in 1 .. Len(l)
    <3>1. m[j] = l[j]
      BY <1>1, <2>3, Zenon
    <3> QED
      BY <1>5, <2>1, <2>3, <3>1, Zenon DEF LogIn
  <2> QED
    BY <1>3, <2>2, <2>3, Zenon
<1>6. ASSUME NEW i \in 1 .. n, m[i].kind = "segment"
      PROVE  /\ Stamped(m[i]) /\ m[i].start \in Nat /\ m[i].end \in Nat /\ m[i].end <= c * Hop
             /\ \A j \in 1 .. i - 1 : m[j].kind = "segment" => m[j].end <= m[i].start
  <2>1. CASE i \in 1 .. Len(l)
    <3>1. m[i] = l[i] /\ \A j \in 1 .. i - 1 : m[j] = l[j]
      BY <1>1, <2>1
    <3>2. /\ Stamped(l[i]) /\ l[i].start \in Nat /\ l[i].end \in Nat /\ l[i].end <= c * Hop
          /\ \A j \in 1 .. i - 1 : l[j].kind = "segment" => l[j].end <= l[i].start
      BY <1>2, <1>6, <2>1, <3>1, Zenon DEF LogIn
    <3> QED
      BY <3>1, <3>2, Zenon
  <2>2. CASE i = n
    <3>1. /\ Stamped(e) /\ e.start \in Nat /\ e.end \in Nat
          /\ b * Hop <= e.start /\ e.end <= c * Hop
      BY <1>1, <1>6, <2>2, Zenon DEF Reports
    <3>2. ASSUME NEW j \in 1 .. n - 1, m[j].kind = "segment" PROVE m[j].end <= e.start
      <4>1. j \in 1 .. Len(l)
        BY <1>1
      <4>2. m[j] = l[j]
        BY <1>1, <4>1
      <4>3. l[j].end \in Nat /\ l[j].end <= b * Hop
        BY <3>2, <4>1, <4>2, Zenon DEF LogIn
      <4>4. b * Hop \in Nat
        BY HopTimes
      <4> QED
        BY <3>1, <4>2, <4>3, <4>4
    <3> QED
      BY <1>1, <2>2, <3>1, <3>2, Zenon
  <2> QED
    BY <1>3, <2>1, <2>2, Zenon
<1>7. LogIn(m, c)
  BY <1>1, <1>4, <1>5, <1>6, Zenon DEF LogIn
<1> QED
  BY <1>7 DEF m

\* A segment is stamped with where its audio ends, or with the end of the silence
\* that was trimmed.
LEMMA SegmentStamped ==
  ASSUME NEW last \in Nat, NEW frames, IsRun(frames, last), frames # <<>>,
         NEW c \in Nat, last <= c, c <= last + Drifted
  PROVE  /\ Segment(frames, c * Hop).kind = "segment"
         /\ Segment(frames, c * Hop).frames = frames
         /\ Segment(frames, c * Hop).end = c * Hop
         /\ Segment(frames, c * Hop).start = (c - Len(frames)) * Hop
         /\ Stamped(Segment(frames, c * Hop))
<1> DEFINE n == Len(frames)
           s == c * Hop - Hop * n
           e == Segment(frames, c * Hop)
<1>1. /\ n \in Nat /\ n <= last /\ Consecutive(frames) /\ Head(frames) = last - n + 1
  BY RunFrames
<1> HIDE DEF n
<1>2. /\ n * Hop \in Nat /\ Hop * n = n * Hop /\ (c - n) * Hop = c * Hop - n * Hop
      /\ n * Hop <= c * Hop /\ c * Hop \in Nat
  <2>1. n <= c
    BY <1>1
  <2> QED
    BY <1>1, <2>1, HopTimes, Zenon
<1>3. s \in Nat /\ s = (c - n) * Hop
  BY <1>2
<1>4. /\ e.kind = "segment" /\ e.frames = frames /\ e.end = c * Hop
      /\ e.start = IF s > 0 THEN s ELSE 0
  BY DEF Segment, n
<1> HIDE DEF e, s
<1>5. e.start = s
  BY <1>3, <1>4
<1>6. e.end - e.start = Hop * Len(e.frames)
  <2>1. c * Hop - s = Hop * n
    BY <1>2 DEF s
  <2> QED
    BY <1>4, <1>5, <2>1, Zenon DEF n
<1>7. e.start - Hop * (Head(frames) - 1) \in 0 .. Drift
  <2>1. PICK d \in Nat : d = last - n /\ Head(frames) - 1 = d /\ d <= c - n
    BY <1>1
  <2>2. PICK k \in Nat : k = c - n
    BY <1>1
  <2>3. PICK t \in Nat : t = k - d /\ t <= Drifted
    BY <1>1, <2>1, <2>2, DriftedIs
  <2>4. Drifted \in Nat /\ Drift = Hop * Drifted
    BY DriftedIs
  <2>5. (k - d) * Hop = k * Hop - d * Hop /\ Hop * d = d * Hop
    BY <2>1, <2>2, HopTimes
  <2>6. t * Hop \in Nat /\ Hop * Drifted = Drifted * Hop /\ t * Hop <= Drifted * Hop
        /\ Drifted * Hop \in Nat
    BY <2>3, <2>4, HopTimes
  <2>7. s = k * Hop
    BY <1>3, <2>2, Zenon
  <2>8. s - Hop * d = t * Hop
    BY <2>3, <2>5, <2>7, Zenon
  <2>9. t * Hop \in 0 .. Drift
    BY <2>4, <2>6
  <2> QED
    BY <1>5, <2>1, <2>8, <2>9, Zenon
<1>8. Stamped(e)
  BY <1>1, <1>4, <1>6, <1>7, Zenon DEF Stamped
<1> QED
  BY <1>3, <1>4, <1>5, <1>8, Zenon DEF e, n

-----------------------------------------------------------------------------
(* What the ends of an utterance report. *)

\* The frames before the open utterance and its pre-roll.
Base == Len(flags) - Len(audio) - Len(preSpeech)

\* What the rest of the proofs starts from.
Known == Clock /\ Inv /\ Shape

LEMMA BaseIs ==
  ASSUME Shape
  PROVE  /\ Base \in Nat /\ Len(flags) \in Nat
         /\ Len(audio) \in Nat /\ Len(preSpeech) \in Nat
         /\ isSpeaking => Base = Len(flags) - Len(audio)
         /\ ~isSpeaking => Base = Len(flags) - Len(preSpeech)
<1>1. /\ Len(audio) \in Nat /\ Len(preSpeech) \in Nat /\ Len(flags) \in Nat
      /\ Len(audio) <= Len(flags) /\ Len(preSpeech) <= Len(flags)
  BY DEF Shape, IsRun
<1>2. CASE isSpeaking
  <2>1. Len(preSpeech) = 0
    BY <1>2 DEF Shape
  <2> QED
    BY <1>1, <1>2, <2>1 DEF Base
<1>3. CASE ~isSpeaking
  <2>1. Len(audio) = 0
    BY <1>3 DEF Shape
  <2> QED
    BY <1>1, <1>3, <2>1 DEF Base
<1> QED
  BY <1>2, <1>3

LEMMA ResetBase ==
  ASSUME ResetVad, Len(flags') \in Nat
  PROVE  Base' = Len(flags')
  BY DEF ResetVad, Base

\* What an event of a flush or a cut reports: the utterance, whose last silent
\* frames may be trimmed, stamped with the clock.
Closing(e, c) ==
    /\ Reports(e, Base, c)
    /\ \A f \in ToSet(audio) : flags[f] => f \in ToSet(e.frames)
    /\ ToSet(e.frames) \subseteq ToSet(audio) \cup {Len(flags) + 1}

LEMMA FlushCloses ==
  ASSUME Known, isSpeaking, phase = "idle"
  PROVE  Closing(Segment(audio, consumed), Len(flags))
<1>1. /\ Base \in Nat /\ Len(flags) \in Nat /\ Len(audio) \in Nat
      /\ Base = Len(flags) - Len(audio)
  BY BaseIs DEF Known
<1>2. consumed = Len(flags) * Hop
  <2>1. consumed \in Nat /\ Len(flags) * Hop = Now
    BY DEF Known, Clock, Types, FeedTypes
  <2> QED
    BY <2>1 DEF Now
<1>3. IsRun(audio, Len(flags)) /\ audio # <<>>
  BY Zenon DEF Known, Shape, Inv, Announces
<1>4. /\ ToSet(audio) = Len(flags) - Len(audio) + 1 .. Len(flags)
      /\ Len(audio) <= Len(flags)
  BY <1>1, <1>3, RunFrames
<1> DEFINE e == Segment(audio, consumed)
<1>5. /\ e.kind = "segment" /\ e.frames = audio /\ e.end = Len(flags) * Hop
      /\ e.start = (Len(flags) - Len(audio)) * Hop /\ Stamped(e)
  <2>1. Len(flags) <= Len(flags) /\ Len(flags) <= Len(flags) + Drifted
    BY <1>1, DriftedIs
  <2>2. e = Segment(audio, Len(flags) * Hop)
    BY <1>2, Zenon
  <2> HIDE DEF e
  <2> QED
    BY <1>1, <1>3, <2>1, <2>2, SegmentStamped
<1> HIDE DEF e
<1>6. Closes(e)
  BY <1>5 DEF Closes
<1>7. /\ e.start \in Nat /\ e.end \in Nat /\ Base * Hop <= e.start /\ e.end <= Len(flags) * Hop
  <2>1. Base * Hop \in Nat /\ Len(flags) * Hop \in Nat
    BY <1>1, HopTimes
  <2>2. e.start = Base * Hop
    BY <1>1, <1>5, Zenon
  <2> QED
    BY <1>5, <2>1, <2>2
<1>8. ToSet(e.frames) \subseteq Base + 1 .. Len(flags)
  BY <1>1, <1>4, <1>5
<1>9. Reports(e, Base, Len(flags))
  BY <1>5, <1>6, <1>7, <1>8, Zenon DEF Reports
<1> QED
  BY <1>5, <1>9, Zenon DEF Closing, e

LEMMA CutCloses ==
  ASSUME Known, NEW isSpeech \in BOOLEAN, Cut(isSpeech), phase = "feeding",
         NEW e, e \in {Segment(TrimTail(Append(audio, Frame)), consumed + offset + Hop),
                       Dropped(TrimTail(Append(audio, Frame)))}
  PROVE  Closing(e, Len(flags) + 1)
<1>0. isSpeaking
  BY DEF Cut
<1>1. /\ Base \in Nat /\ Len(flags) \in Nat /\ Len(audio) \in Nat
      /\ Base = Len(flags) - Len(audio)
  BY <1>0, BaseIs DEF Known
<1>2. consumed + offset + Hop = (Len(flags) + 1) * Hop
  <2>1. consumed \in Nat /\ offset \in Nat /\ Len(flags) * Hop = Now
    BY DEF Known, Clock, Types, FeedTypes
  <2>2. Len(flags) * Hop + Hop = (Len(flags) + 1) * Hop
    BY <1>1, HopTimes
  <2> QED
    BY <2>1, <2>2 DEF Now
<1> DEFINE w == Append(audio, Frame)
           frames == TrimTail(w)
<1>15. PICK n \in Nat : n = Len(audio) + 1
  BY <1>1
<1>16. PICK c \in Nat : c = Len(flags) + 1
  BY <1>1
<1>3. IsRun(w, c) /\ Len(w) = n
  BY <1>1, <1>15, <1>16, RunGrows DEF Known, Shape, Frame
<1>4. /\ Drifted \in Nat /\ Drifted < n /\ Drifted <= silentCount + 1 /\ silentCount < Len(audio)
      /\ silentCount \in Nat
  <2>1. silentCount \in Nat /\ silentCount < Len(audio) /\ silentCount + 1 >= SilenceFrames
    BY <1>0 DEF Known, Shape, Cut
  <2> QED
    BY <1>1, <1>15, <2>1, DriftedIs
<1> HIDE DEF w
<1>5. /\ IsRun(frames, c - Drifted) /\ Len(frames) = n - Drifted
  <2>1. frames = SubSeq(w, 1, Len(w) - Drifted)
    BY DriftedIs, Zenon
  <2>2. Drifted <= Len(w) /\ Drifted \in Nat
    BY <1>1, <1>15, <1>3, <1>4
  <2>3. /\ IsRun(SubSeq(w, 1, Len(w) - Drifted), c - Drifted)
        /\ Len(SubSeq(w, 1, Len(w) - Drifted)) = Len(w) - Drifted
    BY <1>3, <2>2, RunPrefix, Zenon
  <2> QED
    BY <1>3, <2>1, <2>3, Zenon
<1> HIDE DEF frames
<1>6. c - Drifted \in Nat /\ c \in Nat /\ c - Drifted <= c /\ c <= (c - Drifted) + Drifted
      /\ n \in Nat /\ n <= c
  BY <1>1, <1>15, <1>16, <1>3, <1>4 DEF IsRun
<1>7. frames # <<>>
  <2>1. Len(frames) > 0
    BY <1>1, <1>15, <1>4, <1>5
  <2> QED
    BY <2>1
<1>8. ToSet(frames) = (c - Drifted) - Len(frames) + 1 .. c - Drifted
  BY <1>5, <1>6, RunFrames, Zenon
<1>9. ToSet(frames) = Base + 1 .. c - Drifted
  BY <1>1, <1>15, <1>16, <1>4, <1>5, <1>8
<1>10. ToSet(audio) = Base + 1 .. Len(flags)
  <2>1. ToSet(audio) = Len(flags) - Len(audio) + 1 .. Len(flags)
    BY <1>1, RunFrames DEF Known, Shape
  <2> QED
    BY <1>1, <2>1
<1>11. \A f \in ToSet(audio) : flags[f] => f \in ToSet(frames)
  <2> SUFFICES ASSUME NEW f \in ToSet(audio), f \notin ToSet(frames) PROVE ~flags[f]
    BY Zenon
  <2>1. f \in Base + 1 .. Len(flags) /\ f \notin Base + 1 .. c - Drifted
    BY <1>9, <1>10, Zenon
  <2>2. f \in Len(flags) - silentCount + 1 .. Len(flags)
    BY <1>1, <1>16, <1>4, <2>1
  <2> QED
    BY <1>0, <2>2, Zenon DEF Known, Shape
<1>12. ToSet(frames) \subseteq Base + 1 .. c /\ ToSet(frames) \subseteq ToSet(audio) \cup {c}
  BY <1>1, <1>16, <1>4, <1>9, <1>10
<1>13. CASE e = Dropped(frames)
  <2>1. e.frames = frames /\ e.kind = "dropped"
    BY <1>13 DEF Dropped
  <2>2. Closes(e) /\ e.kind # "segment"
    BY <2>1 DEF Closes
  <2> QED
    BY <1>11, <1>12, <1>16, <2>1, <2>2, Zenon DEF Reports, Closing
<1>14. CASE e = Segment(frames, c * Hop)
  <2>1. /\ e.kind = "segment" /\ e.frames = frames /\ e.end = c * Hop
        /\ e.start = (c - Len(frames)) * Hop /\ Stamped(e)
    <3>1. PICK p \in Nat : p = c - Drifted
      BY <1>6
    <3>2. IsRun(frames, p) /\ p <= c /\ c <= p + Drifted
      BY <1>5, <1>6, <3>1, Zenon
    <3>3. /\ Segment(frames, c * Hop).kind = "segment"
          /\ Segment(frames, c * Hop).frames = frames
          /\ Segment(frames, c * Hop).end = c * Hop
          /\ Segment(frames, c * Hop).start = (c - Len(frames)) * Hop
          /\ Stamped(Segment(frames, c * Hop))
      BY <1>7, <3>2, SegmentStamped, Zenon
    <3> QED
      BY <1>14, <3>3, Zenon
  <2>2. PICK k \in Nat : k = c - Len(frames) /\ Base <= k
    <3>1. Base + Drifted \in Nat /\ Base <= Base + Drifted
      BY <1>1, <1>4
    <3>2. Len(frames) = n - Drifted
      BY <1>5, Zenon
    <3>3. Base + Drifted = c - Len(frames)
      BY <1>1, <1>15, <1>16, <1>4, <3>2
    <3> QED
      BY <3>1, <3>3, Zenon
  <2>3. /\ Base * Hop \in Nat /\ k * Hop \in Nat /\ Base * Hop <= k * Hop /\ c * Hop \in Nat
    BY <1>1, <1>6, <2>2, HopTimes
  <2>4. e.start \in Nat /\ e.end \in Nat /\ Base * Hop <= e.start /\ e.end <= c * Hop
    <3>1. e.start = k * Hop
      BY <2>1, <2>2, Zenon
    <3> QED
      BY <2>1, <2>3, <3>1
  <2>5. Closes(e)
    BY <2>1 DEF Closes
  <2> QED
    BY <1>11, <1>12, <1>16, <2>1, <2>4, <2>5, Zenon DEF Reports, Closing
<1> QED
  BY <1>2, <1>16, <1>13, <1>14, Zenon DEF frames, w

-----------------------------------------------------------------------------
(* What each step does to the log and to the utterance. *)

\* Nothing is reported: at most a start or a partial is logged.
Quiet ==
    \/ log' = log
    \/ \E e : e.kind \in {"started", "partial"} /\ log' = Append(log, e)

\* The open utterance is reported, and none is open any more.
Closed == \E e : log' = Append(log, e) /\ Closing(e, Len(flags')) /\ ResetVad

LEMMA LoggedQuietly ==
  /\ Started.kind \in {"started", "partial"}
  /\ \A frames : Partial(frames).kind \in {"started", "partial"}
  BY DEF Started, Partial

LEMMA MaybeLogged ==
  ASSUME NEW e, e.kind \in {"started", "partial"}, log' = log \/ log' = Append(log, e)
  PROVE  Quiet
  BY DEF Quiet

LEMMA ProcessStep ==
  ASSUME Known, NEW isSpeech \in BOOLEAN, Process(isSpeech)
  PROVE  (Closed /\ Cut(isSpeech)) \/ (Quiet /\ (Listen(isSpeech) \/ Hear(isSpeech)))
<1>1. CASE Listen(isSpeech)
  <2>1. log' = log \/ log' = Append(log, Started)
    BY <1>1 DEF Listen
  <2>2. Quiet
    BY <2>1, MaybeLogged, LoggedQuietly
  <2> QED
    BY <1>1, <2>2
<1>2. CASE Hear(isSpeech)
  BY <1>2, Zenon DEF Hear, Quiet
<1>3. CASE Cut(isSpeech)
  <2> DEFINE frames == TrimTail(Append(audio, Frame))
             end == consumed + offset + Hop
  <2>1. isSpeaking /\ announced /\ phase = "feeding"
    BY <1>3, Zenon DEF Cut, Known, Inv, Announces, Process
  <2>2. PICK e : e \in {Segment(frames, end), Dropped(frames)} /\ log' = Append(log, e)
    BY <1>3, <2>1, Zenon DEF Cut, Finalized
  <2>3. Closing(e, Len(flags) + 1)
    BY <1>3, <2>1, <2>2, CutCloses
  <2>4. Len(flags') = Len(flags) + 1
    BY FlagsGrow, Zenon DEF Known, Process
  <2> QED
    BY <1>3, <2>2, <2>3, <2>4, Zenon DEF Closed, Cut
<1> QED
  BY <1>1, <1>2, <1>3, Zenon DEF Process

LEMMA FlushStep ==
  ASSUME Known, NEW next, Flush(next)
  PROVE  IF isSpeaking THEN Closed ELSE log' = log
<1>1. CASE isSpeaking
  <2>1. phase = "idle" /\ audio # <<>> /\ flags' = flags /\ ResetVad
    BY <1>1, Zenon DEF Flush, Known, Inv, Announces
  <2>2. Closing(Segment(audio, consumed), Len(flags'))
    BY <1>1, <2>1, FlushCloses, Zenon
  <2>3. log' = Append(log, Segment(audio, consumed))
    BY <1>1, <2>1, Zenon DEF Flush
  <2> QED
    BY <1>1, <2>1, <2>2, <2>3, Zenon DEF Closed
<1>2. CASE ~isSpeaking
  <2>1. ~announced
    BY <1>2, Zenon DEF Known, Inv, Announces
  <2> QED
    BY <1>2, <2>1, Zenon DEF Flush
<1> QED
  BY <1>1, <1>2

-----------------------------------------------------------------------------
(* The log. *)

\* What is reported ends before the open utterance and its pre-roll begin.
LogFits == LogIn(log, Base)

LEMMA QuietLog ==
  ASSUME Known, LogFits, Quiet, Base' \in Nat, Base <= Base'
  PROVE  LogFits'
<1>1. PICK S : log \in Seq(S)
  BY DEF Known, Inv, LogAlternates
<1>2. Base \in Nat
  BY BaseIs DEF Known
<1>3. LogIn(log', Base)
  BY <1>1, <1>2, NothingReported, Zenon DEF Quiet, LogFits
<1> QED
  BY <1>2, <1>3, MoreFrames, Zenon DEF LogFits

LEMMA ClosedLog ==
  ASSUME Known, LogFits, Closed, Len(flags') \in Nat, Base <= Len(flags')
  PROVE  LogFits'
<1>1. PICK S : log \in Seq(S)
  BY DEF Known, Inv, LogAlternates
<1>2. Base \in Nat
  BY BaseIs DEF Known
<1>3. PICK e : log' = Append(log, e) /\ Reports(e, Base, Len(flags'))
  BY Zenon DEF Closed, Closing
<1>4. Base' = Len(flags')
  BY ResetBase, Zenon DEF Closed
<1>5. LogIn(log', Len(flags'))
  BY <1>1, <1>2, <1>3, OneMoreReport, Zenon DEF LogFits
<1> QED
  BY <1>4, <1>5, Zenon DEF LogFits

LEMMA ListenBase ==
  ASSUME Known, NEW isSpeech \in BOOLEAN, Listen(isSpeech), flags' = Append(flags, isSpeech)
  PROVE  Base' \in Nat /\ Base <= Base'
<1>1. /\ Base \in Nat /\ Len(flags) \in Nat /\ Len(preSpeech) \in Nat
      /\ Base = Len(flags) - Len(preSpeech)
  BY BaseIs DEF Known, Listen
<1>2. Len(flags') = Len(flags) + 1 /\ ~isSpeaking
  BY FlagsGrow, Zenon DEF Known, Listen
<1>3. /\ Len(PreRoll) \in Nat /\ Len(PreRoll) <= Len(preSpeech) + 1 /\ audio \o PreRoll = PreRoll
      /\ audio = <<>>
  BY <1>2, PreRollIs DEF Known, Shape
<1>4. \/ audio' = PreRoll /\ preSpeech' = <<>>
      \/ audio' = <<>> /\ preSpeech' = PreRoll
  BY <1>3, Zenon DEF Listen
<1>5. Base' = Len(flags) + 1 - Len(PreRoll)
  <2>1. Len(<<>>) = 0
    OBVIOUS
  <2>2. Base' = Len(flags') - Len(audio') - Len(preSpeech')
    BY DEF Base
  <2> QED
    BY <1>1, <1>2, <1>3, <1>4, <2>1, <2>2
<1> QED
  BY <1>1, <1>3, <1>5

LEMMA HearBase ==
  ASSUME Known, NEW isSpeech \in BOOLEAN, Hear(isSpeech), flags' = Append(flags, isSpeech)
  PROVE  Base' \in Nat /\ Base <= Base'
<1>1. Base \in Nat /\ Len(flags) \in Nat /\ Len(audio) \in Nat
      /\ Base = Len(flags) - Len(audio)
  BY BaseIs DEF Known, Hear
<1>2. Len(flags') = Len(flags) + 1
  BY FlagsGrow, Zenon DEF Known
<1>3. audio' = Append(audio, Frame) /\ preSpeech' = <<>>
  BY Zenon DEF Hear, Known, Shape
<1>4. Len(audio') = Len(audio) + 1
  <2>1. audio \in Seq(Nat)
    BY Zenon DEF Known, Shape, IsRun
  <2> QED
    BY <1>3, <2>1
<1>5. Base' = Len(flags) + 1 - (Len(audio) + 1) - 0
  <2>1. Len(<<>>) = 0
    OBVIOUS
  <2>2. Base' = Len(flags') - Len(audio') - Len(preSpeech')
    BY DEF Base
  <2> QED
    BY <1>1, <1>2, <1>3, <1>4, <2>1, <2>2
<1> QED
  BY <1>1, <1>5

LEMMA NextLog == Known /\ LogFits /\ [Next]_vars => LogFits'
<1> SUFFICES ASSUME Known, LogFits, [Next]_vars PROVE LogFits'
  OBVIOUS
<1>1. Base \in Nat /\ Base <= Base /\ Len(flags) \in Nat /\ Base <= Len(flags)
  BY BaseIs DEF Known, Base
<1>2. ASSUME Quiet, UNCHANGED <<vad, flags>> PROVE LogFits'
  <2>1. Base' = Base
    BY <1>2, Zenon DEF vad, Base
  <2> QED
    BY <1>1, <1>2, <2>1, QuietLog, Zenon
<1>3. ASSUME NEW isSpeech \in BOOLEAN, Process(isSpeech) PROVE LogFits'
  <2>1. flags' = Append(flags, isSpeech)
    BY <1>3, Zenon DEF Process
  <2>2. Len(flags') = Len(flags) + 1
    BY <2>1, FlagsGrow, Zenon DEF Known
  <2>3. Len(flags') \in Nat /\ Base <= Len(flags')
    BY <1>1, <2>2
  <2> QED
    BY <1>3, <2>1, <2>3, ProcessStep, ListenBase, HearBase, QuietLog, ClosedLog, Zenon
<1>4. CASE ForceCut \/ Stop
  <2>1. PICK next : Flush(next)
    BY <1>4, Zenon DEF ForceCut, Stop
  <2>2. CASE isSpeaking
    BY <1>1, <2>1, <2>2, FlushStep, ClosedLog, Zenon DEF Flush
  <2>3. CASE ~isSpeaking
    <3>1. log' = log
      BY <2>1, <2>3, FlushStep, Zenon
    <3>2. Base' = Len(flags)
      BY <1>1, <2>1, ResetBase, Zenon DEF Flush
    <3> QED
      BY <1>1, <3>1, <3>2, QuietLog, Zenon DEF Quiet
  <2> QED
    BY <2>2, <2>3
<1>5. CASE \E n \in FeedSizes : Feed(n)
  BY <1>2, <1>5, Zenon DEF Feed, Quiet
<1>6. CASE \E partial \in BOOLEAN : EndFeed(partial)
  <2>1. log' = log \/ log' = Append(log, Partial(audio))
    BY <1>6, Zenon DEF EndFeed
  <2>2. Quiet
    BY <2>1, MaybeLogged, LoggedQuietly
  <2> QED
    BY <1>2, <1>6, <2>2, Zenon DEF EndFeed
<1>7. CASE UNCHANGED vars
  BY <1>2, <1>7, Zenon DEF vars, Quiet
<1> QED
  BY <1>3, <1>4, <1>5, <1>6, <1>7, Zenon DEF Next

LEMMA InitLog == Init => LogFits
<1> SUFFICES ASSUME Init PROVE LogFits
  OBVIOUS
<1>1. log = <<>>
  BY Zenon DEF Init
<1>2. \A b : LogIn(<<>>, b)
  BY DEF LogIn
<1> QED
  BY <1>1, <1>2, Zenon DEF LogFits

LEMMA AlwaysKnown == Spec => []Known
<1>1. Init => Known
  BY InitClock, InitInv, InitShape DEF Known
<1>2. Known /\ [Next]_vars => Known'
  BY NextClock, NextInv, NextShape DEF Known
<1> QED
  BY <1>1, <1>2, PTL DEF Spec

LEMMA AlwaysFits == Spec => [](Known /\ LogFits)
<1>1. Init => LogFits
  BY InitLog
<1>2. Known /\ LogFits /\ [Next]_vars => LogFits'
  BY NextLog
<1> QED
  BY <1>1, <1>2, AlwaysKnown, PTL DEF Spec

\* For every length of the hop and every setting of the VAD, and however the audio
\* is cut into feeds, a segment's stamps span its frames, do not overlap the stamps
\* before them, never pass the audio that was fed, and are late by no more than the
\* silence that was trimmed (audio_stream.py:225, vad.py:197-250).
THEOREM StampsAreTheClock == Spec => []StampsFollowTheAudio
<1>1. Known /\ LogFits => StampsFollowTheAudio
  <2> SUFFICES ASSUME Known, LogFits, NEW i \in 1 .. Len(log), log[i].kind = "segment"
               PROVE  /\ Consecutive(log[i].frames)
                      /\ log[i].end - log[i].start = Hop * Len(log[i].frames)
                      /\ log[i].end <= Now
                      /\ log[i].start - Hop * (Head(log[i].frames) - 1) \in 0 .. Drift
                      /\ \A j \in 1 .. i - 1 : log[j].kind = "segment" => log[j].end <= log[i].start
    BY Zenon DEF StampsFollowTheAudio, Now
  <2>1. /\ Stamped(log[i]) /\ log[i].end \in Nat /\ log[i].end <= Base * Hop
        /\ \A j \in 1 .. i - 1 : log[j].kind = "segment" => log[j].end <= log[i].start
    BY Zenon DEF LogFits, LogIn
  <2>2. Base \in Nat /\ Len(flags) \in Nat /\ Base <= Len(flags)
    BY BaseIs DEF Known, Base
  <2>3. Base * Hop \in Nat /\ Len(flags) * Hop \in Nat /\ Base * Hop <= Len(flags) * Hop
    BY <2>2, HopTimes
  <2>4. Now = Len(flags) * Hop
    BY Zenon DEF Known, Clock
  <2>5. log[i].end <= Now
    BY <2>1, <2>3, <2>4
  <2> QED
    BY <2>1, <2>5, Zenon DEF Stamped
<1> QED
  BY <1>1, AlwaysFits, PTL

-----------------------------------------------------------------------------
(* Speech is heard. *)

\* The frames a log reports: Reported, of any sequence of events.
ReportedIn(l) == UNION {ToSet(l[i].frames) : i \in {j \in 1 .. Len(l) : Closes(l[j])}}

LEMMA ReportedAppend ==
  ASSUME NEW S, NEW l \in Seq(S), NEW e
  PROVE  /\ ReportedIn(l) \subseteq ReportedIn(Append(l, e))
         /\ Closes(e) => ToSet(e.frames) \subseteq ReportedIn(Append(l, e))
<1>1. /\ Len(l) \in Nat /\ Len(Append(l, e)) = Len(l) + 1 /\ Append(l, e)[Len(l) + 1] = e
      /\ \A i \in 1 .. Len(l) : Append(l, e)[i] = l[i]
      /\ 1 .. Len(l) \subseteq 1 .. Len(l) + 1 /\ Len(l) + 1 \in 1 .. Len(l) + 1
  OBVIOUS
<1> QED
  BY <1>1, Zenon DEF ReportedIn

\* What is reported or about to be.
Kept == ReportedIn(log) \cup ToSet(audio)

\* The StartFrames frames up to the last one, and that they are speech and that no
\* flush falls between them.
Run(last) == last - StartFrames + 1 .. last

Spoken(fl, sm, last) ==
    (\A f \in Run(last) : fl[f]) /\ sm \cap (Run(last) \ {last}) = {}

Heard ==
    \A last \in StartFrames .. Len(flags) :
        Spoken(flags, seams, last) => Run(last) \subseteq Kept

\* How far the onset rule has come: what it has counted is speech since a frame
\* that is not, or since a flush, and is in the pre-roll.
Onset ==
    IF isSpeaking THEN Len(audio) >= StartFrames
    ELSE /\ speechCount < StartFrames /\ speechCount <= Len(flags)
         /\ \/ speechCount = Len(flags)
            \/ ~flags[Len(flags) - speechCount]
            \/ Len(flags) - speechCount \in seams
         /\ Len(preSpeech) >= speechCount \/ Len(preSpeech) = PreSpeechFrames

\* No spoken frame is lost, and a run that is new is in the open utterance.
LEMMA RunsStay ==
  ASSUME Known, Heard, seams \subseteq seams',
         NEW n, n = Len(flags'), n \in {Len(flags), Len(flags) + 1},
         \A f \in 1 .. Len(flags) : flags'[f] = flags[f],
         \A f \in Kept : flags[f] => f \in Kept',
         n = Len(flags) + 1 /\ n >= StartFrames /\ Spoken(flags', seams', n) =>
            Run(n) \subseteq Kept'
  PROVE  Heard'
<1>1. Len(flags) \in Nat /\ StartFrames \in Nat \ {0}
  BY BaseIs, DriftedIs DEF Known
<1>2. Heard' <=>
        \A last \in StartFrames .. n : Spoken(flags', seams', last) => Run(last) \subseteq Kept'
  BY DEF Heard, Run
<1> SUFFICES ASSUME NEW last \in StartFrames .. n, Spoken(flags', seams', last)
             PROVE  Run(last) \subseteq Kept'
  BY <1>2, Zenon
<1>3. CASE last = n /\ n = Len(flags) + 1
  <2>1. n >= StartFrames
    BY <1>1, <1>3
  <2>2. Spoken(flags', seams', n)
    BY <1>3, Zenon
  <2> QED
    BY <1>3, <2>1, <2>2, Zenon
<1>4. CASE last \in StartFrames .. Len(flags)
  <2>1. Run(last) \subseteq 1 .. Len(flags)
    BY <1>1, <1>4 DEF Run
  <2>2. \A f \in Run(last) : flags[f]
    BY <2>1, Zenon DEF Spoken, Run
  <2>3. Spoken(flags, seams, last)
    BY <2>2, Zenon DEF Spoken, Run
  <2>4. Run(last) \subseteq Kept
    BY <1>4, <2>3, Zenon DEF Heard
  <2> QED
    BY <2>2, <2>4, Zenon
<1> QED
  BY <1>1, <1>3, <1>4

LEMMA KeptQuietly ==
  ASSUME Known, Quiet
  PROVE  ReportedIn(log) \subseteq ReportedIn(log')
<1>1. PICK S : log \in Seq(S)
  BY DEF Known, Inv, LogAlternates
<1> QED
  BY <1>1, ReportedAppend, Zenon DEF Quiet

LEMMA KeptClosed ==
  ASSUME Known, Closed
  PROVE  \A f \in Kept : flags[f] => f \in Kept'
<1>1. PICK S : log \in Seq(S)
  BY DEF Known, Inv, LogAlternates
<1>2. PICK e : log' = Append(log, e) /\ Closing(e, Len(flags'))
  BY Zenon DEF Closed
<1>3. /\ ReportedIn(log) \subseteq ReportedIn(log') /\ ToSet(e.frames) \subseteq ReportedIn(log')
  BY <1>1, <1>2, ReportedAppend, Zenon DEF Closing, Reports
<1>4. \A f \in ToSet(audio) : flags[f] => f \in ToSet(e.frames)
  BY <1>2, Zenon DEF Closing
<1> QED
  BY <1>3, <1>4, Zenon DEF Kept

\* After a reset the count starts over, behind a silent frame or a flush.
LEMMA ResetOnset ==
  ASSUME Known, ResetVad, NEW n \in Nat, n = Len(flags'), n = 0 \/ ~flags'[n] \/ n \in seams'
  PROVE  Onset'
<1>1. /\ isSpeaking' = FALSE /\ speechCount' = 0 /\ preSpeech' = <<>>
  BY Zenon DEF ResetVad
<1>2. n - 0 = n /\ 0 < StartFrames /\ 0 <= n /\ Len(<<>>) >= 0
  BY DriftedIs
<1> QED
  BY <1>1, <1>2, Zenon DEF Onset

LEMMA ListenHeard ==
  ASSUME PreSpeechFrames >= StartFrames, Known, Shape', Heard, Onset, Quiet,
         NEW isSpeech \in BOOLEAN, Listen(isSpeech),
         flags' = Append(flags, isSpeech), seams' = seams
  PROVE  Heard' /\ Onset'
<1>0. PICK n \in Nat : n = Len(flags) + 1
  BY BaseIs DEF Known
<1>1. /\ Len(flags) \in Nat /\ Len(flags') = n /\ flags'[n] = isSpeech
      /\ \A k \in 1..Len(flags) : flags'[k] = flags[k]
      /\ n = Len(flags) + 1
  BY <1>0, FlagsGrow DEF Known
<1>2. ~isSpeaking /\ audio = <<>>
  BY DEF Listen, Known, Shape
<1>3. /\ IsRun(PreRoll, n) /\ Len(PreRoll) \in Nat \ {0} /\ Len(PreRoll) <= PreSpeechFrames
      /\ Len(PreRoll) = PreSpeechFrames \/ Len(PreRoll) = Len(preSpeech) + 1
      /\ audio \o PreRoll = PreRoll
  BY <1>0, <1>2, PreRollIs DEF Known
<1>4. /\ StartFrames \in Nat \ {0} /\ PreSpeechFrames \in Nat \ {0} /\ Len(preSpeech) \in Nat
      /\ speechCount \in Nat
  BY DriftedIs, Settings, BaseIs DEF Known, Shape
<1>5. /\ speechCount < StartFrames /\ speechCount <= Len(flags)
      /\ \/ speechCount = Len(flags)
         \/ ~flags[Len(flags) - speechCount]
         \/ Len(flags) - speechCount \in seams
      /\ Len(preSpeech) >= speechCount \/ Len(preSpeech) = PreSpeechFrames
  BY <1>2, Zenon DEF Onset
<1>6. \A f \in Kept : f \in Kept'
  <2>1. ToSet(audio) = {}
    BY <1>2 DEF ToSet
  <2> QED
    BY <2>1, KeptQuietly, Zenon DEF Kept
<1>7. PICK count : count = IF isSpeech THEN speechCount + 1 ELSE 0
  OBVIOUS
<1>8. count \in Nat
  BY <1>4, <1>7
<1>9. CASE count >= StartFrames
  <2>1. isSpeaking' = TRUE /\ audio' = PreRoll
    BY <1>3, <1>7, <1>9, Zenon DEF Listen
  <2>2. Len(PreRoll) >= StartFrames
    BY <1>3, <1>4, <1>5, <1>7, <1>9
  <2>3. Onset'
    BY <2>1, <2>2, Zenon DEF Onset
  <2>4. ToSet(audio') = n - Len(PreRoll) + 1 .. n /\ Len(PreRoll) <= n
    BY <1>0, <1>1, <1>3, <2>1, RunFrames
  <2>5. Run(n) \subseteq ToSet(audio')
    BY <1>0, <1>1, <1>3, <1>4, <2>2, <2>4 DEF Run
  <2>6. Run(n) \subseteq Kept'
    BY <2>5, Zenon DEF Kept
  <2>7. n \in {Len(flags), Len(flags) + 1} /\ seams \subseteq seams'
    BY <1>0
  <2> QED
    BY <1>0, <1>1, <1>6, <2>3, <2>6, <2>7, RunsStay, Zenon
<1>10. CASE ~(count >= StartFrames)
  <2>1. isSpeaking' = FALSE /\ preSpeech' = PreRoll /\ speechCount' = count
    BY <1>2, <1>7, <1>10 DEF Listen, Known, Shape
  <2>2. /\ count < StartFrames /\ count <= n
        /\ Len(PreRoll) >= count \/ Len(PreRoll) = PreSpeechFrames
    BY <1>0, <1>1, <1>3, <1>4, <1>5, <1>7, <1>8, <1>10
  <2>3. \/ count = n \/ ~flags'[n - count] \/ n - count \in seams'
    <3>1. CASE isSpeech
      <4>1. count = speechCount + 1 /\ n - count = Len(flags) - speechCount
        BY <1>0, <1>1, <1>4, <1>7, <3>1
      <4>2. CASE speechCount = Len(flags)
        BY <4>1, <4>2
      <4>3. CASE speechCount # Len(flags)
        <5>1. Len(flags) - speechCount \in 1 .. Len(flags)
          BY <1>0, <1>1, <1>4, <1>5, <4>3
        <5> QED
          BY <1>0, <1>1, <1>5, <4>1, <4>3, <5>1, Zenon
      <4> QED
        BY <4>2, <4>3
    <3>2. CASE ~isSpeech
      <4>1. n - count = n
        BY <1>0, <1>1, <1>7, <3>2
      <4> QED
        BY <1>0, <1>1, <3>2, <4>1, Zenon
    <3> QED
      BY <3>1, <3>2
  <2>4. Onset'
    BY <1>0, <1>1, <2>1, <2>2, <2>3, Zenon DEF Onset
  <2>5. n >= StartFrames => ~Spoken(flags', seams', n)
    <3> SUFFICES ASSUME n >= StartFrames, Spoken(flags', seams', n) PROVE FALSE
      BY Zenon
    <3>1. n - count \in Run(n) /\ (count # 0 => n - count \in Run(n) \ {n})
      BY <1>0, <1>1, <1>4, <1>8, <2>2 DEF Run
    <3>2. (\A f \in Run(n) : flags'[f]) /\ seams' \cap (Run(n) \ {n}) = {}
      BY Zenon DEF Spoken, Run
    <3>3. count # n
      BY <1>0, <1>1, <1>4, <2>2
    <3>4. count # 0
      <4>1. n \in Run(n)
        BY <1>0, <1>1, <1>4 DEF Run
      <4>2. isSpeech
        BY <1>0, <1>1, <3>2, <4>1, Zenon
      <4> QED
        BY <1>4, <1>7, <4>2
    <3> QED
      BY <2>3, <3>1, <3>2, <3>3, <3>4, Zenon
  <2>6. n \in {Len(flags), Len(flags) + 1} /\ seams \subseteq seams'
    BY <1>0
  <2> QED
    BY <1>0, <1>1, <1>6, <2>4, <2>5, <2>6, RunsStay, Zenon
<1> QED
  BY <1>9, <1>10

LEMMA HearHeard ==
  ASSUME Known, Heard, Onset, Quiet,
         NEW isSpeech \in BOOLEAN, Hear(isSpeech),
         flags' = Append(flags, isSpeech), seams' = seams
  PROVE  Heard' /\ Onset'
<1>0. PICK n \in Nat : n = Len(flags) + 1
  BY BaseIs DEF Known
<1>1. /\ Len(flags) \in Nat /\ Len(flags') = n /\ flags'[n] = isSpeech
      /\ \A k \in 1..Len(flags) : flags'[k] = flags[k]
      /\ n = Len(flags) + 1
  BY <1>0, FlagsGrow DEF Known
<1>2. isSpeaking /\ isSpeaking' = isSpeaking /\ audio' = Append(audio, n)
  BY <1>0, Zenon DEF Hear, Frame
<1>3. IsRun(audio', n) /\ Len(audio') = Len(audio) + 1 /\ IsRun(audio, Len(flags))
  BY <1>0, <1>1, <1>2, RunGrows, Zenon DEF Known, Shape
<1>4. Len(audio) \in Nat /\ Len(audio) >= StartFrames /\ StartFrames \in Nat \ {0}
  BY <1>2, BaseIs, DriftedIs DEF Onset, Known
<1>5. Onset'
  <2>1. Len(audio) + 1 >= StartFrames
    BY <1>4
  <2> QED
    BY <1>2, <1>3, <2>1, Zenon DEF Onset
<1>6. /\ ToSet(audio') = n - (Len(audio) + 1) + 1 .. n
      /\ ToSet(audio) = Len(flags) - Len(audio) + 1 .. Len(flags)
      /\ Len(audio) <= Len(flags)
  BY <1>0, <1>1, <1>3, RunFrames
<1>7. ToSet(audio) \subseteq ToSet(audio') /\ Run(n) \subseteq ToSet(audio')
  BY <1>0, <1>1, <1>4, <1>6 DEF Run
<1>8. (\A f \in Kept : f \in Kept') /\ Run(n) \subseteq Kept'
  BY <1>7, KeptQuietly, Zenon DEF Kept
<1>9. n \in {Len(flags), Len(flags) + 1} /\ seams \subseteq seams'
  BY <1>0
<1> QED
  BY <1>0, <1>1, <1>5, <1>8, <1>9, RunsStay, Zenon

LEMMA NextHeard ==
  ASSUME PreSpeechFrames >= StartFrames, Known, Shape', Heard, Onset, [Next]_vars
  PROVE  Heard' /\ Onset'
<1>1. PICK n \in Nat : n = Len(flags)
  BY BaseIs DEF Known
<1>2. ASSUME flags' = flags, seams \subseteq seams', \A f \in Kept : flags[f] => f \in Kept'
      PROVE  Heard'
  <2>1. n = Len(flags') /\ n \in {Len(flags), Len(flags) + 1} /\ ~(n = Len(flags) + 1)
    BY <1>1, <1>2
  <2> QED
    BY <1>2, <2>1, RunsStay, Zenon
<1>3. ASSUME Quiet, UNCHANGED <<vad, flags, seams>> PROVE Heard' /\ Onset'
  <2>1. Onset'
    BY <1>3, Zenon DEF Onset, vad
  <2>2. \A f \in Kept : f \in Kept'
    BY <1>3, KeptQuietly, Zenon DEF Kept, vad
  <2> QED
    BY <1>2, <1>3, <2>1, <2>2, Zenon
<1>4. ASSUME NEW isSpeech \in BOOLEAN, Process(isSpeech) PROVE Heard' /\ Onset'
  <2>1. flags' = Append(flags, isSpeech) /\ seams' = seams
    BY <1>4, Zenon DEF Process
  <2>2. CASE Closed /\ Cut(isSpeech)
    <3>1. PICK m \in Nat : m = n + 1
      BY <1>1
    <3>2. /\ Len(flags') = m /\ flags'[m] = isSpeech
          /\ \A k \in 1..Len(flags) : flags'[k] = flags[k]
      BY <1>1, <2>1, <3>1, FlagsGrow, Zenon DEF Known
    <3>3. ~isSpeech /\ ResetVad
      BY <2>2, Zenon DEF Cut
    <3>4. Onset'
      BY <3>2, <3>3, ResetOnset, Zenon
    <3>5. m = Len(flags) + 1 => ~Spoken(flags', seams', m)
      <4>1. m \in Run(m)
        BY <3>1, DriftedIs DEF Run
      <4> QED
        BY <3>2, <3>3, <4>1, Zenon DEF Spoken
    <3>6. m \in {Len(flags), Len(flags) + 1} /\ seams \subseteq seams'
      BY <1>1, <2>1, <3>1
    <3>7. \A f \in Kept : flags[f] => f \in Kept'
      BY <2>2, KeptClosed, Zenon
    <3> QED
      BY <3>2, <3>4, <3>5, <3>6, <3>7, RunsStay, Zenon
  <2>3. CASE Quiet /\ Listen(isSpeech)
    BY <2>1, <2>3, ListenHeard, Zenon
  <2>4. CASE Quiet /\ Hear(isSpeech)
    BY <2>1, <2>4, HearHeard, Zenon
  <2> QED
    BY <1>4, <2>2, <2>3, <2>4, ProcessStep, Zenon
<1>5. CASE ForceCut \/ Stop
  <2>1. PICK next : Flush(next)
    BY <1>5, Zenon DEF ForceCut, Stop
  <2>2. ResetVad /\ flags' = flags /\ seams' = seams \cup {n}
    BY <1>1, <2>1, Zenon DEF Flush
  <2>3. Onset'
    BY <1>1, <2>2, ResetOnset
  <2>4. \A f \in Kept : flags[f] => f \in Kept'
    <3>1. CASE isSpeaking
      BY <2>1, <3>1, FlushStep, KeptClosed, Zenon
    <3>2. CASE ~isSpeaking
      <4>1. log' = log /\ audio = <<>>
        BY <2>1, <3>2, FlushStep, Zenon DEF Known, Shape
      <4>2. ToSet(audio) = {}
        BY <4>1 DEF ToSet
      <4> QED
        BY <4>1, <4>2, Zenon DEF Kept
    <3> QED
      BY <3>1, <3>2
  <2>5. seams \subseteq seams'
    BY <2>2, Zenon
  <2> QED
    BY <1>2, <2>2, <2>3, <2>4, <2>5, Zenon
<1>6. CASE \E k \in FeedSizes : Feed(k)
  BY <1>3, <1>6, Zenon DEF Feed, Quiet
<1>7. CASE \E partial \in BOOLEAN : EndFeed(partial)
  <2>1. log' = log \/ log' = Append(log, Partial(audio))
    BY <1>7, Zenon DEF EndFeed
  <2>2. Quiet
    BY <2>1, MaybeLogged, LoggedQuietly
  <2> QED
    BY <1>3, <1>7, <2>2, Zenon DEF EndFeed
<1>8. CASE UNCHANGED vars
  BY <1>3, <1>8, Zenon DEF vars, Quiet
<1> QED
  BY <1>4, <1>5, <1>6, <1>7, <1>8, Zenon DEF Next

LEMMA InitHeard == Init => Heard /\ Onset
<1> SUFFICES ASSUME Init PROVE Heard /\ Onset
  OBVIOUS
<1>1. flags = <<>> /\ isSpeaking = FALSE /\ speechCount = 0 /\ preSpeech = <<>>
  BY Zenon DEF Init
<1>2. Len(flags) = 0 /\ Len(preSpeech) = 0 /\ StartFrames \in Nat \ {0}
  BY <1>1, DriftedIs
<1>3. StartFrames .. Len(flags) = {}
  BY <1>2
<1>4. Heard
  BY <1>3, Zenon DEF Heard
<1>5. Onset
  BY <1>1, <1>2 DEF Onset
<1> QED
  BY <1>4, <1>5

\* The onset rule loses nothing as long as the pre-roll holds all it counts.
HeardInv == PreSpeechFrames >= StartFrames => Heard /\ Onset

\* For every setting of the VAD and every judgement of the frames: with a pre-roll
\* as long as the onset rule, no frame of a run of speech that opens an utterance,
\* or is inside one, is lost to the onset rule, the pre-roll or a cut, and under any
\* setting no frame is reported twice (vad.py:160-250).
THEOREM NoSpeechIsLost == Spec => []SpeechIsHeard
<1>1. Known /\ HeardInv /\ [Next]_vars => HeardInv'
  <2>1. Known /\ [Next]_vars => Shape'
    BY NextShape DEF Known
  <2>2. HeardInv' <=> (PreSpeechFrames >= StartFrames => Heard' /\ Onset')
    BY DEF HeardInv
  <2> QED
    BY <2>1, <2>2, NextHeard, Zenon DEF HeardInv
<1>2. Init => HeardInv
  BY InitHeard, Zenon DEF HeardInv
<1>3. Spec => [](Known /\ LogFits /\ HeardInv)
  BY <1>1, <1>2, AlwaysKnown, AlwaysFits, PTL DEF Spec
<1>4. Known /\ LogFits /\ HeardInv => SpeechIsHeard
  <2> SUFFICES ASSUME Known, LogFits, HeardInv PROVE SpeechIsHeard
    OBVIOUS
  <2>1. Reported = ReportedIn(log)
    BY Zenon DEF Reported, ReportedIn
  <2>2. ASSUME PreSpeechFrames >= StartFrames, NEW last \in StartFrames .. Len(flags),
               \A f \in Run(last) : flags[f], seams \cap (Run(last) \ {last}) = {}
        PROVE  Run(last) \subseteq Reported \cup ToSet(audio)
    BY <2>1, <2>2, Zenon DEF HeardInv, Heard, Spoken, Kept
  <2>3. \A i, j \in 1 .. Len(log) :
          i < j /\ Closes(log[i]) /\ Closes(log[j]) =>
             ToSet(log[i].frames) \cap ToSet(log[j].frames) = {}
    BY Zenon DEF LogFits, LogIn
  <2>4. ToSet(audio) \cap Reported = {}
    <3>1. /\ Base \in Nat /\ Len(flags) \in Nat /\ Len(audio) \in Nat
          /\ Len(preSpeech) \in Nat /\ Base = Len(flags) - Len(audio) - Len(preSpeech)
      BY BaseIs DEF Known, Base
    <3>2. ToSet(audio) = Len(flags) - Len(audio) + 1 .. Len(flags)
      BY <3>1, RunFrames DEF Known, Shape
    <3>3. ToSet(audio) \cap (1 .. Base) = {}
      BY <3>1, <3>2
    <3>4. Reported \subseteq 1 .. Base
      BY Zenon DEF LogFits, LogIn, Reported
    <3> QED
      BY <3>3, <3>4, Zenon
  <2> QED
    BY <2>2, <2>3, <2>4, Zenon DEF SpeechIsHeard, Run
<1> QED
  BY <1>3, <1>4, PTL
===============================================================================
