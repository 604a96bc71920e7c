------------------------------ MODULE VadStream ------------------------------
(***************************************************************************)
(* The segmenting audio stream: VADProcessor (audio/vad.py) inside         *)
(* VadSegmentedStream (streaming/audio_stream.py).  A feed of PCM is cut   *)
(* into hops; every hop ("frame") is judged speech or not, and the stream  *)
(* turns the judgements into SpeechStarted, PartialSnapshot, SegmentReady  *)
(* and SpeechDropped.  A frame is its number; how its audio is scored is   *)
(* external, so the judgement of each frame is chosen freely.              *)
(***************************************************************************)
EXTENDS Integers, Sequences, SequencesExt, FiniteSets

CONSTANTS Hop,              \* samples in a frame
          StartFrames, SilenceFrames, PreSpeechFrames, KeepTailFrames,
          MinSegment,       \* samples: min_segment_duration_ms
          FirstPartial,     \* samples: pseudo_stream_first_partial_ms
          MaxSpeech,        \* samples: max_segment_sec of an offline recording
          FeedSizes,        \* bound: samples in one feed
          MaxPartials,      \* bound: partials of one recording
          MaxFrames         \* bound: frames in one recording

\* The clamps of _set_tunables, and of Config for the partial's floor.
ASSUME VadAssumption ==
    /\ {Hop, StartFrames, SilenceFrames, PreSpeechFrames} \subseteq Nat \ {0}
    /\ {KeepTailFrames, MinSegment, FirstPartial, MaxSpeech, MaxPartials, MaxFrames} \subseteq Nat
    /\ FeedSizes \subseteq Nat
    /\ FirstPartial <= MinSegment

VARIABLES offline,          \* segment_pcm_offline() feeds it, no connection
          carry,            \* samples kept for the next feed (_pcm_carry)
          consumed,         \* _consumed_samples, the clock at the feed's start
          offset, used,     \* samples of this feed processed, and to process
          phase,            \* between calls, inside feed(), or after the last flush
          preSpeech, audio, isSpeaking, speechCount, silentCount,   \* the VAD
          announced,        \* _announced_speech
          flags,            \* history: the judgement of every frame
          seams,            \* history: the frames after which the stream was flushed
          log               \* history: the events returned, in order

vad  == <<preSpeech, audio, isSpeaking, speechCount, silentCount>>
feed == <<carry, consumed, offset, used, phase>>
vars == <<offline, feed, vad, announced, flags, seams, log>>

Started        == [kind |-> "started"]
Dropped(frames) == [kind |-> "dropped", frames |-> frames]
Partial(frames) == [kind |-> "partial", frames |-> frames]

\* Stamped from the clock of the last feed that ended: a plausible slip.
Segment_Early(frames, end) ==
    [kind |-> "segment", frames |-> frames, end |-> consumed,
     start |-> LET s == consumed - Hop * Len(frames) IN IF s > 0 THEN s ELSE 0]

\* SegmentReady, stamped with where its audio ends on the session's clock.
Segment(frames, end) ==
    [kind |-> "segment", frames |-> frames, end |-> end,
     start |-> LET s == end - Hop * Len(frames) IN IF s > 0 THEN s ELSE 0]

Init ==
    /\ offline \in BOOLEAN
    /\ carry = 0 /\ consumed = 0 /\ offset = 0 /\ used = 0 /\ phase = "idle"
    /\ preSpeech = <<>> /\ audio = <<>> /\ isSpeaking = FALSE
    /\ speechCount = 0 /\ silentCount = 0
    /\ announced = FALSE /\ flags = <<>> /\ seams = {} /\ log = <<>>

ResetVad ==
    /\ preSpeech' = <<>> /\ audio' = <<>> /\ isSpeaking' = FALSE
    /\ speechCount' = 0 /\ silentCount' = 0

\* Speech without a pause is long enough to be cut.
CutIsDue == offline /\ MaxSpeech > 0 /\ isSpeaking /\ Hop * Len(audio) >= MaxSpeech

\* feed(): n samples join the carry; the whole hops are processed one by one
\* and the rest is carried over.
Feed(n) ==
    /\ phase = "idle" /\ ~CutIsDue
    /\ used' = ((carry + n) \div Hop) * Hop
    /\ carry' = (carry + n) - used'
    /\ offset' = 0 /\ phase' = "feeding"
    /\ UNCHANGED <<offline, consumed, vad, announced, flags, seams, log>>

\* The frame the loop is at.
Frame == Len(flags) + 1

\* process(), silent: the frame joins the pre-roll, which keeps its newest
\* PreSpeechFrames frames.  Enough speech in a row opens an utterance that
\* begins with the pre-roll, and the stream announces it.
PreRoll ==
    LET q == Append(preSpeech, Frame)
    IN  IF Len(q) > PreSpeechFrames THEN Tail(q) ELSE q

Listen(isSpeech) ==
    /\ ~isSpeaking
    /\ LET count == IF isSpeech THEN speechCount + 1 ELSE 0
       IN  /\ speechCount' = count
           /\ IF count >= StartFrames
              THEN /\ isSpeaking' = TRUE /\ silentCount' = 0
                   /\ audio' = audio \o PreRoll /\ preSpeech' = <<>>
                   /\ announced' = TRUE
                   /\ log' = IF announced THEN log ELSE Append(log, Started)
              ELSE /\ preSpeech' = PreRoll
                   /\ UNCHANGED <<audio, isSpeaking, silentCount, announced, log>>

\* process(), speaking: the frame joins the utterance.
Hear(isSpeech) ==
    /\ isSpeaking
    /\ isSpeech \/ silentCount + 1 < SilenceFrames
    /\ audio' = Append(audio, Frame)
    /\ silentCount' = IF isSpeech THEN 0 ELSE silentCount + 1
    /\ UNCHANGED <<preSpeech, isSpeaking, speechCount, announced, log>>

\* Trims as if no tail were kept and one frame more.
TrimTail_OffByOne(frames) == SubSeq(frames, 1, Len(frames) - SilenceFrames - 1)

\* The silence that ends an utterance is trimmed to a short tail.
TrimTail(frames) ==
    LET keep == IF KeepTailFrames < SilenceFrames THEN KeepTailFrames ELSE SilenceFrames
    IN  SubSeq(frames, 1, Len(frames) - (SilenceFrames - keep))

\* A short utterance is dropped without a word.
Finalized_Silent(segment, end) ==
    IF Hop * Len(segment) >= MinSegment THEN Append(log, Segment(segment, end)) ELSE log

\* feed(): what becomes of a finished utterance.
Finalized(segment, end) ==
    IF Hop * Len(segment) >= MinSegment THEN Append(log, Segment(segment, end))
    ELSE IF announced THEN Append(log, Dropped(segment))
    ELSE log

\* process(), speaking, and the frame completes the silence: the utterance is
\* cut, and too short a one only retracts its announcement.
Cut(isSpeech) ==
    /\ isSpeaking /\ ~isSpeech
    /\ silentCount + 1 >= SilenceFrames
    /\ log' = Finalized(TrimTail(Append(audio, Frame)), consumed + offset + Hop)
    /\ announced' = FALSE
    /\ ResetVad

Process(isSpeech) ==
    /\ phase = "feeding" /\ offset < used
    /\ Listen(isSpeech) \/ Hear(isSpeech) \/ Cut(isSpeech)
    /\ offset' = offset + Hop
    /\ flags' = Append(flags, isSpeech)
    /\ UNCHANGED <<offline, carry, consumed, used, phase, seams>>

\* feed() returns.  With partials on, and the interval over, an utterance that
\* is long enough is also reported as it stands.
EndFeed(partial) ==
    /\ phase = "feeding" /\ offset = used
    /\ consumed' = consumed + used
    /\ phase' = "idle"
    /\ partial => ~offline /\ isSpeaking /\ Hop * Len(audio) >= FirstPartial
    /\ log' = IF partial THEN Append(log, Partial(audio)) ELSE log
    /\ UNCHANGED <<offline, carry, offset, used, vad, announced, flags, seams>>

\* flush(force=True), the only way it is called: an open utterance is emitted
\* however short it is; the carry stays.
Flush(next) ==
    /\ phase = "idle"
    /\ log' = IF isSpeaking /\ audio # <<>> THEN Append(log, Segment(audio, consumed))
              ELSE IF announced THEN Append(log, Dropped(<<>>))
              ELSE log
    /\ seams' = seams \union {Len(flags)}
    /\ announced' = FALSE
    /\ ResetVad
    /\ phase' = next
    /\ UNCHANGED <<offline, carry, consumed, offset, used, flags>>

\* segment_pcm_offline() flushes in the middle of speech that is too long, and
\* goes on feeding.
ForceCut == CutIsDue /\ Flush("idle")

\* The end of the audio.
Stop == ~CutIsDue /\ Flush("stopped")

Next ==
    \/ \E n \in FeedSizes : consumed + carry + n < Hop * (MaxFrames + 1) /\ Feed(n)
    \/ \E isSpeech \in BOOLEAN : Process(isSpeech)
    \/ \E partial \in BOOLEAN :
          /\ partial => Len(SelectSeq(log, LAMBDA e : e.kind = "partial")) < MaxPartials
          /\ EndFeed(partial)
    \/ ForceCut \/ Stop

Spec == Init /\ [][Next]_vars

------------------------------------------------------------------------------

Frames == Seq(Nat \ {0})

TypeOK ==
    /\ {carry, consumed, offset, used, speechCount, silentCount} \subseteq Nat
    /\ carry < Hop /\ offset <= used
    /\ phase \in {"idle", "feeding", "stopped"}
    /\ {offline, isSpeaking, announced} \subseteq BOOLEAN
    /\ preSpeech \in Frames /\ audio \in Frames
    /\ Len(preSpeech) <= PreSpeechFrames

Consecutive(frames) == \A i \in 2 .. Len(frames) : frames[i] = frames[i - 1] + 1

Closes(e) == e.kind \in {"segment", "dropped"}

\* After its first n events the log holds a start that is not closed yet.
Open(n) ==
    \E i \in 1 .. n : /\ log[i].kind = "started"
                      /\ \A j \in i + 1 .. n : log[j].kind = "partial"

\* A client that shows a placeholder on SpeechStarted and takes it away on a
\* segment or a drop never gets out of step (audio_stream.py:152): starts and
\* closes alternate, partials come only in between, and while an utterance is
\* open exactly one start is unanswered.
AnnouncementsPaired ==
    /\ \A i \in 1 .. Len(log) : Open(i - 1) = (log[i].kind # "started")
    /\ isSpeaking = Open(Len(log))

\* What was reported: the frames of the segments and of the dropped utterances.
Reported == UNION {ToSet(log[i].frames) : i \in {j \in 1 .. Len(log) : Closes(log[j])}}

\* No speech is lost to the onset rule, the pre-roll or a cut: with a pre-roll
\* as long as the onset rule, every frame of a run of StartFrames speech frames
\* that no flush interrupts is in a segment, in a dropped utterance or in the
\* open one; and a cut trims silence only.  Nothing is reported twice
\* (vad.py:197).
SpeechIsHeard ==
    /\ PreSpeechFrames >= StartFrames =>
          \A last \in StartFrames .. Len(flags) :
             LET run == last - StartFrames + 1 .. last
             IN  (\A f \in run : flags[f]) /\ seams \cap (run \ {last}) = {} => run \subseteq Reported \union ToSet(audio)
    /\ \A i, j \in 1 .. Len(log) :
          i < j /\ Closes(log[i]) /\ Closes(log[j]) =>
             ToSet(log[i].frames) \cap ToSet(log[j].frames) = {}
    /\ ToSet(audio) \cap Reported = {}

\* The stamps a transcript shows (audio_stream.py:225): a segment spans as much
\* time as it has audio, segments do not overlap, none ends after the audio that
\* was fed, and a stamp is never early and late by the trimmed silence at most.
Drift == Hop * (IF KeepTailFrames < SilenceFrames THEN SilenceFrames - KeepTailFrames ELSE 0)

StampsFollowTheAudio ==
    \A i \in 1 .. Len(log) : log[i].kind = "segment" =>
        LET s == log[i] IN
        /\ Consecutive(s.frames)
        /\ s.end - s.start = Hop * Len(s.frames)
        /\ s.end <= consumed + (IF phase = "feeding" THEN offset ELSE 0)
        /\ s.start - Hop * (Head(s.frames) - 1) \in 0 .. Drift
        /\ \A j \in 1 .. i - 1 : log[j].kind = "segment" => log[j].end <= s.start
=============================================================================
