------------------------------- MODULE AsrTask -------------------------------
(***************************************************************************)
(* The recognition of a session of /tuling/ast/v3 or /transcribe-streaming: *)
(* the engine (tasks/asr.py) cuts each segment by its speaker turns,        *)
(* prepares the audio of each part (audio/vad.py), asks one or two models   *)
(* (asr/client.py) and sends what they say through the codec of the         *)
(* connection.  The native codec hands on audio and messages as they are.   *)
(*                                                                          *)
(* The enrolment and the recall configured for a part are chosen anew for   *)
(* every part: no property relates those of two parts.                      *)
(***************************************************************************)
EXTENDS AstV3Protocol, AsrConfig

CONSTANTS MaxSegments,      \* bound: segments of a session
          SegmentLength,    \* bound: frames of a segment
          TurnSets,         \* bound: the turns the sidecar may report for one
          Minimums,         \* min_segment_duration_ms, in frames
          MinSilence,       \* asr_silence_removal_threshold_sec, in frames
          GateFrames,       \* asr_segment_voice_gate_min_ms, in frames
          PreFrames, TailFrames   \* asr_segment_voice_filter_pre_ms, _tail_ms

ASSUME TaskAssumption ==
    /\ SegmentLength \in Nat \ {0}
    /\ \A turns \in TurnSets : turns \subseteq [from : Int, to : Int, who : Int] /\ IsFiniteSet(turns)
    /\ Minimums \subseteq Nat
    /\ {MinSilence, GateFrames, PreFrames, TailFrames} \subseteq Nat

VARIABLES endpoint,         \* the endpoint of the session
          models,           \* the models its configuration asks
          segments,         \* segments whose handling has begun
          task,             \* where handle_segment() is
          cut,              \* the parts of the segment and what they were cut from
          at,               \* the part it is at
          flags, kept,      \* voice per frame of the part, the frames prepared for ASR
          primary, secondary   \* the two model calls

session == <<endpoint, models>>
engine == <<segments, task, cut, at, flags, kept, primary, secondary>>
vars == <<session, decoder, encoder, engine>>

\* The cuts split_segment_by_speaker() can make, with what the turns said.
Cuts == {[parts    |-> Split(turns, SegmentLength, minimum),
          speakers |-> {t.who : t \in Inside(turns, SegmentLength)},
          minimum  |-> minimum] : turns \in TurnSets, minimum \in Minimums}

NoCut == [parts |-> <<>>, speakers |-> {}, minimum |-> 0]
\* Of the primary call: whether its request has embeddings of the audio, whether
\* it carries the enrolment, and whether the call holds that it was applied.
NoCall == [state |-> "none", embeds |-> FALSE, carries |-> FALSE, applied |-> FALSE,
           enrollment |-> "none"]

Init ==
    /\ ProtocolInit
    /\ endpoint \in Endpoints
    /\ endpoint = "native" => ~wav /\ ~roles
    /\ models \in {Asked(c) : c \in SessionConfigs(endpoint)}
    /\ segments = 0 /\ task = "idle" /\ cut = NoCut /\ at = 0
    /\ flags = <<>> /\ kept = <<>>
    /\ primary = NoCall /\ secondary = "none"

\* Segments come from the audio received, and one at a time.  Without role
\* separation, that only AST v3 sessions have, no turns are asked for.
BeginSegment ==
    /\ task = "idle" /\ (endpoint = "astv3" => resolved /\ base < passed) /\ segments < MaxSegments /\ ~terminated
    /\ segments' = segments + 1
    /\ \E c \in Cuts : cut' = c /\ (~roles => c.speakers = {})
    /\ task' = "part" /\ at' = 1
    /\ UNCHANGED <<session, decoder, encoder, flags, kept, primary, secondary>>

Part == cut.parts[at]

\* handle_segment()'s loop goes on with the next part, or returns.
NextPart ==
    /\ flags' = <<>> /\ kept' = <<>> /\ primary' = NoCall /\ secondary' = "none"
    /\ IF at < Len(cut.parts) THEN task' = "part" /\ at' = at + 1 /\ UNCHANGED cut
       ELSE task' = "idle" /\ at' = 0 /\ cut' = NoCut

\* trim_long_silence_for_asr(): a silence of MinSilence frames or more with
\* voice on both sides is removed.
RunOf(f, p) ==
    [from |-> Max({0} \cup {q \in 1..p : f[q]}), to |-> Min({Len(f) + 1} \cup {q \in p..Len(f) : f[q]})]

Trimmed(f) ==
    Ascending({p \in DOMAIN f : \/ f[p]
                                \/ RunOf(f, p).from = 0 \/ RunOf(f, p).to = Len(f) + 1
                                \/ RunOf(f, p).to - RunOf(f, p).from <= MinSilence})

Voiced(f) == {p \in DOMAIN f : f[p]}

\* filter_speech_for_asr(): the gate, then the voiced frames with a margin of
\* what is left around them.
GateAccepts(f) == Cardinality(Voiced(f)) >= GateFrames

Filtered_NoTail(f, s) ==
    LET near(k) == \E j \in DOMAIN s : f[s[j]] /\ j - PreFrames <= k /\ k < j + TailFrames
        stays   == Ascending({k \in DOMAIN s : near(k)})
    IN  IF \E j \in DOMAIN s : f[s[j]] THEN [k \in DOMAIN stays |-> s[stays[k]]] ELSE s
Filtered(f, s) ==
    LET near(k) == \E j \in DOMAIN s : f[s[j]] /\ j - PreFrames <= k /\ k <= j + TailFrames
        stays   == Ascending({k \in DOMAIN s : near(k)})
    IN  IF \E j \in DOMAIN s : f[s[j]] THEN [k \in DOMAIN stays |-> s[stays[k]]] ELSE s

PreparePart ==
    /\ task = "part"
    /\ flags' \in [1..Length(Part) -> BOOLEAN]
    /\ kept' = Filtered(flags', Trimmed(flags'))
    /\ task' = IF GateAccepts(flags') THEN "prepared" ELSE "gated"
    /\ UNCHANGED <<session, decoder, encoder, segments, cut, at, primary, secondary>>

\* The gate hears no voice in the part: nothing is asked and nothing sent.
SkipGated ==
    /\ task = "gated"
    /\ NextPart
    /\ UNCHANGED <<session, decoder, encoder, segments>>

Enrollments == {"none", "clip", "id"}

\* With recall, the primary call first asks the recall service; an enrolment
\* known by id only can join the request as an embedding the service returns.
CallOf(enrollment, recall) ==
    [state |-> IF recall THEN "recall" ELSE "post", embeds |-> FALSE,
     carries |-> enrollment = "clip", applied |-> enrollment = "clip",
     enrollment |-> enrollment]

\* Role separation and an enrolment exclude each other.
AskModels ==
    /\ task = "prepared"
    /\ \E enrollment \in Enrollments, recall \in BOOLEAN :
         /\ roles => enrollment = "none"
         /\ primary' = IF "primary" \in models THEN CallOf(enrollment, recall)
                       ELSE [NoCall EXCEPT !.enrollment = enrollment]
    /\ secondary' = IF "secondary" \in models THEN "post" ELSE "none"
    /\ task' = "asked" /\ flags' = <<>> /\ kept' = <<>>
    /\ UNCHANGED <<session, decoder, encoder, segments, cut, at>>

UnchangedButCalls ==
    UNCHANGED <<session, decoder, encoder, segments, task, cut, at, flags, kept>>

\* recall_audio(): what the service may return.  Without a clip it can be asked
\* for the embeddings of the audio, and for those of an enrolment known by id.
Recalled(enrollment) ==
    {r \in [embeds : BOOLEAN, found : BOOLEAN] :
        (r.embeds => enrollment # "clip") /\ (r.found => enrollment = "id")}

\* A failed recall is logged, and is as one that returned nothing.
RecallReturns ==
    /\ primary.state = "recall"
    /\ \E r \in Recalled(primary.enrollment) :
         primary' = [primary EXCEPT !.state = "post", !.embeds = r.embeds,
                                    !.carries = @ \/ r.found, !.applied = @ \/ r.found]
    /\ UNCHANGED secondary /\ UnchangedButCalls

\* parse_model_output(): does what the model wrote hold a transcription?
Parsed == {"text", "empty"}

\* The model server answers, and the call says whether the enrolment applied.
PrimaryAnswers ==
    /\ primary.state = "post"
    /\ \E a \in Parsed : primary' = [primary EXCEPT !.state = a]
    /\ UNCHANGED secondary /\ UnchangedButCalls

\* A request with the embeddings of the audio is made again without any.
PrimaryRetries_KeepsFlag ==
    /\ primary.state = "post" /\ primary.embeds
    /\ primary' = [primary EXCEPT !.embeds = FALSE, !.carries = FALSE]
    /\ UNCHANGED secondary /\ UnchangedButCalls
PrimaryRetries ==
    /\ primary.state = "post" /\ primary.embeds
    /\ primary' = [primary EXCEPT !.embeds = FALSE, !.carries = FALSE, !.applied = FALSE]
    /\ UNCHANGED secondary /\ UnchangedButCalls

\* It fails otherwise, or primary_asr_timeout ends it in whatever state.
PrimaryFails ==
    /\ primary.state \in {"recall", "post"}
    /\ primary' = [primary EXCEPT !.state = "failed"]
    /\ UNCHANGED secondary /\ UnchangedButCalls

SecondaryAnswers ==
    /\ secondary = "post"
    /\ secondary' \in Parsed \cup {"failed"}
    /\ UNCHANGED primary /\ UnchangedButCalls

Answered == primary.state \in {"text", "empty"}

PrimaryDone == primary.state \in {"none", "text", "empty", "failed"}

\* _enrollment_applied_for_final(): what the primary call says, if it answered.
EnrollmentApplied == IF Answered THEN primary.applied ELSE primary.enrollment = "clip"

\* _select_text(): the secondary's when the primary has none, one of the two when
\* both have, the primary's when it was asked alone.
TextSelected == secondary = "text" \/ (secondary = "none" /\ primary.state = "text")

\* NativeProtocol.encode_outbound()
SendAsIs(speaker, applied) ==
    /\ wire' = Append(wire, Sentence(speaker, applied))
    /\ UNCHANGED <<roles, segId, lastSpeaker, terminated>>

SendFinal ==
    /\ task = "asked" /\ PrimaryDone
    /\ TextSelected
    /\ \/ endpoint = "astv3" /\ EncodeSentence(Part.who, EnrollmentApplied)
       \/ endpoint = "native" /\ SendAsIs(Part.who, EnrollmentApplied)
    /\ NextPart
    /\ UNCHANGED <<session, decoder, segments>>

\* The secondary hears nothing: the primary is cancelled.  Or the primary, asked
\* alone, hears nothing.
SkipSilent ==
    /\ task = "asked"
    /\ secondary = "empty" \/ (secondary = "none" /\ primary.state = "empty")
    /\ NextPart
    /\ UNCHANGED <<session, decoder, encoder, segments>>

\* A secondary that fails raises out of _dual_asr(), whatever the primary does;
\* so does a primary that was asked alone, and no model at all.  The other parts of the segment are
\* given up, and the work loop sends an error.
RaiseError ==
    /\ task = "asked"
    /\ secondary = "failed" \/ (secondary = "none" /\ primary.state \in {"none", "failed"})
    /\ UNCHANGED encoder
    /\ task' = "idle" /\ at' = 0 /\ cut' = NoCut
    /\ primary' = NoCall /\ secondary' = "none"
    /\ UNCHANGED <<session, decoder, segments, flags, kept>>

\* On a stop, or when the client has left; a refused session has no terminal frame.
EndSession ==
    /\ task = "idle" /\ inbound # "refused"
    /\ EncodeTerminal
    /\ UNCHANGED <<session, decoder, engine>>

ReceiveFrame ==
    /\ endpoint = "astv3" /\ ~terminated
    /\ \/ \E n \in 0..Bytes, last \in BOOLEAN : received + n <= Bytes /\ Frame(n, last)
       \/ FrameRefused
    /\ UNCHANGED <<session, engine>>

Next ==
    \/ ReceiveFrame \/ EndSession
    \/ BeginSegment \/ PreparePart \/ SkipGated \/ AskModels
    \/ RecallReturns \/ PrimaryAnswers \/ PrimaryRetries \/ PrimaryFails \/ SecondaryAnswers
    \/ SendFinal \/ SkipSilent \/ RaiseError

Spec == Init /\ [][Next]_vars

------------------------------------------------------------------------------
\* However the turns of the sidecar overlap, leave gaps or reach beyond it, the
\* parts cover the segment exactly: no frame is lost or recognised twice, no two
\* neighbours are of one speaker, every speaker was reported, and only a segment
\* left whole is shorter than the minimum (turns.py:70-170).
PartsPartition ==
    task # "idle" =>
        LET p == cut.parts IN
        /\ p[1].from = 0 /\ p[Len(p)].to = SegmentLength
        /\ \A i \in DOMAIN p : p[i].from < p[i].to
        /\ \A i \in 2..Len(p) : p[i].from = p[i - 1].to /\ p[i].who # p[i - 1].who
        /\ \A i \in DOMAIN p : p[i].who \in cut.speakers \/ (cut.speakers = {} /\ p[i].who = Nobody)
        /\ Len(p) > 1 => \A i \in DOMAIN p : Length(p[i]) >= cut.minimum

InLongPause(q) ==
    /\ ~flags[q]
    /\ RunOf(flags, q).from # 0 /\ RunOf(flags, q).to # Len(flags) + 1
    /\ RunOf(flags, q).to - RunOf(flags, q).from > MinSilence

\* The two passes over the audio cost no voice: what is asked of the models has
\* every voiced frame, in order, and around each the promised margin, except
\* where a long pause was taken out whole (vad.py:307-596).
SpeechSurvives ==
    task = "prepared" =>
        /\ \A p \in Voiced(flags) : \A q \in DOMAIN flags \cap p - PreFrames..p + TailFrames :
              q \in {kept[k] : k \in DOMAIN kept} \/ InLongPause(q)
        /\ \A k \in 2..Len(kept) : kept[k - 1] < kept[k]

\* enrollment_applied tells the truth when the primary answered: it is set
\* exactly if the request that was answered carried the enrolment, whatever the
\* recall service returned and whatever had to be asked again
\* (client.py:558-590).
EnrollmentFlagIsHonest ==
    [][(Len(wire') > Len(wire) /\ Answered) => Last(wire').applied = primary.carries]_vars
==============================================================================
