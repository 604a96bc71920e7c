------------------------------ MODULE K2Stream ------------------------------
(***************************************************************************)
(* The stream that leaves endpointing to a gRPC recogniser                  *)
(* (streaming/k2_stream.py) under the asynchronous path of the session      *)
(* (run(), _receive_loop, _stream_event_loop, cleanup() of session.py).     *)
(*                                                                          *)
(* PCM is counted in samples; whether a chunk is loud enough to count as    *)
(* speech, whether the voice gate is convinced by it, and whether a buffer  *)
(* is more than digital silence is chosen freely.                           *)
(* The recogniser is external: it takes requests and sends events as it     *)
(* likes, may stall, and may end or break off the call at any time.         *)
(***************************************************************************)
EXTENDS Integers, Sequences, SequencesExt, FiniteSets

CONSTANTS RequestMax,       \* maxsize of _request_q
          IdleKeep,         \* samples kept of an idle buffer (k2_idle_keep_ms)
          MaxSegment,       \* samples in a segment (k2_max_segment_sec), 0: no cap
          Chunks,           \* bound: samples in one feed
          MaxSamples,       \* bound: samples in one session
          MaxPartials       \* bound: partials the recogniser sends

ASSUME K2Assumption ==
    /\ RequestMax \in Nat \ {0} /\ {IdleKeep, MaxSegment} \subseteq Nat
    /\ Chunks \subseteq Nat \ {0} /\ {MaxSamples, MaxPartials} \subseteq Nat

VARIABLES recv,             \* the receive loop; flush() is its "eos" and "sentinel"
          raised,           \* feed() raised: the loop fails instead of ending
          requests,         \* _request_q
          closing, closed,  \* _closing, _closed
          call,             \* the gRPC call: "live", or how it ended
          bufStart, bufLen, \* _buffer_start_sample, samples in _buffer
          total,            \* _total_samples
          sawPartial, idleSpeech,         \* _saw_partial, _idle_seen_speech
          gate, hasVoice,   \* the voice gate: enabled, convinced
          seq, active,      \* _segment_seq; is a segment id allotted?
          events,           \* _event_q
          log,              \* history: the events put, the sentinel excepted
          loop,             \* the event loop
          main,             \* run(), cleanup() and aclose()
          partials

request == <<requests, closing>>
buffer  == <<bufStart, bufLen, total, sawPartial, idleSpeech, hasVoice, seq, active>>
output  == <<events, log>>
tasks   == <<recv, raised, loop, main>>
vars    == <<tasks, request, closed, call, buffer, gate, output, partials>>

SENTINEL == [kind |-> "sentinel"]

Init ==
    /\ recv = "receiving" /\ raised = FALSE
    /\ requests = <<>> /\ closing = FALSE /\ closed = FALSE /\ call = "live"
    /\ bufStart = 0 /\ bufLen = 0 /\ total = 0
    /\ sawPartial = FALSE /\ idleSpeech = FALSE
    /\ gate \in BOOLEAN /\ hasVoice = ~gate
    /\ seq = 0 /\ active = FALSE
    /\ events = <<>> /\ log = <<>>
    /\ loop = "reading" /\ main = "running" /\ partials = 0

Put(es)    == events' = events \o es /\ log' = log \o es
PutEnd(es) == events' = events \o Append(es, SENTINEL) /\ log' = log \o es

\* The id of the segment under way, allotted on first use.
SegmentId == IF active THEN seq ELSE seq + 1

\* _reset_buffer() on a stream of t samples.
ResetBuffer(t) ==
    /\ bufLen' = 0 /\ bufStart' = t /\ total' = t
    /\ sawPartial' = FALSE /\ idleSpeech' = FALSE
    /\ hasVoice' = ~gate

\* _emit_buffered_segment() of a buffer of n samples from s: nothing of an empty
\* one; digital silence without a partial, and what the gate does not believe,
\* use up the id and are dropped.
Forwarded(n, sound, voice) == n > 0 /\ (sawPartial \/ sound) /\ voice

SegmentOf(s, n, stop) ==
    [kind |-> "segment", id |-> SegmentId, start |-> s, end |-> s + n, stop |-> stop]

Emitted(s, n, sound, voice, stop) ==
    IF Forwarded(n, sound, voice) THEN <<SegmentOf(s, n, stop)>> ELSE <<>>

\* The id stays allotted after its segment: a plausible slip.
EmitIds_Kept(n) ==
    IF n = 0 THEN UNCHANGED <<seq, active>> ELSE seq' = SegmentId /\ active' = TRUE

EmitIds(n) ==
    IF n = 0 THEN UNCHANGED <<seq, active>> ELSE seq' = SegmentId /\ active' = FALSE

\* _emit_buffered_segment() from the receive side.
Buffered(sound, stop) == Emitted(bufStart, bufLen, sound, hasVoice, stop)

------------------------------------------------------------------------------
(* The receive loop. *)

\* Idle audio is trimmed to its newest IdleKeep samples.
Trimmed(n, idle) == IF ~idle \/ IdleKeep = 0 \/ n <= IdleKeep THEN n ELSE IdleKeep

\* The voice gate counts consecutive frames above its threshold; once they are
\* enough it stays convinced until the segment ends.
Convinced(isVoice) == hasVoice \/ isVoice

\* _idle_seen_speech: so does the idle buffer that heard a loud chunk.
SpeechHeard(isLoud) == idleSpeech \/ isLoud

CutIsDue(n) == MaxSegment > 0 /\ n >= MaxSegment

\* feed(): buffer, queue the request, trim, and cut at the cap.  A full request
\* queue raises after the audio was buffered.  Nothing is done once closed.
Feed(n, isLoud, isVoice) ==
    LET size  == bufLen + n
        voice == Convinced(isVoice)
        speech == SpeechHeard(isLoud)
        kept  == Trimmed(size, ~sawPartial /\ ~speech)
        start == total + n - kept
    IN
    /\ recv = "receiving" /\ ~closing /\ ~closed
    /\ IF Len(requests) >= RequestMax
       THEN /\ raised' = TRUE /\ recv' = "eos"
            /\ total' = total + n /\ bufLen' = size
            /\ idleSpeech' = speech /\ hasVoice' = voice
            /\ UNCHANGED <<requests, bufStart, sawPartial, seq, active, output>>
       ELSE /\ requests' = Append(requests, "audio")
            /\ UNCHANGED <<raised, recv>>
            /\ IF CutIsDue(kept)
               THEN /\ \E sound \in BOOLEAN : Put(Emitted(start, kept, sound, voice, FALSE))
                    /\ EmitIds(kept)
                    /\ ResetBuffer(total + n)
               ELSE /\ total' = total + n /\ bufLen' = kept /\ bufStart' = start
                    /\ idleSpeech' = speech /\ hasVoice' = voice
                    /\ UNCHANGED <<sawPartial, seq, active, output>>
    /\ UNCHANGED <<loop, main, closing, closed, call, gate, partials>>

\* stop, or a disconnect: flush() announces the end of the audio, unless the
\* stream is closed already.
EndInput ==
    /\ recv = "receiving"
    /\ recv' = "eos"
    /\ UNCHANGED <<raised, loop, main, request, closed, call, buffer, gate, output, partials>>

FlushClosed ==
    /\ recv = "eos" /\ closed /\ ~closing
    /\ recv' = "done"
    /\ UNCHANGED <<raised, loop, main, request, closed, call, buffer, gate, output, partials>>

\* flush(): two puts that wait for room.
PutRequest(from, to, r) ==
    /\ recv = from /\ Len(requests) < RequestMax
    /\ requests' = Append(requests, r)
    /\ recv' = to
    /\ UNCHANGED <<raised, loop, main, closing, closed, call, buffer, gate, output, partials>>

BeginFlush ==
    /\ recv = "eos" /\ ~closed /\ ~closing
    /\ closing' = TRUE
    /\ UNCHANGED <<tasks, requests, closed, call, buffer, gate, output, partials>>

\* Only the end of the stream is announced; the iterator never stops.
FlushSentinel_Forgotten ==
    /\ recv = "sentinel"
    /\ recv' = "done"
    /\ UNCHANGED <<raised, loop, main, request, closed, call, buffer, gate, output, partials>>

FlushEos      == closing /\ PutRequest("eos", "sentinel", "eos")
FlushSentinel == PutRequest("sentinel", "done", "sentinel")

------------------------------------------------------------------------------
(* The recogniser and _recv_loop(). *)

TakeRequest ==
    /\ call = "live" /\ requests # <<>> /\ Head(requests) # "sentinel"
    /\ requests' = Tail(requests)
    /\ UNCHANGED <<tasks, closing, closed, call, buffer, gate, output, partials>>

\* The iterator stops at the sentinel: the sending side is closed.
HalfClose ==
    /\ call = "live" /\ requests # <<>> /\ Head(requests) = "sentinel"
    /\ requests' = Tail(requests)
    /\ call' = "half"
    /\ UNCHANGED <<tasks, closing, closed, buffer, gate, output, partials>>

Live == call \in {"live", "half"}

\* A partial is shown whatever the gate says.
ReceivePartial_Ungated ==
    /\ Live /\ ~closed /\ partials < MaxPartials
    /\ partials' = partials + 1
    /\ sawPartial' = TRUE
    /\ seq' = SegmentId /\ active' = TRUE
    /\ Put(<<[kind |-> "partial", id |-> SegmentId]>>)
    /\ UNCHANGED <<tasks, request, closed, call, gate, bufStart, bufLen, total, idleSpeech,
                   hasVoice>>

\* A partial marks the segment as heard; its text, if it has any and partials are
\* enabled, is shown under the id of the segment when the gate agrees.
ReceivePartial ==
    /\ Live /\ ~closed /\ partials < MaxPartials
    /\ partials' = partials + 1
    /\ sawPartial' = TRUE
    /\ \/ UNCHANGED <<seq, active, output>>
       \/ /\ seq' = SegmentId /\ active' = TRUE
          /\ Put(IF hasVoice THEN <<[kind |-> "partial", id |-> SegmentId]>> ELSE <<>>)
    /\ UNCHANGED <<tasks, request, closed, call, gate, bufStart, bufLen, total, idleSpeech,
                   hasVoice>>

ReceiveEndpoint ==
    /\ Live /\ ~closed
    /\ \E sound \in BOOLEAN : Put(Buffered(sound, closing))
    /\ EmitIds(bufLen) /\ ResetBuffer(total)
    /\ UNCHANGED <<tasks, request, closed, call, gate, partials>>

\* The loop ends: with session_ended, with an error payload or a failed call, or
\* with a call that just finishes, which leaves the buffer where it is.
ReceiveEnd ==
    /\ Live /\ ~closed
    /\ \/ /\ \E sound \in BOOLEAN :
                \/ call' = "ended" /\ PutEnd(Buffered(sound, TRUE))
                \/ call' = "failed" /\ PutEnd(Append(Buffered(sound, TRUE), [kind |-> "exception"]))
          /\ EmitIds(bufLen) /\ ResetBuffer(total)
       \/ call' = "finished" /\ PutEnd(<<>>) /\ UNCHANGED buffer
    /\ closed' = TRUE
    /\ UNCHANGED <<tasks, request, gate, partials>>

------------------------------------------------------------------------------
(* The event loop, run() and aclose(). *)

\* events(): the sentinel ends the loop, an exception raises out of it.
Dispatch ==
    /\ loop = "reading" /\ events # <<>>
    /\ events' = Tail(events)
    /\ loop' = IF Head(events).kind \in {"sentinel", "exception"} THEN "done" ELSE "reading"
    /\ UNCHANGED <<recv, raised, main, request, closed, call, buffer, gate, log, partials>>

\* run() waits for the receive loop, then for the event loop; a receive loop that
\* raised is not followed by a wait.
LoopsReturned == recv = "done" /\ (raised \/ loop = "done")

Cleanup ==
    /\ main = "running" /\ LoopsReturned
    /\ main' = IF closed THEN "ended" ELSE "closing"
    /\ closing' = (closing \/ ~closed)
    /\ UNCHANGED <<recv, raised, loop, requests, closed, call, buffer, gate, output, partials>>

\* aclose(): the sentinel is put first, waiting for room, and only then is the
\* call cancelled; _recv_loop leaves through its finally block.
AcloseSentinel ==
    /\ main = "closing" /\ Len(requests) < RequestMax
    /\ requests' = Append(requests, "sentinel")
    /\ main' = "cancelling"
    /\ UNCHANGED <<recv, raised, loop, closing, closed, call, buffer, gate, output, partials>>

AcloseCancel ==
    /\ main = "cancelling"
    /\ main' = "ended"
    /\ IF closed THEN UNCHANGED <<call, output>>
       ELSE call' = "cancelled" /\ PutEnd(<<>>)
    /\ closed' = TRUE
    /\ UNCHANGED <<recv, raised, loop, request, buffer, gate, partials>>

Next ==
    \/ \E n \in Chunks, isLoud, isVoice \in BOOLEAN :
          total + n <= MaxSamples /\ Feed(n, isLoud, isVoice)
    \/ EndInput \/ FlushClosed \/ BeginFlush \/ FlushEos \/ FlushSentinel
    \/ TakeRequest \/ HalfClose \/ ReceivePartial \/ ReceiveEndpoint \/ ReceiveEnd
    \/ Dispatch \/ Cleanup \/ AcloseSentinel \/ AcloseCancel

\* The event loop runs what is ready.  Of the recogniser it is assumed that it
\* ends a call whose sending side is closed, and nothing else: it may stall.
Fairness ==
    /\ WF_vars(FlushClosed \/ BeginFlush \/ FlushEos \/ FlushSentinel)
    /\ WF_vars(Dispatch)
    /\ WF_vars(Cleanup \/ AcloseSentinel \/ AcloseCancel)
    /\ WF_vars(call = "half" /\ ReceiveEnd)

Spec == Init /\ [][Next]_vars /\ Fairness

------------------------------------------------------------------------------

TypeOK ==
    /\ recv \in {"receiving", "eos", "sentinel", "done"}
    /\ {raised, closing, closed, sawPartial, idleSpeech, gate, hasVoice, active}
          \subseteq BOOLEAN
    /\ requests \in Seq({"audio", "eos", "sentinel"}) /\ Len(requests) <= RequestMax
    /\ call \in {"live", "half", "ended", "failed", "finished", "cancelled"}
    /\ {bufStart, bufLen, total, seq} \subseteq Nat
    /\ bufStart + bufLen = total
    /\ loop \in {"reading", "done"}
    /\ main \in {"running", "closing", "cancelling", "ended"}

SegmentsAt == {i \in DOMAIN log : log[i].kind = "segment"}

\* Segments are cut from one continuous stream (k2_stream.py:352): their spans
\* are not empty, in order and disjoint, none reaches past the audio fed, and no
\* two, and no later partial, use an id again.
SpansAndIdsAdvance ==
    /\ \A i \in SegmentsAt : log[i].start < log[i].end /\ log[i].end <= total
    /\ \A i, j \in SegmentsAt : i < j => log[i].end <= log[j].start
    /\ \A i \in SegmentsAt, j \in DOMAIN log :
          i < j /\ log[j].kind \in {"segment", "partial"} => log[i].id < log[j].id

\* A client shows a partial under its id until the segment of that id replaces
\* it (k2_stream.py:252).  With the voice gate on, an id that was shown gets its
\* segment before the next id is used, and before the recogniser's end is told,
\* unless the call merely finished or was cancelled.
PartialsAreReplaced ==
    gate => \A i \in DOMAIN log : log[i].kind = "partial" =>
        LET replaced(n) == \E j \in i + 1 .. n : log[j].kind = "segment" /\ log[j].id = log[i].id
        IN  /\ \A k \in i + 1 .. Len(log) :
                  log[k].kind \in {"segment", "partial"} /\ log[k].id # log[i].id => replaced(k)
            /\ call \in {"ended", "failed"} => replaced(Len(log))
            /\ Live => replaced(Len(log)) \/ (bufLen > 0 /\ active /\ seq = log[i].id)

\* A blocking put into a queue whose consumer is gone or stalled.
Jammed ==
    /\ Len(requests) = RequestMax
    /\ (recv \in {"eos", "sentinel"} /\ closing) \/ main = "closing"

\* Once the input has ended the session ends, by the recogniser or by aclose(),
\* except in the one jam the code allows: a put that waits for room in a queue
\* nobody empties, or a sentinel a stalled recogniser does not take
\* (k2_stream.py:192).
EndsOrJams ==
    recv # "receiving" ~> \/ main = "ended"
                          \/ Jammed
                          \/ call = "live" /\ ToSet(requests) \cap {"eos", "sentinel"} # {}
==============================================================================
