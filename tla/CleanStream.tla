----------------------------- MODULE CleanStream -----------------------------
(***************************************************************************)
(* /asr/v1/clean-stream (clean_stream.py, clean_stream_ws): the receiver    *)
(* feeds a VAD stream, one worker transcribes the events it queues, every   *)
(* transcribed segment gets a post-processing task of its own, and commit   *)
(* waits for all of them before it sends transcription.done.                *)
(*                                                                          *)
(* A text is a sequence of tokens: utterance u is recognised as <<u>>, a    *)
(* partial of it as <<u>> or, different, as <<-u>>; the refined form of a   *)
(* segment is a value of its own.                                           *)
(***************************************************************************)
EXTENDS Integers, Sequences, SequencesExt, FiniteSets

CONSTANTS MaxUtterances,    \* bound: utterances the VAD cuts
          MaxPartials,      \* bound: partials queued
          MaxRejects        \* bound: messages answered with an error

ASSUME CleanStreamAssumption ==
    {MaxUtterances, MaxPartials, MaxRejects} \subseteq Nat

VARIABLES recv,             \* where the receiver is
          connected,        \* the client is still there
          options,          \* parse_options' result, as far as it steers the work
          audio,            \* total_audio_bytes > 0
          speaking,         \* the utterance the VAD is in, 0 when silent
          cut,              \* utterances cut so far
          queue, unfinished,  \* event_queue and its unfinished-task count
          worker, event, workerError,   \* process_events() and the event it is at
          raw,              \* raw_segments
          emitted,          \* emitted_text
          post,             \* post[i]: the post-processing task of segment i
          processed_segments, failed,  \* the forms of the segments, postprocess_failed
          out,              \* history: the messages sent
          silent,           \* history: utterances transcribed to nothing
          partials, rejects \* counts, for the bounds

receiver  == <<recv, connected, options, audio, speaking, cut>>
asr       == <<worker, event, workerError, raw, emitted, silent>>
cleanup   == <<post, processed_segments, failed>>
counts    == <<partials, rejects>>
cleanVars == <<receiver, queue, unfinished, asr, cleanup, out, counts>>

Options == [emotion : BOOLEAN, refine : {"off", "cleanup", "translate"}]
NoOptions == [emotion |-> FALSE, refine |-> "none"]

PartialOf(u) == [kind |-> "partial", utterance |-> u]
SegmentOf(u) == [kind |-> "segment", utterance |-> u]
Sentinel     == [kind |-> "none"]
Idle         == [kind |-> "idle"]

CleanInit ==
    /\ recv = "receiving" /\ connected = TRUE /\ options = NoOptions
    /\ audio = FALSE /\ speaking = 0 /\ cut = 0
    /\ queue = <<>> /\ unfinished = 0
    /\ worker = "none" /\ event = Idle /\ workerError = FALSE /\ raw = <<>> /\ emitted = <<>>
    /\ post = <<>> /\ processed_segments = <<>> /\ failed = FALSE
    /\ out = <<>> /\ partials = 0 /\ rejects = 0 /\ silent = {}

\* The finally block: the worker and every pending task are cancelled.
Close ==
    /\ recv' = "closed"
    /\ worker' = IF worker = "none" THEN worker ELSE "ended"
    /\ post' = [i \in DOMAIN post |-> IF post[i] = "done" THEN "done" ELSE "cancelled"]

Error(code) == [kind |-> "error", code |-> code]

\* A message the session refuses and survives.
Reject ==
    /\ recv = "receiving" /\ connected /\ rejects < MaxRejects
    /\ rejects' = rejects + 1
    /\ out' = Append(out, Error("refused"))
    /\ UNCHANGED <<receiver, queue, unfinished, asr, cleanup, partials>>

\* session.update, once: the options are fixed and the worker starts.
SessionUpdate ==
    /\ recv = "receiving" /\ connected /\ options = NoOptions
    /\ options' \in Options
    /\ worker' = "get"
    /\ UNCHANGED <<recv, connected, audio, speaking, cut, queue, unfinished, event,
                   workerError, raw, emitted, silent, cleanup, out, counts>>

\* enqueue_events(): a partial is queued only when nothing is waiting.
Enqueue(e) == queue' = Append(queue, e) /\ unfinished' = unfinished + 1

AppendQuiet ==
    /\ recv = "receiving" /\ connected /\ options # NoOptions
    /\ audio' = TRUE
    /\ speaking' = IF cut < MaxUtterances THEN cut + 1 ELSE 0
    /\ UNCHANGED <<recv, connected, options, cut, queue, unfinished, asr, cleanup,
                   out, counts>>

MayQueuePartial == queue = <<>>

AppendPartial ==
    /\ recv = "receiving" /\ connected /\ speaking # 0 /\ partials < MaxPartials
    /\ MayQueuePartial
    /\ Enqueue(PartialOf(speaking))
    /\ partials' = partials + 1
    /\ UNCHANGED <<receiver, asr, cleanup, out, rejects>>

AppendSegment ==
    /\ recv = "receiving" /\ connected /\ speaking # 0
    /\ Enqueue(SegmentOf(speaking))
    /\ cut' = speaking /\ speaking' = 0
    /\ UNCHANGED <<recv, connected, options, audio, asr, cleanup, out, counts>>

\* The client is gone.  The receiver notices at its next receive only; what is
\* sent from now on raises.
ClientLeaves ==
    /\ connected /\ recv # "closed"
    /\ connected' = FALSE
    /\ UNCHANGED <<recv, options, audio, speaking, cut, queue, unfinished, asr, cleanup,
                   out, counts>>

NoticeDisconnect ==
    /\ recv = "receiving" /\ ~connected
    /\ Close
    /\ UNCHANGED <<connected, options, audio, speaking, cut, queue, unfinished, event,
                   workerError, raw, emitted, silent, processed_segments, failed, out, counts>>

\* A terminal message, and the return: if the client is gone the send raises, and
\* the session ends all the same.
EndWith(message) ==
    /\ Close
    /\ out' = IF connected THEN Append(out, message) ELSE out
    /\ UNCHANGED <<connected, options, audio, speaking, cut, queue, unfinished, event,
                   workerError, raw, emitted, silent, processed_segments, failed, counts>>

CommitNoAudio ==
    /\ recv = "receiving" /\ connected /\ options # NoOptions /\ ~audio
    /\ EndWith(Error("no_audio"))

\* commit: the open utterance is flushed whatever its length.
Commit ==
    /\ recv = "receiving" /\ connected /\ audio
    /\ recv' = "joining"
    /\ cut' = IF speaking # 0 THEN speaking ELSE cut
    /\ speaking' = 0
    /\ IF speaking # 0 THEN Enqueue(SegmentOf(speaking))
       ELSE UNCHANGED <<queue, unfinished>>
    /\ UNCHANGED <<connected, options, audio, asr, cleanup, out, counts>>

\* event_queue.join() returns; the sentinel stops the worker.
Drained == unfinished = 0

Joined ==
    /\ recv = "joining" /\ Drained
    /\ recv' = "stopping"
    /\ Enqueue(Sentinel)
    /\ UNCHANGED <<connected, options, audio, speaking, cut, asr, cleanup, out, counts>>

ReportFailure ==
    /\ recv = "stopping" /\ worker = "ended" /\ workerError
    /\ EndWith(Error("server_error"))

ReportNoSpeech ==
    /\ recv = "stopping" /\ worker = "ended" /\ ~workerError /\ raw = <<>>
    /\ EndWith(Error("no_speech_detected"))

Gather ==
    /\ recv = "stopping" /\ worker = "ended" /\ ~workerError /\ raw # <<>>
    /\ recv' = "gathering"
    /\ UNCHANGED <<connected, options, audio, speaking, cut, queue, unfinished, asr,
                   cleanup, out, counts>>

\* Sent as soon as the worker ended: a plausible slip.
PostGathered_WorkerOnly == worker = "ended"

PostGathered == \A i \in DOMAIN post : post[i] = "done"

SendDone ==
    /\ recv = "gathering" /\ PostGathered
    /\ EndWith([kind |-> "done", text |-> raw,
                cleaned |-> [i \in DOMAIN raw |->
                               IF processed_segments[i] = "refined" THEN "refined" ELSE "raw"],
                status |-> IF options.refine = "off" THEN "none"
                           ELSE IF failed THEN "degraded_raw_only" ELSE "completed"])

------------------------------------------------------------------------------
(* The worker, process_events(). *)

\* task_done() and back to get().
TaskDone == unfinished' = unfinished - 1 /\ worker' = "get" /\ event' = Idle

\* The newest event first.
Get_Newest ==
    /\ worker = "get" /\ queue # <<>>
    /\ queue' = Front(queue)
    /\ IF Last(queue) = Sentinel
       THEN worker' = "ended" /\ unfinished' = unfinished - 1 /\ UNCHANGED event
       ELSE IF workerError THEN TaskDone
       ELSE worker' = "asking" /\ event' = Last(queue) /\ UNCHANGED unfinished
    /\ UNCHANGED <<receiver, workerError, raw, emitted, silent, cleanup, out, counts>>

\* After a failure the rest of the queue is only drained.
Get ==
    /\ worker = "get" /\ queue # <<>>
    /\ queue' = Tail(queue)
    /\ IF Head(queue) = Sentinel
       THEN worker' = "ended" /\ unfinished' = unfinished - 1 /\ UNCHANGED event
       ELSE IF workerError THEN TaskDone
       ELSE worker' = "asking" /\ event' = Head(queue) /\ UNCHANGED unfinished
    /\ UNCHANGED <<receiver, workerError, raw, emitted, silent, cleanup, out, counts>>

Delta(text, e) == [kind |-> "delta", text |-> text, from |-> e]

\* Sends the text when it changed; a send to a client that left raises.
SendText(text) ==
    IF text = emitted \/ text = <<>> THEN UNCHANGED <<emitted, workerError, out>>
    ELSE IF connected
    THEN /\ out' = Append(out, Delta(text, event)) /\ emitted' = text
         /\ UNCHANGED workerError
    ELSE workerError' = TRUE /\ UNCHANGED <<emitted, out>>

AskedFor(kind) == worker = "asking" /\ event.kind = kind

\* A partial's recognition may fail without consequence; its text is shown behind
\* what is confirmed.
PartialAnswered ==
    /\ AskedFor("partial")
    /\ \/ UNCHANGED <<emitted, workerError, out>>
       \/ \E tail \in {<<>>, <<event.utterance>>, <<-event.utterance>>} :
             SendText(raw \o tail)
    /\ TaskDone
    /\ UNCHANGED <<receiver, queue, raw, silent, cleanup, counts>>

\* A failed segment is skipped like a failed partial.
SegmentFailed_Skipped ==
    /\ AskedFor("segment")
    /\ TaskDone
    /\ UNCHANGED <<receiver, queue, workerError, raw, emitted, silent, cleanup, out, counts>>

\* A failure leaves without task_done().
SegmentFailed_NoTaskDone ==
    /\ AskedFor("segment")
    /\ workerError' = TRUE
    /\ worker' = "get" /\ event' = Idle
    /\ UNCHANGED <<receiver, queue, unfinished, raw, emitted, silent, cleanup, out, counts>>

\* A segment's recognition that fails ends the work for good.
SegmentFailed ==
    /\ AskedFor("segment")
    /\ workerError' = TRUE
    /\ TaskDone
    /\ UNCHANGED <<receiver, queue, raw, emitted, silent, cleanup, out, counts>>

SegmentSilent ==
    /\ AskedFor("segment")
    /\ silent' = silent \union {event.utterance}
    /\ TaskDone
    /\ UNCHANGED <<receiver, queue, workerError, raw, emitted, cleanup, out, counts>>

\* A transcribed segment is confirmed, sent, and handed to its own task, unless
\* the send raised.
FirstStep == IF options.emotion THEN "emotion"
             ELSE IF options.refine # "off" THEN "refine" ELSE "done"

SegmentAnswered ==
    /\ AskedFor("segment")
    /\ raw' = Append(raw, event.utterance)
    /\ processed_segments' = Append(processed_segments, "unset")
    /\ SendText(raw')
    /\ post' = IF workerError' THEN post ELSE Append(post, FirstStep)
    /\ TaskDone
    /\ UNCHANGED <<receiver, queue, silent, failed, counts>>

------------------------------------------------------------------------------
(* The post-processing task of segment i, postprocess_segment(). *)

\* Any exception, a send to a client that left included, falls back to the raw
\* text.
Degrade(i) ==
    /\ failed' = TRUE
    /\ processed_segments' = [processed_segments EXCEPT ![i] = "raw"]
    /\ post' = [post EXCEPT ![i] = "done"]
    /\ UNCHANGED out

PostFails(i) ==
    /\ post[i] \in {"emotion", "refine"}
    /\ Degrade(i)
    /\ UNCHANGED <<receiver, queue, unfinished, asr, counts>>

EmotionAnswered(i) ==
    /\ post[i] = "emotion" /\ connected
    /\ post' = [post EXCEPT ![i] = IF options.refine # "off" THEN "refine" ELSE "done"]
    /\ out' = Append(out, [kind |-> "emotion", index |-> i])
    /\ UNCHANGED <<receiver, queue, unfinished, asr, processed_segments, failed, counts>>

\* The refined text, or, when a clean-up looks like a rewrite, the raw one
\* (evaluate_cleanup_result); a translation is not judged.
Refined(i, text) ==
    /\ processed_segments' = [processed_segments EXCEPT ![i] = text]
    /\ failed' = (failed \/ text = "raw")

RefineAnswered(i) ==
    /\ post[i] = "refine" /\ connected
    /\ \E text \in {"refined", "raw"} :
          /\ options.refine = "translate" => text = "refined"
          /\ Refined(i, text)
          /\ out' = Append(out, [kind |-> "postprocess", index |-> i, text |-> text])
    /\ post' = [post EXCEPT ![i] = "done"]
    /\ UNCHANGED <<receiver, queue, unfinished, asr, counts>>

CleanNext ==
    \/ Reject \/ SessionUpdate \/ AppendQuiet \/ AppendPartial \/ AppendSegment
    \/ ClientLeaves \/ NoticeDisconnect \/ CommitNoAudio \/ Commit
    \/ Joined \/ ReportFailure \/ ReportNoSpeech \/ Gather \/ SendDone
    \/ Get \/ PartialAnswered \/ SegmentFailed \/ SegmentSilent \/ SegmentAnswered
    \/ \E i \in DOMAIN post : PostFails(i) \/ EmotionAnswered(i) \/ RefineAnswered(i)

\* The event loop runs what is ready, and every upstream call has a timeout.
CleanFairness ==
    /\ WF_cleanVars(Joined \/ ReportFailure \/ ReportNoSpeech \/ Gather \/ SendDone)
    /\ WF_cleanVars(NoticeDisconnect)
    /\ WF_cleanVars(Get \/ PartialAnswered \/ SegmentFailed \/ SegmentSilent \/ SegmentAnswered)
    /\ \A i \in 1 .. MaxUtterances :
          WF_cleanVars(/\ i \in DOMAIN post
                       /\ PostFails(i) \/ EmotionAnswered(i) \/ RefineAnswered(i))

CleanSpec == CleanInit /\ [][CleanNext]_cleanVars /\ CleanFairness

------------------------------------------------------------------------------

Terminal(m) == m.kind = "done" \/ (m.kind = "error" /\ m.code # "refused")

\* transcription.done is the whole story (clean_stream.py:571): it is sent last,
\* after every segment's recognition and post-processing has ended; it holds the
\* text of every utterance the VAD cut, in order; each cleaned segment is the one
\* its task announced, and the status says whether one of them had to fall back.
DoneIsComplete ==
    \A k \in 1 .. Len(out) : Terminal(out[k]) =>
        /\ k = Len(out)
        /\ out[k].kind = "done" =>
              /\ ToSet(out[k].text) = (1 .. cut) \ silent
              /\ \A i \in 2 .. Len(out[k].text) : out[k].text[i - 1] < out[k].text[i]
              /\ \A i \in DOMAIN post : post[i] = "done"
              /\ options.refine # "off" => \A i \in DOMAIN raw :
                    out[k].cleaned[i] = "refined" <=>
                       \E j \in 1 .. k : out[j] = [kind |-> "postprocess", index |-> i,
                                                  text |-> "refined"]
              /\ (out[k].status = "completed") =
                    /\ options.refine # "off"
                    /\ \A i \in DOMAIN raw : processed_segments[i] = "refined"

\* A failed recognition is never passed off as a result (clean_stream.py:460): a
\* session that ends in front of its client ends with a terminal message, with
\* done only if every utterance was recognised.
OutcomeIsTold ==
    recv = "closed" /\ connected =>
        /\ out # <<>> /\ Terminal(Last(out))
        /\ (Last(out).kind = "done") =>
              ToSet(raw) \union silent = 1 .. cut /\ ~workerError
        /\ (Last(out).kind = "error" /\ Last(out).code = "no_speech_detected") =>
              silent = 1 .. cut

\* The text a client sees never goes back (clean_stream.py:473): what is
\* confirmed stays in front, and an utterance that was confirmed, or found
\* silent, gets no more partials.
Confirmed == ToSet(raw) \union silent

PartialsStayBehind ==
    [][ \A e \in {PartialOf(u) : u \in 1 .. MaxUtterances} :
          event = e /\ out' # out /\ Last(out').kind = "delta" =>
             /\ e.utterance \notin Confirmed
             /\ \A u \in Confirmed : u < e.utterance
             /\ IsPrefix(raw, Last(out').text) ]_cleanVars

\* commit is always answered: the session ends (clean_stream.py:571).
CommitEndsSession ==
    recv \in {"joining", "stopping", "gathering"} ~> recv = "closed"
==============================================================================
