-------------------------- MODULE StreamingSession --------------------------
(***************************************************************************)
(* One WebSocket connection: backend/streaming/session.py driving a VAD    *)
(* stream (backend/streaming/audio_stream.py) and the ASR engine           *)
(* (backend/tasks/asr.py) or the emotion engine (backend/tasks/emotion.py).*)
(*                                                                         *)
(* Four asyncio tasks share the session: the receive loop, the work loop   *)
(* that answers finished segments one at a time, at most one pseudo-       *)
(* streaming partial, and run()/cleanup() of the endpoint.  Between two    *)
(* suspension points a task runs alone, so each action below is the code   *)
(* between two awaits that can suspend.  A stream is abstracted to its     *)
(* utterances, numbered in the order in which their speech begins; a       *)
(* finished one becomes a segment unless the VAD drops it as too short.    *)
(***************************************************************************)
EXTENDS Naturals, Sequences, FiniteSets

CONSTANTS
  QueueMax,        \* maxsize of _work_queue (40 in the code)
  MaxUtterances,   \* bound: utterances in the audio
  MaxUpdates,      \* bound: update_hotwords messages
  MaxRejects,      \* bound: start messages answered by an error
  MaxPartials      \* bound: partials launched

ASSUME SessionAssumption ==
  /\ QueueMax \in Nat \ {0}
  /\ MaxUtterances \in Nat /\ MaxUpdates \in Nat
  /\ MaxRejects \in Nat /\ MaxPartials \in Nat

VARIABLES
  endpoint,    \* which WebSocket endpoint built the session: its protocol and its engine
  connected,   \* is the client still there to receive?
  wsClosed,    \* _ws_closed: a send has failed
  started,     \* _started
  stopped,     \* _stopped
  suppressed,  \* _suppress_terminal
  recv,        \* the receive loop
  work,        \* the work loop
  main,        \* run() and cleanup()
  queue,       \* _work_queue
  item,        \* the segment in the work loop's hands
  sentAny,     \* _sent_any_response
  utt,         \* utterances begun so far; the last one is the open one
  speaking,    \* does the VAD hold an open utterance?
  hot,         \* version of ctx.hotwords: the update messages applied so far
  partials,    \* utterances whose partial is in flight (_partial_task)
  launched,    \* partials launched so far
  wire,        \* the frames the client received
  rejects,     \* start messages answered by an error
  cutHot       \* history: version of ctx.hotwords when a segment was cut

client == <<endpoint, connected, started, stopped, suppressed, rejects>>
stream == <<utt, speaking, hot, launched>>
history == <<cutHot>>
vars == <<client, wsClosed, recv, work, main, queue, item, sentAny, stream,
          partials, wire, history>>

\* /transcribe-streaming, /tuling/ast/v3 and /emotion-segmented-streaming.
Endpoints == {"transcribe", "ast", "emotion"}
\* AST v3 frames its messages and ends with a terminal frame.
sendsTerminal == endpoint = "ast"
\* The engine of emotion recognition: it answers every segment, promises nothing
\* for a silent session, and its stream takes no snapshots for partials.
EmotionTaskEngine == endpoint = "emotion"
takesSnapshots == endpoint # "emotion"

Utterances == 1..MaxUtterances
Segments == [utt : Utterances, hot : 0..MaxUpdates]
SENTINEL == [utt |-> 0, hot |-> 0]
Frames == [kind : {"final", "error", "partial", "terminal"}, utt : 0..MaxUtterances,
           hot : 0..MaxUpdates]

Frame(k, u, h) == [kind |-> k, utt |-> u, hot |-> h]

ClientTypes ==
  /\ endpoint \in Endpoints
  /\ connected \in BOOLEAN /\ started \in BOOLEAN
  /\ stopped \in BOOLEAN /\ suppressed \in BOOLEAN
  /\ rejects \in 0..MaxRejects

TaskTypes ==
  /\ recv \in {"receiving", "closing", "failing", "done", "failed"}
  /\ work \in {"idle", "inferring", "stopping", "done"}
  /\ main \in {"running", "cleaning", "ended"}
  /\ sentAny \in BOOLEAN

StreamTypes ==
  /\ utt \in 0..MaxUtterances /\ speaking \in BOOLEAN
  /\ hot \in 0..MaxUpdates
  /\ launched \in 0..MaxPartials /\ partials \subseteq Utterances

QueueTypes ==
  /\ queue \in Seq(Segments \cup {SENTINEL}) /\ Len(queue) <= QueueMax
  /\ item \in Segments \cup {SENTINEL}
  /\ cutHot \in [Utterances -> 0..MaxUpdates]

WireTypes == wire \in Seq(Frames) /\ wsClosed \in BOOLEAN

TypeOK == ClientTypes /\ TaskTypes /\ StreamTypes /\ QueueTypes /\ WireTypes

Init ==
  /\ endpoint \in Endpoints
  /\ connected = TRUE /\ wsClosed = FALSE
  /\ started = FALSE /\ stopped = FALSE /\ suppressed = FALSE
  /\ recv = "receiving" /\ work = "idle" /\ main = "running"
  /\ queue = <<>> /\ item = SENTINEL /\ sentAny = FALSE
  /\ utt = 0 /\ speaking = FALSE /\ hot = 0
  /\ partials = {} /\ launched = 0
  /\ wire = <<>> /\ rejects = 0
  /\ cutHot = [u \in Utterances |-> 0]

-----------------------------------------------------------------------------
(* Sending. *)

SendSucceeds == connected /\ ~wsClosed

\* _send_wire: a failed send sets _ws_closed, and later sends are not tried.
SendWire(f) ==
  IF SendSucceeds
    THEN wire' = Append(wire, f) /\ UNCHANGED wsClosed
    ELSE wsClosed' = TRUE /\ UNCHANGED wire

\* A message the protocol does not put on the wire.
SendNothing == UNCHANGED <<wire, wsClosed>>

-----------------------------------------------------------------------------
(* The receive loop. *)

\* _enqueue_segment: put_nowait with a snapshot of the context, dropped if full.
EnqueueSegment(u) ==
  IF Len(queue) < QueueMax
    THEN /\ queue' = Append(queue, [utt |-> u, hot |-> hot])
         /\ cutHot' = [cutHot EXCEPT ![u] = hot]
    ELSE UNCHANGED <<queue, cutHot>>

\* stream.flush(force=True): the open utterance, if any, becomes a segment.
FlushStream ==
  /\ speaking' = FALSE
  /\ IF speaking THEN EnqueueSegment(utt) ELSE UNCHANGED <<queue, history>>

ReceiveStart ==
  /\ recv = "receiving" /\ ~started
  /\ started' = TRUE
  /\ UNCHANGED <<endpoint, connected, stopped, suppressed, rejects, wsClosed, recv, work, main,
                 queue, item, sentAny, stream, partials, wire, history>>

\* An invalid hotword_pool_id, or a ValueError of on_start: an error frame, and
\* the session is not started.
ReceiveBadStart ==
  /\ recv = "receiving" /\ ~started /\ rejects < MaxRejects
  /\ rejects' = rejects + 1
  /\ SendWire(Frame("error", 0, 0))
  /\ UNCHANGED <<endpoint, connected, started, stopped, suppressed, recv, work, main,
                 queue, item, sentAny, stream, partials, history>>

\* AST v3 turns an inconsistent first frame into an "error" control, which ends
\* the session without a terminal frame.
ReceiveErrorControl ==
  /\ recv = "receiving" /\ ~started /\ sendsTerminal
  /\ SendWire(Frame("error", 0, 0))
  /\ suppressed' = TRUE
  /\ recv' = "closing"
  /\ UNCHANGED <<endpoint, connected, started, stopped, rejects, work, main,
                 queue, item, sentAny, stream, partials, history>>

ReceiveUpdateHotwords ==
  /\ recv = "receiving" /\ hot < MaxUpdates
  /\ hot' = hot + 1
  /\ UNCHANGED <<client, wsClosed, recv, work, main, queue, item, sentAny, utt, speaking, launched,
                 partials, wire, history>>

AcceptsPcm == recv = "receiving" /\ started /\ ~stopped

SpeechBegins ==
  /\ AcceptsPcm /\ ~speaking /\ utt < MaxUtterances
  /\ utt' = utt + 1
  /\ speaking' = TRUE
  /\ UNCHANGED <<client, wsClosed, recv, work, main, queue, item, sentAny, hot, launched,
                 partials, wire, history>>

\* _maybe_launch_partial: one partial in flight at a time.
LaunchPartial_Overlapping ==
  /\ AcceptsPcm /\ takesSnapshots /\ speaking /\ launched < MaxPartials
  /\ partials' = partials \cup {utt}
  /\ launched' = launched + 1
  /\ UNCHANGED <<client, wsClosed, recv, work, main, queue, item, sentAny, utt, speaking, hot,
                 wire, history>>
LaunchPartial ==
  /\ AcceptsPcm /\ takesSnapshots /\ speaking /\ launched < MaxPartials
  /\ partials = {}
  /\ partials' = {utt}
  /\ launched' = launched + 1
  /\ UNCHANGED <<client, wsClosed, recv, work, main, queue, item, sentAny, utt, speaking, hot,
                 wire, history>>

\* The VAD closes the utterance: a segment, or dropped as too short.
SpeechEnds ==
  /\ AcceptsPcm /\ speaking
  /\ speaking' = FALSE
  /\ \/ EnqueueSegment(utt)
     \/ UNCHANGED <<queue, history>>
  /\ UNCHANGED <<client, wsClosed, recv, work, main, item, sentAny, utt, hot, launched,
                 partials, wire>>

\* stop: flush, leave the loop (the loop's own flush then finds nothing).
ReceiveStop ==
  /\ recv = "receiving"
  /\ stopped' = TRUE
  /\ FlushStream
  /\ recv' = "closing"
  /\ UNCHANGED <<endpoint, connected, started, suppressed, rejects, wsClosed, work, main,
                 item, sentAny, utt, hot, launched, partials, wire>>

ReceiveDisconnect ==
  /\ recv = "receiving" /\ ~connected
  /\ FlushStream
  /\ recv' = "closing"
  /\ UNCHANGED <<client, wsClosed, work, main, item, sentAny, utt, hot, launched, partials, wire>>

\* decode_inbound or feed raises (an AST header that is no object, PCM with an
\* odd number of bytes): only the finally block of the loop runs.
ReceiveRaises ==
  /\ recv = "receiving" /\ (sendsTerminal \/ AcceptsPcm)
  /\ FlushStream
  /\ recv' = "failing"
  /\ UNCHANGED <<client, wsClosed, work, main, item, sentAny, utt, hot, launched, partials, wire>>

\* await _work_queue.put(_SENTINEL): blocks while the queue is full.
PutSentinel_Forgotten ==
  /\ recv \in {"closing", "failing"}
  /\ recv' = IF recv = "closing" THEN "done" ELSE "failed"
  /\ UNCHANGED <<client, wsClosed, work, main, queue, item, sentAny, stream,
                 partials, wire, history>>
PutSentinel ==
  /\ recv \in {"closing", "failing"}
  /\ Len(queue) < QueueMax
  /\ queue' = Append(queue, SENTINEL)
  /\ recv' = IF recv = "closing" THEN "done" ELSE "failed"
  /\ UNCHANGED <<client, wsClosed, work, main, item, sentAny, stream,
                 partials, wire, history>>

-----------------------------------------------------------------------------
(* The work loop. *)

TakeItem ==
  /\ work = "idle" /\ queue # <<>>
  /\ item' = Head(queue)
  /\ queue' = Tail(queue)
  /\ work' = IF Head(queue) = SENTINEL THEN "stopping" ELSE "inferring"
  /\ UNCHANGED <<client, wsClosed, recv, main, sentAny, stream, partials, wire, history>>

\* handle_segment sends a final with the hotwords of the snapshot.
AnswerFinal_LiveContext ==
  /\ work = "inferring"
  /\ SendWire(Frame("final", item.utt, hot))
  /\ sentAny' = (sentAny \/ SendSucceeds)
  /\ work' = "idle"
  /\ UNCHANGED <<client, recv, main, queue, item, stream, partials, history>>
AnswerFinal_Forgotten ==
  /\ work = "inferring"
  /\ SendWire(Frame("final", item.utt, item.hot))
  /\ work' = "idle"
  /\ UNCHANGED <<client, recv, main, queue, item, sentAny, stream, partials, history>>
AnswerFinal ==
  /\ work = "inferring"
  /\ SendWire(Frame("final", item.utt, item.hot))
  /\ sentAny' = (sentAny \/ SendSucceeds)
  /\ work' = "idle"
  /\ UNCHANGED <<client, recv, main, queue, item, stream, partials, history>>

\* The voice gate, the noise gate or an empty transcript: nothing is sent.
AnswerNothing ==
  /\ work = "inferring" /\ ~EmotionTaskEngine
  /\ work' = "idle"
  /\ UNCHANGED <<client, wsClosed, recv, main, queue, item, sentAny, stream,
                 partials, wire, history>>

\* handle_segment raises (both models failed, a timeout): an error frame, and
\* the loop is left if it cannot be sent.
AnswerError ==
  /\ work = "inferring"
  /\ SendWire(Frame("error", item.utt, 0))
  /\ work' = IF SendSucceeds THEN "idle" ELSE "stopping"
  /\ UNCHANGED <<client, recv, main, queue, item, sentAny, stream, partials, history>>

\* on_stop: an empty final (suppressed by AST v3) if nothing was sent; the
\* emotion engine of a segmented stream sends none.
OnStop_Nothing ==
  /\ work = "stopping"
  /\ SendNothing
  /\ work' = "done"
  /\ UNCHANGED <<client, recv, main, queue, item, sentAny, stream, partials, history>>
OnStop ==
  /\ work = "stopping"
  /\ IF stopped /\ ~sentAny /\ endpoint = "transcribe"
       THEN SendWire(Frame("final", 0, 0))
       ELSE SendNothing
  /\ work' = "done"
  /\ UNCHANGED <<client, recv, main, queue, item, sentAny, stream, partials, history>>

-----------------------------------------------------------------------------
(* The partial task, the endpoint and the client. *)

\* handle_partial returns: the partial is sent, or suppressed or failed.
PartialReturns(u) ==
  /\ u \in partials
  /\ partials' = partials \ {u}
  /\ SendWire(Frame("partial", u, 0)) \/ SendNothing
  /\ UNCHANGED <<client, recv, work, main, queue, item, sentAny, stream, history>>

\* gather() returns when both loops did, or at once when the receive loop raised.
LoopsReturned_ReceiveOnly == recv \in {"done", "failed"}
LoopsReturned == (recv = "done" /\ work = "done") \/ recv = "failed"

EmitTerminal ==
  /\ main = "running" /\ LoopsReturned
  /\ main' = "cleaning"
  /\ IF sendsTerminal /\ ~suppressed
       THEN SendWire(Frame("terminal", 0, 0))
       ELSE SendNothing
  /\ UNCHANGED <<client, recv, work, queue, item, sentAny, stream, partials, history>>

\* cleanup() cancels the partial; the endpoint returns and the socket closes.
Cleanup ==
  /\ main = "cleaning"
  /\ main' = "ended"
  /\ partials' = {}
  /\ connected' = FALSE
  /\ UNCHANGED <<endpoint, started, stopped, suppressed, rejects, wsClosed, recv, work,
                 queue, item, sentAny, stream, wire, history>>

ClientLeaves ==
  /\ connected
  /\ connected' = FALSE
  /\ UNCHANGED <<endpoint, started, stopped, suppressed, rejects, wsClosed, recv, work, main,
                 queue, item, sentAny, stream, partials, wire, history>>

-----------------------------------------------------------------------------
Receive ==
  \/ ReceiveStart \/ ReceiveBadStart \/ ReceiveErrorControl \/ ReceiveUpdateHotwords
  \/ SpeechBegins \/ LaunchPartial \/ SpeechEnds
  \/ ReceiveStop \/ ReceiveDisconnect \/ ReceiveRaises \/ PutSentinel

Answer == AnswerFinal \/ AnswerNothing \/ AnswerError

Work == TakeItem \/ Answer \/ OnStop

Next ==
  \/ Receive
  \/ Work
  \/ \E u \in Utterances : PartialReturns(u)
  \/ EmitTerminal
  \/ Cleanup
  \/ ClientLeaves

\* Ready tasks run, model calls end by their timeouts, and the server is told
\* when the peer is gone.  The client need not send anything.
Fairness ==
  /\ WF_vars(Work) /\ WF_vars(PutSentinel) /\ WF_vars(ReceiveDisconnect)
  /\ WF_vars(EmitTerminal) /\ WF_vars(Cleanup)
  /\ \A u \in Utterances : WF_vars(PartialReturns(u))

Spec == Init /\ [][Next]_vars /\ Fairness

-----------------------------------------------------------------------------
(* Properties. *)

Sent(k) == {i \in DOMAIN wire : wire[i].kind = k}

\* A client that is still there when run() has returned from its loops.
Clean == main = "cleaning" /\ recv = "done" /\ ~wsClosed

\* Finals arrive in the order of their speech, at most one per utterance, and
\* the empty final of on_stop comes only if it is the only final.
FinalsInOrder ==
  \A i, k \in Sent("final") : i < k => 0 < wire[i].utt /\ wire[i].utt < wire[k].utt

\* A segment is transcribed with the hotwords in force when it was cut, although
\* it may be answered after later updates.
HotwordsOfTheCut ==
  \A i \in Sent("final") : wire[i].utt # 0 => wire[i].hot = cutHot[wire[i].utt]

\* Partials never run backwards from a later utterance to an earlier one.
PartialsInOrder ==
  \A i, k \in Sent("partial") : i < k => wire[i].utt <= wire[k].utt

\* "Emit it here, after every queued segment has drained": if neither loop
\* failed, nothing is queued or in flight when the terminal frame goes out.
DrainedBeforeTerminal ==
  Clean => queue = <<>> /\ work = "done"

\* After a stop, a /transcribe-streaming client that stays gets a final or an error before the
\* session ends, even if no speech was heard.
StopIsAnswered ==
  Clean /\ stopped /\ endpoint = "transcribe" => Sent("final") \cup Sent("error") # {}

\* The session ends once its input has ended, unless the work loop gave up with
\* the queue full.
SessionEndsOrJams ==
  recv # "receiving" ~> main = "ended" \/ (work = "done" /\ Len(queue) = QueueMax)

\* An AST v3 client has every sentence before the terminal frame, as long as no
\* frame made the receive loop raise.
FinalsBeforeTerminal ==
  recv \notin {"failing", "failed"} =>
    \A i \in Sent("final"), k \in Sent("terminal") : i < k
=============================================================================
