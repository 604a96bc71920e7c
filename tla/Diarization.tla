----------------------------- MODULE Diarization -----------------------------
(***************************************************************************)
(* The speaker timeline of one AST connection: DiarizationSession          *)
(* (backend/diarization/client.py) and the stream of the sidecar that      *)
(* serves it (services/diarization/server.py, Diarize).                    *)
(*                                                                         *)
(* On the client side the receive loop of the session feeds audio and      *)
(* calls start(), finish() and aclose(); its work loop calls turns_for();  *)
(* a task of its own receives events.  None of them suspends while it      *)
(* holds the condition's lock.  Audio is counted in samples; the turns of  *)
(* an event are abstracted to the milliseconds they may speak of.  The     *)
(* gRPC call is two ordered channels: the client's request queue, read by  *)
(* the sidecar as flow control allows, and the sidecar's events.           *)
(***************************************************************************)
EXTENDS SortformerStream

CONSTANTS
  QueueMax,    \* maxsize of _request_q (256 in the code)
  ChunkSizes,  \* bound: samples in one chunk of audio
  MaxSamples,  \* bound: samples of the connection
  SegmentEnds  \* bound: where segments end, besides at the end of the audio

ASSUME DiarizationAssumption ==
  /\ QueueMax \in Nat \ {0} /\ MaxSamples \in Nat
  /\ ChunkSizes \subseteq Nat \ {0} /\ SegmentEnds \subseteq Nat

VARIABLES
  phase,      \* start(): "starting", or returned "open", or raised "unavailable"
  queue,      \* _request_q
  fed,        \* samples the session has heard, its clock
  degraded,   \* _degraded_reason is set
  recv,       \* _recv_loop: "running" or "done"
  begun,      \* _started is set
  watermark,  \* _finalized_through_ms
  turns,      \* _turns, as the spans they speak of
  finishing,  \* finish(): "no", "putting" the sentinel, "done"
  closing,    \* aclose(): "no", "waiting" for _recv_loop, "closed"
  target,     \* what the work loop waits for in turns_for(); 0 when it does not
  answer,     \* the last answer of turns_for(): "none" yet, "roles" or "plain"
  answeredTo, \* history: the target of the last answer
  server,     \* Diarize(): "new", "serving", "ended" or "gone" (failed, cancelled)
  events      \* events on their way to the client

clientVars == <<phase, fed, degraded, recv, begun, watermark, turns>>
callVars == <<finishing, closing, target, answer, answeredTo>>
serverVars == <<server, streamVars>>
vars == <<clientVars, callVars, serverVars, queue, events>>

EOS == 0
Event(k, from, to) == [kind |-> k, from |-> from, to |-> to]

Init ==
  /\ phase = "starting" /\ queue = <<>> /\ fed = 0
  /\ degraded = FALSE /\ recv = "running" /\ begun = FALSE
  /\ watermark = 0 /\ turns = {}
  /\ finishing = "no" /\ closing = "no"
  /\ target = 0 /\ answer = "none" /\ answeredTo = 0
  /\ server = "new" /\ StreamInit /\ events = <<>>

available == ~degraded /\ closing # "closed"

-----------------------------------------------------------------------------
(* start() and the receive loop of the session. *)

StartReturns ==
  /\ phase = "starting" /\ begun
  /\ phase' = IF degraded THEN "unavailable" ELSE "open"
  /\ UNCHANGED <<fed, degraded, recv, begun, watermark, turns, callVars, serverVars, queue, events>>

\* connect_timeout: the receive task and the call are cancelled.
StartTimesOut ==
  /\ phase = "starting" /\ ~begun
  /\ phase' = "unavailable"
  /\ degraded' = TRUE /\ recv' = "done" /\ begun' = TRUE
  /\ server' = "gone"
  /\ UNCHANGED <<fed, watermark, turns, callVars, streamVars, queue, events>>

\* The audio goes to the VAD as well: the clock runs even when the queue is full.
Feed_KeepsGoing(n) ==
  /\ phase = "open" /\ finishing = "no" /\ fed + n <= MaxSamples
  /\ fed' = fed + n
  /\ queue' = IF available /\ Len(queue) < QueueMax THEN Append(queue, n) ELSE queue
  /\ UNCHANGED <<phase, degraded, recv, begun, watermark, turns, callVars, serverVars, events>>
Feed(n) ==
  /\ phase = "open" /\ finishing = "no" /\ fed + n <= MaxSamples
  /\ fed' = fed + n
  /\ queue' = IF available /\ Len(queue) < QueueMax THEN Append(queue, n) ELSE queue
  /\ degraded' = (degraded \/ Len(queue) = QueueMax)
  /\ UNCHANGED <<phase, recv, begun, watermark, turns, callVars, serverVars, events>>

Finish ==
  /\ phase = "open" /\ finishing = "no"
  /\ finishing' = IF recv = "done" THEN "done" ELSE "putting"
  /\ UNCHANGED <<clientVars, closing, target, answer, answeredTo, serverVars, queue, events>>

\* await _request_q.put(_REQUEST_SENTINEL): blocks while the queue is full.
FinishPuts ==
  /\ finishing = "putting" /\ Len(queue) < QueueMax
  /\ queue' = Append(queue, EOS)
  /\ finishing' = "done"
  /\ UNCHANGED <<clientVars, closing, target, answer, answeredTo, serverVars, events>>

\* cleanup() comes after the receive loop has called finish().
Aclose ==
  /\ finishing = "done" /\ closing = "no"
  /\ closing' = "waiting"
  /\ UNCHANGED <<clientVars, finishing, target, answer, answeredTo, serverVars, queue, events>>

AcloseReturns ==
  /\ closing = "waiting" /\ recv = "done"
  /\ closing' = "closed"
  /\ server' = IF server = "ended" THEN server ELSE "gone"
  /\ UNCHANGED <<clientVars, finishing, target, answer, answeredTo, streamVars, queue, events>>

AcloseTimesOut ==
  /\ closing = "waiting" /\ recv = "running"
  /\ closing' = "closed" /\ recv' = "done" /\ begun' = TRUE
  /\ server' = IF server = "ended" THEN server ELSE "gone"
  /\ UNCHANGED <<phase, fed, degraded, watermark, turns, finishing, target, answer, answeredTo,
                 streamVars, queue, events>>

-----------------------------------------------------------------------------
(* turns_for(), called by the work loop for one finished segment at a time. *)

Answer(kind, t) ==
  /\ answer' = kind /\ answeredTo' = t /\ target' = 0

\* The end of the segment is rounded to a millisecond.
TurnsFor(end) ==
  LET t == Rounded(end, MsSamples) IN
  /\ phase = "open" /\ target = 0 /\ end <= fed /\ t > 0
  /\ IF available
       THEN target' = t /\ UNCHANGED <<answer, answeredTo>>
       ELSE Answer("plain", t)
  /\ UNCHANGED <<clientVars, finishing, closing, serverVars, queue, events>>

\* The condition holds: the watermark has passed the segment, or no more will.
TurnsForReturns_IgnoresDegraded ==
  /\ target > 0 /\ (watermark >= target \/ degraded)
  /\ Answer("roles", target)
  /\ UNCHANGED <<clientVars, finishing, closing, serverVars, queue, events>>
TurnsForReturns ==
  /\ target > 0 /\ (watermark >= target \/ degraded)
  /\ Answer(IF degraded THEN "plain" ELSE "roles", target)
  /\ UNCHANGED <<clientVars, finishing, closing, serverVars, queue, events>>

\* result_timeout degrades the connection for good.
TurnsForTimesOut_NoDeadline == FALSE /\ UNCHANGED vars
TurnsForTimesOut_StaysAvailable ==
  /\ target > 0 /\ ~degraded
  /\ Answer("plain", target)
  /\ UNCHANGED <<clientVars, finishing, closing, serverVars, queue, events>>
TurnsForTimesOut ==
  /\ target > 0 /\ ~degraded
  /\ degraded' = TRUE
  /\ Answer("plain", target)
  /\ UNCHANGED <<phase, fed, recv, begun, watermark, turns, finishing, closing, serverVars, queue, events>>

-----------------------------------------------------------------------------
(* _recv_loop. *)

NextEvent(kind) == recv = "running" /\ events # <<>> /\ Head(events).kind = kind

ReceiveStarted ==
  /\ NextEvent("started")
  /\ events' = Tail(events)
  /\ begun' = TRUE
  /\ UNCHANGED <<phase, fed, degraded, recv, watermark, turns, callVars, serverVars, queue>>

ReceiveTurns ==
  /\ NextEvent("turns")
  /\ events' = Tail(events)
  /\ turns' = turns \cup {[from |-> Head(events).from, to |-> Head(events).to]}
  /\ watermark' = IF Head(events).to > watermark THEN Head(events).to ELSE watermark
  /\ UNCHANGED <<phase, fed, degraded, recv, begun, callVars, serverVars, queue>>

ReceiveEnded ==
  /\ NextEvent("ended")
  /\ events' = Tail(events)
  /\ recv' = "done" /\ begun' = TRUE
  /\ UNCHANGED <<phase, fed, degraded, watermark, turns, callVars, serverVars, queue>>

\* An error event, a gRPC error, or the end of the stream without SessionEnded.
ReceiveFailed ==
  /\ NextEvent("failed")
  /\ events' = Tail(events)
  /\ degraded' = TRUE /\ recv' = "done" /\ begun' = TRUE
  /\ UNCHANGED <<phase, fed, watermark, turns, callVars, serverVars, queue>>

-----------------------------------------------------------------------------
(* The sidecar. *)

ServeStart ==
  /\ server = "new"
  /\ server' = "serving"
  /\ events' = Append(events, Event("started", 0, 0))
  /\ UNCHANGED <<clientVars, callVars, streamVars, queue>>

\* One event for every step the stream made.
EventsOf(made) == [k \in DOMAIN made |-> Event("turns", made[k].starts, made[k].finalized)]

Made == SubSeq(steps', Len(steps) + 1, Len(steps'))

ServeAudio ==
  /\ server = "serving" /\ queue # <<>> /\ Head(queue) # EOS
  /\ queue' = Tail(queue)
  /\ StreamFeed(Head(queue))
  /\ events' = events \o EventsOf(Made)
  /\ UNCHANGED <<clientVars, callVars, server>>

\* end_of_stream: finish() drains what is left by force, then SessionEnded.
ServeEnd ==
  /\ server = "serving" /\ queue # <<>> /\ Head(queue) = EOS
  /\ queue' = Tail(queue)
  /\ server' = "ended"
  /\ StreamFinish
  /\ events' = events \o EventsOf(Made) \o <<Event("ended", 0, 0)>>
  /\ UNCHANGED <<clientVars, callVars>>

\* Inference raises, or the sidecar or the connection dies.
ServeFails ==
  /\ server \in {"new", "serving"}
  /\ server' = "gone"
  /\ events' = Append(events, Event("failed", 0, 0))
  /\ UNCHANGED <<clientVars, callVars, streamVars, queue>>

-----------------------------------------------------------------------------
ReceiveEvent == ReceiveStarted \/ ReceiveTurns \/ ReceiveEnded \/ ReceiveFailed

Client ==
  \/ StartReturns \/ StartTimesOut
  \/ \E n \in ChunkSizes : Feed(n)
  \/ Finish \/ FinishPuts
  \/ Aclose \/ AcloseReturns \/ AcloseTimesOut
  \/ \E end \in SegmentEnds \cup {fed} : TurnsFor(end)
  \/ TurnsForReturns \/ TurnsForTimesOut
  \/ ReceiveEvent

Sidecar == ServeStart \/ ServeAudio \/ ServeEnd \/ ServeFails

Next == Client \/ Sidecar

\* Ready tasks run and timers fire.  The sidecar may stall for ever.
Fairness ==
  /\ WF_vars(StartReturns \/ StartTimesOut) /\ WF_vars(FinishPuts)
  /\ WF_vars(AcloseReturns \/ AcloseTimesOut)
  /\ WF_vars(TurnsForReturns \/ TurnsForTimesOut)
  /\ WF_vars(ReceiveEvent)

Spec == Init /\ [][Next]_vars /\ Fairness

-----------------------------------------------------------------------------
(* Properties. *)

\* Roles are only given for audio whose turns are all known: what was received
\* speaks of the whole segment, without a gap (client.py:177).
Known(t) ==
  \A p \in {0} \cup {span.to : span \in turns} :
      p < t => \E span \in turns : span.from <= p /\ p < span.to
RolesAreFinal == answer = "roles" => Known(answeredTo)

\* Degradation is for good: a connection that once answered a segment without
\* roles, although the sidecar was there, does not go back to roles.
RolesStopForGood == [][answer = "plain" => answer' # "roles"]_vars

\* When the sidecar ended the stream as asked, the timeline reaches the last full
\* millisecond of the audio: a tail segment that ends there need not wait for a
\* watermark that never comes.  One that ends later in the last millisecond may:
\* its end is rounded up and the watermark down (client.py:176, model.py:538).
EndedTimelineIsComplete ==
  phase = "open" /\ recv = "done" /\ ~degraded /\ closing = "no" => watermark = fed \div MsSamples

\* Fail-open: start(), turns_for() and aclose() return whatever the sidecar
\* does, and so does finish(), which the receive loop awaits, unless the request
\* queue is full while it puts its end of stream (client.py:205).
CallsReturnOrJam ==
  /\ phase = "starting" ~> phase # "starting"
  /\ target > 0 ~> target = 0
  /\ closing = "waiting" ~> closing = "closed"
  /\ finishing = "putting" ~> finishing = "done" \/ Len(queue) = QueueMax
=============================================================================
