# Formal models of audiollm-server

TLA+ modules for the speech-recognition server in this repository, the TLC
configurations that check them on small instances, and TLAPS proofs of what
matters most for every size of the instance. `PROJECT.json` lists the runs, the
source lines behind each definition, the mutants that show each property can
fail, the hazards and the findings.

## 1. The system

One Python process (`backend/main.py`) serves REST and WebSocket clients on one
asyncio loop; model inference is done by HTTP and gRPC servers elsewhere. A GPU
sidecar (`services/diarization`) separates speakers.

| Component | State it keeps | Operations | Talks to | What is hard |
|---|---|---|---|---|
| Job store: `jobstore.py`, `asr/jobs.py`, `emotion/jobs.py`, `emotion_spec/jobs.py` | jobs with status, timestamps, payload, result; limits; a semaphore | configure, submit, get (both purge), one runner task per job | endpoints of `main.py`; transcription pipeline, emotion service | runners, purges and polls interleave; the semaphore is rebuilt by every request |
| Streaming session: `streaming/session.py` | context (hotwords, language, enrolment), work queue of 40, partial task, flags | receive loop, work loop, partials, stop, terminal frame, cleanup | audio stream, task engine, wire protocol, diarization client | four tasks share the state; stop and disconnect race with answers; sends fail |
| Task engines: `tasks/asr.py`, `tasks/emotion.py` | nothing between segments | handle_segment, handle_partial, on_stop | model clients, fusion, ITN, recall | two models, gates that answer nothing, parts of a segment |
| Audio streams: `streaming/audio_stream.py`, `audio/vad.py` | carry, pre-roll, open utterance, announcement flag, sample clock | configure, feed, flush | session | sample arithmetic; one announcement, one outcome |
| K2 stream: `streaming/k2_stream.py` | request queue of 200, ring buffer, voice gate, segment ids | start, feed, events, flush, aclose | gRPC recogniser | blocking puts, upstream that stalls or ends early |
| Wire protocols: `streaming/protocol.py` | AST v3: first frame seen, byte carry, sentence number, last role | decode_inbound, encode_outbound, encode_terminal | session | state across frames |
| Diarization client: `diarization/client.py` | request queue of 256, speaker turns, watermark, degradation | start, feed, turns_for, finish, aclose | session, sidecar | watermark wait, fail-open, full queue |
| Speaker turns: `diarization/turns.py` | none | split a segment by turns | ASR engine | partition of samples |
| Diarization sidecar: `services/diarization` | stream states, batch scheduler thread and its queue | Diarize, batch, close | diarization client | threads; batches mix sessions; shutdown |
| Clean stream: `clean_stream.py` | event queue, post-processing tasks, commit order | worker, receiver, commit | text cleanup, model clients | concurrent post-processing, ordered commit |
| Transcription pipeline: `asr/transcribe.py` | results per segment, done count | split, run with bounded concurrency, retry | job store, oneshot ASR | retry, progress, partial failure |
| Enrolment: `asr/enrollment.py`, `asr/speaker_identity.py` | two LRU maps with TTL | put, get, delete, match | endpoints, session | two stores that can disagree |
| Recognition helpers: `asr/client.py`, `oneshot.py`, `fusion.py`, `recall.py`, `itn.py`, `hotword.py`, `text_cleanup` | none | ask, retry, choose a text, refine it | task engines, pipeline, clean stream; model servers | fallbacks that must not lose a text or a flag |
| Configuration: `config.py` | settings | load, override (endpoint, client, route), settle | every session and request | an override undone by a later one, a switch that stays off |
| Debug dumps, HTTP client, frontend, scripts, deploy files | | | | not modelled: parsing, I/O and pages |

### What makes each correct

* Job store: the queue cap holds; at most the configured number of jobs run;
  a finished job stays for a TTL; a runner never loses its job to the purge;
  recordings are released; every job finishes; polls move forward.
* Session: finals in speech order with the hotwords of their cut; nothing queued
  or in flight when the terminal frame goes out; a stop is answered; the session
  ends whatever the client does.
* Diarization: a failed sidecar costs roles, never the session; turns are given
  out only below the watermark; sessions never see each other's model state.
* Clean stream: commits in order, `done` after all of them.
* Pipeline: each segment counted once; one failed segment does not fail the job.
* Stores: bounds hold after every put; nothing deleted comes back; what is evicted
  was the least recently used.
* VAD stream: each announcement is answered; no speech is lost or reported twice;
  stamps follow the audio.
* K2 stream: ids and spans advance; a shown partial is replaced; the session ends.
* Codec, turns and engine: samples contiguous, parts a partition, roles readable,
  `enrollment_applied` true.

## 2. Modules

All Python tasks run on one asyncio loop, so an action is what one task does
between two points at which it can be suspended. Where a `with lock` body never
suspends, the whole body is part of the action.

### JobStore (and JobLifecycle, MCJobStore, JobStoreProofs)

| Code | Model |
|---|---|
| `BaseJob.status`, absent from `_jobs` | `status` ("none" before, "gone" after) |
| `updated_at < now - _ttl_sec` | `stale` |
| `TranscriptionJob.pcm_i16` still held | `payload` |
| the `_run_job` task and what it waits for | `task`, `semOf` |
| `_semaphore` and those it replaced: free permits, FIFO of waiters | `semaphore`, `value`, `waiters` |
| answer of `GET .../{job_id}` | `polled` |
| `submit` + `enqueue`, admitted or 503 | `Admit`, `Reject` |
| `get` | `Poll` |
| `_purge_expired_locked` | `Purged`, inside the three above |
| `async with self._semaphore` | `Acquire`, `Wait`, `Resume`, `Release` |
| `_set_status(RUNNING)` | `EnterRunning` |
| `release_input`, progress callbacks | `Progress` |
| `_execute` after the payload, `_set_failed`, `release_payload` | `Finish` |

`kept` is a history variable: the jobs that finished less than a TTL ago. The
endpoints call `configure()` before every submission, so `Reconfigures = TRUE`
gives each submission a new semaphore; a store configured once is
`Reconfigures = FALSE`. `MaxSemaphores` bounds the submissions of a behaviour.
A semaphore whose waiter was granted but has not resumed makes a newcomer queue
behind it in the library; the model lets it take a free permit, which is the
weaker assumption. The paths where a runner finds its job gone are left out:
`RunnerOwnsJob` shows that they cannot be taken.

`JobLifecycle` is the promise without semaphores and clocks: a job is accepted
only into a permitted load, worked on once, ends once, and is forgotten only
after it ended. `JobStore` implements it (`ImplementsLifecycle`).

### StreamingSession (and MCStreamingSession, StreamingSessionProofs)

| Code | Model |
|---|---|
| the WebSocket endpoint, hence protocol and engine | `endpoint`: /transcribe-streaming, /tuling/ast/v3 or the segmented emotion stream |
| `_receive_loop`: waiting, in its `finally`, returned or raised | `recv` |
| `_work_loop`: in `get`, in `handle_segment`, in `on_stop`, returned | `work`, `item` |
| `run()` and `cleanup()` | `main` |
| `_work_queue` of (segment, context snapshot) and the sentinel | `queue` |
| `_started`, `_stopped`, `_suppress_terminal`, `_ws_closed`, `_sent_any_response` | `started`, `stopped`, `suppressed`, `wsClosed`, `sentAny` |
| the VAD's open utterance | `utt`, `speaking` |
| `ctx.hotwords` | `hot`, the number of updates applied |
| `_partial_task` | `partials` |
| frames on the socket | `wire` |

Each control message and each VAD outcome is an action of the receive loop;
every one of them calls what the handler calls, the flush in the `finally` block
included. A stream is reduced to numbered utterances (VadStream has its detail).
`AnswerFinal`, `AnswerNothing` and `AnswerError` are the three outcomes of
`handle_segment` (AsrTask has its detail); the emotion engine answers every
segment, takes no partial snapshots and sends nothing for a silent session.
`ReceiveRaises` is a frame that makes the decoder or the stream raise (an AST
header that is no object, an odd number of PCM bytes). `cutHot` is a history
variable: the hotwords in force when a segment was cut. The session with a
synchronous stream is modelled here, the asynchronous one in K2Stream; waits of
the diarization client inside it are taken to return (Diarization shows when).

### VadStream (and MCVadStream, VadStreamProofs)

`VADProcessor.process` inside `VadSegmentedStream.feed` and `flush`, and the loop
of `segment_pcm_offline`. One action per hop (`Process`: `Listen` while silent,
`Hear` and `Cut` while speaking), `Feed` and `EndFeed` around them, `Stop` and
`ForceCut` for the two callers of `flush(force=True)`. A frame is its number, so
a segment is the sequence of frames it holds and every loss, repetition or wrong
stamp shows; the judgement of each frame is free. `carry`, `consumed`, `preSpeech`,
`audio` and the counters are the attributes of the same names; `flags`, `seams` and
`log` are history variables.

### K2Stream (and MCK2Stream, K2StreamProofs)

`K2SegmentedStream` under the asynchronous path of the session: `Feed` (buffer,
request, idle trim, forced cut, voice gate), `EndInput` and the `Flush...` steps of
the receive loop, `TakeRequest` of the request iterator, the `Receive...` steps of
`_recv_loop` with every way the call can end, `Dispatch` of the event loop, and
`Cleanup` with the steps of `aclose()`. `requests` and `events` are the two queues;
`bufStart`, `bufLen`, `total` the buffer on the sample clock; `seq` and `active`
the segment ids; `call` the gRPC call. The recogniser is external: it takes
requests and sends partials and endpoints as it likes, may stall for ever, and
may end or break the call at any time. `log` is a history variable.

### CleanStream (and MCCleanStream, theorems in TranscriptionProofs)

The three kinds of task of one `/asr/v1/clean-stream` connection: the receiver
(`SessionUpdate`, `Append...`, `Commit`, `Joined`, the `Report...` steps, `Gather`,
`SendDone`), the worker (`Get` and what the recognition answers) and one
post-processing task per transcribed segment (emotion, then refinement).
`unfinished` is the count behind `event_queue.join()`, `raw` and `processed_segments` the
lists `raw_segments` and `processed_segments`, `emitted` the text of the last
delta, `out` (history) what was sent. A text is a sequence of tokens, one per
utterance, negative when a partial heard it differently. Its VAD is that of
VadStream, reduced to utterances.

### AsrConfig

The switches that say which models are asked: `Settled` is `Config.__post_init__`
(fusion without the secondary is turned off, for good), `Override` is
`Config.override`, `SessionConfig` what a session runs with after the override of its
endpoint, that of its client, and that of its endpoint again, `RouteConfigs` what
`rest.routes.transcribe` can lead to. `Asked` is the choice both `tasks/asr.py` and
`asr/oneshot.py` make. AsrTask and Transcription start from every configuration
these give, one that leaves no model to ask included.

### Transcription (and MCTranscription, TranscriptionProofs)

`transcribe_pcm_i16`: `Segmented`, then per segment `run_one` under the semaphore:
`GateRefuses` or `AskModels`, `ModelReplies` for each model, `FirstFails` and
`RetryFails`, `TakeText` (the fusion), `EmotionReturns`, `RefineReturns`, and
`Gathered` or the total failure at the end. `done` and `total` are what the job
reports; `text`, `error`, `processed`, `used` the fields of an entry. A text is the
name of the model that gave it. JobStore takes this work as one step of its runner.

### EnrollmentStores (and MCEnrollmentStores, theorems in AsrTaskProofs)

`audio` and `voices` are the dicts of `EnrollmentStore` and `SpeakerIdentityStore`
in their order, each entry with the time it was last used; `create`, `deleting` and
`identify` are the requests that wait for a model server between two accesses
(`remote` says whether recordings live there). `PutAudio` makes room before it
puts, `PutVoice` after; `Touch` is the refresh on use. `deleted`, `touchedAudio` and
`touchedVoice` are history variables.

### SpeakerTurns, AstV3Protocol, AsrTask (and MCAsrTask, AsrTaskProofs)

One connection to `/tuling/ast/v3` (with roles) or `/transcribe-streaming` (without, its
frames and messages handed on as they are), in three layers. `SpeakerTurns` holds the functions
that cut a segment by turns (clip, attribute each interval to its dominant or
nearest speaker, merge neighbours, absorb what is too short), folds in place of
the loops of the code. `AstV3Protocol` adds the two halves of the codec: `Frame` and
`FrameRefused` are `decode_inbound` with the search for a WAV header and the byte
carry, `EncodeSentence` and `EncodeTerminal` number sentences and mark roles.
`AsrTask` adds the engine: `BeginSegment` (the cut), `PreparePart` (silence trim,
voice gate and filter), `AskModels`, the recall, the primary call with its retry, the
secondary call, and the three ends of a part. The model server and the recall
service answer freely.

### SortformerStream and Diarization (and MCDiarization, DiarizationProofs)

Both ends of one `Diarize` call. Client: `phase` is where `start()` is, `queue` the
request queue, `fed` the clock of the session in samples, `degraded`, `recv` and
`begun` the flags of `DiarizationSession`, `watermark` and `turns` the timeline in
milliseconds, `finishing` and `closing` the progress of `finish()` and `aclose()`,
`target` what `turns_for()` waits for, `answer` what it last returned ("plain": no
roles) and `answeredTo` for which end. Sidecar: `server` is the `Diarize` handler,
`events` the response stream, and `SortformerStream` the stream it feeds: buffer,
cores, windows with context and guard, and what is let go of, in samples, with the
roundings of the code. A step of the stream is a record of what the model was
shown; its turns are the span they may speak of. Every way the sidecar can
end the call (error event, gRPC status, end without `SessionEnded`) is
`ServeFails`; a stall is a sidecar that takes no step. The forward pass of a step
goes through BatchScheduler, whose answer is taken here to come.

### BatchScheduler (and MCBatchScheduler, BatchSchedulerProofs)

`queue` is the scheduler's queue with the stop mark, `pending` the batch in hand,
`left` its requests not answered yet, `sched` the thread, `closed` the flag under
the lifecycle lock. A stream submits one request at a time, so a request is named
by its stream; `key` is its `compatibility_key()`. `Place` and `Result` are the
stacking and splitting of the tensors: a result is found where its request stood.
`GroupSucceeds` and `GroupFails` answer one group of compatible requests in one
step, although the code sets the futures one after the other: a stream woken
early only appends to the queue, which commutes with the rest. `ahead` is a history
variable: the compatible requests that were waiting when a request was submitted.

## 3. Runs

| Run | What it shows | Bounds |
|---|---|---|
| `job_store` | with a new semaphore per submission runners own their jobs, results stay, every job finishes, and the store implements `JobLifecycle` | 3 jobs, 2 admitted, 1 permit, 4 semaphores: a full queue, a rejection, a waiter and a purge occur |
| `job_store_concurrency_limit` | violation: the configured concurrency is no limit | 3 semaphores: two jobs running at once need two |
| `session` | on each endpoint: order of finals and partials, hotwords of the cut, answer to stop, finals before the terminal frame; the session ends or jams as named | 2 utterances, queue of 1 (so it overflows and blocks the sentinel), 1 update, 1 rejected start, 2 partials |
| `diarization` | roles only for a known timeline, never again after a degradation; a complete timeline at the end; whole windows; calls return or jam | the sidecar's real window; chunks of 5127 and 16969 samples (no multiple of a frame or a millisecond; less and more than the window of 16960) up to 2.5 s; queue of 2; a segment that ends at 0.8 s and one at the end |
| `batch_scheduler` | own state, sound batches, order, answers, shutdown | 3 streams, batches of 2, 2 keys, 2 steps each: full batches, mixed batches and one left over |
| `vad_stream` | announcements paired, speech heard, stamps true, online and offline | 13 frames of 2 samples, feeds of 3 and 4 (so there is a carry), pre-roll of 3, cuts after 2 silent frames or 5 frames of speech: three utterances fit |
| `clean_stream` | `done` is complete and last, failures are told, partials stay behind what is confirmed, commit ends the session | 2 utterances, 2 partials, 1 refused message |
| `k2_stream` | spans and ids advance, shown partials are replaced, the session ends or jams as named | request queue of 2, 3 samples in chunks of 1 and 2, cap of 2, idle buffer of 1: trim, forced cut, overflow and every end of the call occur |
| `transcription` | the result is complete, one failed segment costs no other, the work ends | 3 segments, 2 at a time, every set of models the settings can lead to |
| `enrollment_stores` | a deleted enrolment is gone, eviction takes the right entries | 3 ids, stores of 2, clock to 3 with a TTL of 1; ids are symmetric (no property is temporal but one action property) |
| `asr_task` | audio, parts, voice, roles and the enrolment flag stay true | a recording of 5 bytes in any frames, 2 segments of 4 frames, every set of up to 3 turns of 2 speakers and one turn of a speaker without a role, 2 minimal lengths; both endpoints, every setting of the models in the file and by the client |
| `ast_header` | violation: the rest of a WAV header is taken for audio | the real four-byte size field |

The actors of a session compare only neighbouring utterances and one slot of the
queue, and a store compares a count with a cap: two of each thing reach every
guard on both sides. A third is there where something can be overtaken or left
over (jobs, streams, segments, ids). Lengths in frames and samples are scaled down
so that each threshold of the code is met from below and from above; only the
window of the sidecar has its real size, because its roundings are the point.
Where a safety property is proved (section 4) the proof removes the bounds.

**Jams.** Three liveness properties except a state the code allows, by name, and
no other: a receive loop that waits for room in the work queue after the work loop
gave up (`SessionEndsOrJams`, session.py:333); `finish()` that waits for room in the
request queue of a stalled sidecar (`CallsReturnOrJam`, client.py:205); `flush()` or
`aclose()` of a K2 stream in front of a full request queue or a stalled recogniser
(`EndsOrJams`, k2_stream.py:192).

**Fairness.** `WF` on each task of the loop: asyncio runs ready tasks, and every
upstream HTTP call carries a timeout, so a task in inference goes on (sessions,
store, clean stream; a transcription takes any step it can, all of which lead on). A waiter of a semaphore needs no more than
that because the permit is handed to the head of the FIFO. The client is never
assumed to send anything; only its disappearance is noticed. For a diarized
connection the client's tasks and timers are fair and the sidecar is not: its call
has no deadline, so it may stall for ever. The K2 recogniser is not fair either,
except that a call whose sending side is closed ends, as gRPC has it. For the batch
scheduler, its thread is fair, its deadline passes and the model returns. Modules
without a liveness property (VadStream, EnrollmentStores, AsrTask) state none.
`CHECK_DEADLOCK FALSE` is set where the system ends: sessions, connections, a
closed scheduler, a finished recording, a clock at its bound; the store always has
a purge or a poll to do.

**Findings.** `job_store_concurrency_limit`: `configure_limits()` builds a new
semaphore for every request. `ast_header`: a frame that ends inside the size field of
a WAV header makes the decoder treat the rest of the header as samples. `PROJECT.json`
quotes the lines of the documentation they contradict.

## 4. What is proved

All proofs hold for every value of the constants that satisfies the assumptions
named in the modules (`...Assumption`), and TLC evaluates those assumptions in
every run. The bounds of the table above (utterances, samples, partials) are
constants too: the theorems hold for all of them.

Where a proof needs induction (over the rounds of a fold, over the members of a set
of segments), it is done with sets: the least counterexample of a set of naturals,
from `WFMin` and `NatLessThanWellFounded` (`LeastOf`, `AllNaturals`, `Iterates`). The
library's induction theorems themselves take an operator and cannot be used. A
sorted list of a set of numbers (`Ascending`, `At`) has its members because the count
of smaller ones is a bijection onto the places (`AscendingIs`).

**JobStoreProofs.** `TypeCorrect`; `PermitsAreConserved` counts holders per
semaphore (a release either raises the free count or creates a new holder; the
waiting job is not yet one), which needs that a queue of waiters lists waiting
jobs of that semaphore without repetition; `RunnersOwnTheirJobs` ties each
task's place to the status of its job, so the purge, which takes terminal jobs
only, cannot touch it; from it follow `AdmissionIsBounded`, `PayloadsAreReleased`,
`ResultsAreKept`, `PollingMovesForward`. `ConcurrencyIsBounded` needs
`~Reconfigures`: every running job then holds a permit of the one semaphore.
`StoreImplementsLifecycle` is the refinement, action by action.

**StreamingSessionProofs.** The inductive invariant `SessionInv` is the type
invariant with: the queue holds increasing utterances, below the open one, each
with the hotwords of its cut, and the sentinel only at its end (`QueueInv`); the
item in the work loop's hands precedes the queue (`ItemInv`); the finals sent
precede the item (`FinalInv`); partials do not exceed the open utterance
(`PartialInv`); what is left when the loops return (`DrainInv`); what
`_sent_any_response` says about the wire (`AnswerInv`); when a terminal frame can
exist (`TerminalInv`). TLC checked it before it was proved. From it:
`FinalsComeInOrder`, `FinalsUseTheirHotwords`, `PartialsComeInOrder`,
`QueueIsDrained`, `StopsAreAnswered`, and `TerminalFollowsFinals`
(unless a frame made the receive loop raise).

**BatchSchedulerProofs.** The inductive invariant `BatchingInv` adds to the type
invariant that queue and batch hold each request once and never the same one,
that the stop mark is last and implies `closed` (`QueueInv`, `BatchInv`); that every
unanswered request is in one of the two, with a step left (`NoneLost`); and that
whatever came before a request of its key still stands before it (`AheadInv`:
in the batch with it, or earlier in the queue). TLC checked it before it was
proved. `GroupIsOfOneKey` is what the steps share: a group is some of the
unanswered requests, all of one key, and a request's result is at its place.
`SchedulerTypes`, `StatesStayApart` and `StopMarkStaysLast` follow from the
invariant; `AnswersAreBatched` and `FirstComeFirstServed` are action properties:
only the run of a group answers (`OnlyGroupsAnswer`), the batch has no more
unanswered requests than places (`BatchIsBounded`), and what was ahead of a
request of the group is in the group.

**VadStreamProofs.** `StartsAreAnswered` needs more than the log: an utterance is
announced exactly while it is open, and an open one holds at least a frame
(`Announces`), because `flush()` decides by the audio and `feed()` by the flag.
`LogAlternates` states the property on a log of any length, by `OpenIn`, whose
lemmas say what one more event does to it. `VadTypes` is its own invariant with the
sizes of the buffers.
`StampsAreTheClock` and `NoSpeechIsLost` share `Shape` (the pre-roll, or the open
utterance, is a run of the newest frames, and the silent ones at its end are
counted) and `Clock` (the hops judged are the samples consumed). The stamps then
follow from `LogFits`: what is reported lies before the open utterance and its
pre-roll (`Base`), and closing it reports frames of it, late by what was trimmed
(`Closing`). Speech is heard because the onset rule has counted exactly the speech
since the last silent frame or flush and the pre-roll still holds it (`Onset`), which
needs `PreSpeechFrames >= StartFrames` as the property says.

**K2StreamProofs.** `K2Types` carries the equation `bufStart + bufLen = total`, which a
trim, a cut and a reset keep. `LogAdvances` says that everything reported ends before
the buffer starts and has an id below the one under way, unless it is a partial of
that one (`Before`); then one more event in front of them is in order
(`OneMoreEvent`), which gives `SegmentsAdvance`. `FeedCases` splits the three
outcomes of `feed()`.
`ShownIsReplaced` rests on `PartialsInv`: with the gate on, a partial still shown is of
the segment under way, whose voice was heard (`ShownIsUnderWay`), and voice heard means
that there is audio to report (`Voiced`), so a cut forwards a segment
with its id and a reset never leaves it behind; when the call has ended nothing is
shown.

**AsrTaskProofs.** `AudioStaysContiguous` rests on `Passes`: the byte after the last
one passed is at most one behind the bytes received, whatever the header did to the
first one (`Whole` is the arithmetic of the carry). `EnrollmentFlagHolds` rests on
`FlagIsRight`: the call holds that the enrolment was applied exactly if its current
request carries it, at every step of recall and retry. `EndpointForcesPrimaryOnly` is
about the configuration: what the endpoint forces is applied last and `Settled` runs
after it, so no file and no client leaves the fusion on (`ForcedOff`).
`PartsCoverTheSegment` follows the turns through each pass of `turns.py`: the
elementary intervals tile the segment (`SplitTiles`, with `OneDominates` for the
speaker of each), merging neighbours keeps the tiling and makes speakers alternate
(`MergedTiles`), and so does absorbing a short part, however often (`AbsorbTiles`,
`AbsorbedTiles`). `NoVoiceIsCut` says what the two passes over a part keep
(`PassesKeepSpeech`): a frame goes only if it is in a pause that is taken out or too far
from every voiced one, and the second pass sees the voiced frames of the first in
order (`Kept`, `Spread`). `ReadersKnowTheSpeaker` rests on `RolesInv`: what a reader
holds after the whole wire is what the encoder remembers (`Readable`, `RoleOfLast`).

The theorems of EnrollmentStores stand in the same module. `AtIs`, `UnexpiredIs` and
`RecentIs` say what evicting leaves of a store: at most the limit, because no two
entries have equally many older ones (`OlderCounts`, `StayCount`), and what goes was
used no later than what stays. `Follows` is what every operation of a store promises
(`Forgets`, `TouchFollows`, `EvictFollows`, `PutAudioFollows`, `PutVoiceFollows`,
`GetAudioFollows`), `Endpoint` what every step of an endpoint leaves intact. The
invariant `StoresInv` adds that the stamp of an entry is when it was really used, that an id is once in
a store, that what no POST has put is in no store and what none has told is neither
identified nor deleted: so a put after an await can never bring a deleted id back.
From it `ForgottenStaysForgotten` and `LeastRecentIsEvicted`.

**TranscriptionProofs.** `FailuresAreIsolated` rests on `ErrorsAreEarned` (an error has
left after two calls that failed everywhere, and a job is in error only if all its
entries are). `ProgressIsExact` rests on `CountIsExact`: the counter is the number of
segments that are over, and only planned ones take steps; with both, a full counter
means that none is at work.
`NothingHeardIsLost` rests on `Faithful`, which says for each entry what its
text, its error and its refinement have to do with the answers it got, and on
`Summarised`: the result is made once all entries are over, and they stay as they are.

The theorems of CleanStream stand in the same module, under the invariant
`CleanInv`. While the session is open (`Live`), `Opened` says in which phase the
receiver, the worker and the queue can be together, and `InLine` is about the line of
utterances: what waits is in order (`Ordered`), of utterances the VAD has seen
(`Reached`), after all that is confirmed (`Behind`), and unless a recognition failed
every utterance cut is confirmed or waits (`NoneDropped`). `LiveTasks` says what the
post-processing tasks have left and announced, `Unsaid` that a terminal message closes,
`Shut` that nothing is at work afterwards. `ResultIsWhole` and `ClientIsTold` are parts
of the invariant; `ConfirmedStays` follows from the line. TLC checked these
parts before they were proved.

**DiarizationProofs.** `RolesNeverComeBack` rests on `PlainMeansOver`: a segment was
answered without roles only if the connection is degraded, which is never undone, or
closed, when nobody waits for roles any more. `RolesOnlyForKnownAudio` composes the client
with the sidecar's stream and rests on `TimelineInv`: `Aligned` says that a stream that
is not finished has made exactly the output frames of the audio before its next core;
so the spans of one drain join up and begin where the last drain ended (`DrainSpans`),
and every event in flight begins where the watermark or an event before it reaches
(`Linked`). Received in order, they leave nothing before the watermark uncovered
(`Covered`). Any answer with roles lies at or before the watermark. It assumes that
the sizes are positive whole numbers (`SortformerAssumption`), nothing about how the
frames divide the audio.
`EveryWindowIsWhole` rests on `WindowInv`: between two calls the buffer begins with the
context of the next core, whose window is not all there yet, and every step so far had
its window whole and spoke of its core (`Whole`). `TheTimelineIsComplete` adds that the
events under way and the timeline tell how far the steps speak (`EventsTell`), that a
receive loop that is done has seen the end (`EndIsSeen`), and that the chunks queued
account for the audio between what the sidecar received and what the session heard
(`AudioKept`: a running count instead of a sum).

## 5. What is only model-checked, and what is not modelled

### Only model-checked

* Liveness (`EveryJobFinishes`, `SessionEndsOrJams`, `CallsReturnOrJam`,
  `EveryRequestAnswered`, `SchedulerEnds`, `EndsOrJams`, `CommitEndsSession`,
  `TranscriptionEnds`): the prover does not reason about fairness.

Every invariant and every action property of a passing run has a theorem. Two of them
say under which settings they hold, as in the runs: `SpeechIsHeard` with a pre-roll as
long as the onset rule, `PartialsAreReplaced` with the voice gate on.

### What the models show that a reader may not expect

The models follow the code, so the properties are as weak as the code makes them.

* Session. A partial in flight may follow the terminal frame (session.py:239), which
  docs/protocols/tuling-ast-v3-protocol.md:437 does not foresee. After the work loop
  gave up with a full queue the session never ends (session.py:333). A client that
  already had an answer need not get a final after stop (tasks/asr.py:397), where
  the repository's README.md:175 and the comment at tasks/asr.py:387 promise one. The segment flushed by a
  stop is dropped when the queue is full (session.py:632). A rejected
  `update_hotwords` is half applied (session.py:475).
* Diarization. `turns_for()` rounds the end of a segment and the sidecar floors its
  watermark: a last segment that ends in the later half of a millisecond waits until
  `result_timeout` and costs the connection its roles (client.py:176, model.py:538).
* VAD. Fewer than the onset's frames of speech right after a forced cut are dropped,
  although transcribe.py:85 says that no audio is lost at the seam. With a pre-roll shorter
  than the onset rule the first frames of an utterance are lost.
* K2. Audio fed after the upstream ended is dropped silently (k2_stream.py:278); an
  upstream error does not cancel the call; a call that just finishes leaves the
  buffered tail unemitted; with the voice gate off a partial may stay without its
  segment after a forced cut.
* Clean stream. The hallucinated tail of a partial is not taken back when its
  segment is silent; a failed worker is told only at commit.
* Enrolment. Identification can name an enrolment deleted while the query was being
  extracted; one store may evict what the other keeps; a failed delete at the model
  server leaves the enrolment usable there.
* Recognition. With fusion, a secondary that fails raises out of `_dual_asr` and the
  primary's text is lost; partials use the primary only, where the repository's README.md:329 speaks
  of both; a late partial carries the number of the next sentence;
  `enrollment_applied` is true for a clip when the primary failed and the secondary
  gave the text. A client or a file may turn every model off: each segment then
  fails (config.py:398 settles only the fusion).
* Jobs. A queued job runs with the configuration of the latest submission.

### Not modelled, and why

Texts, prompts and audio contents, model scores, and the numeric side of the VAD and
of the sidecar's model: data no property tells apart, chosen freely. The tunables of
the VAD changed in the middle of an utterance, and the extraction of hotwords from a
long text, whose frames are out of band. Inverse text normalisation, hotword matching
and prompt building: functions of one text. Emotion services and the one-shot
endpoints: one call and no state. Settings other than those of AsrConfig, which are
constants of the modules; request validation, debug dumps,
HTTP clients, pages, scripts, deployment files and generated gRPC code.
`PROJECT.json` gives every component its status.

## 6. Plan

Done: JobStore and its lifecycle, StreamingSession, Diarization with the
sidecar's stream, BatchScheduler, VadStream, K2Stream, CleanStream, Transcription,
EnrollmentStores, SpeakerTurns, AstV3Protocol, AsrConfig and AsrTask; and theorems for
every safety property their runs check.

Left, in order: the session composed with the diarization client, so that
`turns_for` waits inside the work loop; job configurations in JobStore, for the
hazard of asr/jobs.py:137; pool ids of hotwords in StreamingSession, for that of
session.py:475; audio fed to a K2 session whose call has ended, for that of
k2_stream.py:278.
