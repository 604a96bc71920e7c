--------------------------- MODULE SortformerStream ---------------------------
(***************************************************************************)
(* The stream of the diarization sidecar (services/diarization/model.py,    *)
(* SortformerStream): it cuts the recording into cores of CoreFrames frames, *)
(* shows the model each core inside a window of left and right context, and *)
(* keeps of the recording only what the next window needs.                  *)
(*                                                                          *)
(* Positions are samples of the recording.  What the model says of a core,  *)
(* its turns, is abstracted to the span of time it may speak of.            *)
(***************************************************************************)
EXTENDS Integers, Sequences

CONSTANTS MsSamples,                \* samples in a millisecond (SAMPLE_RATE)
          FrameMs, MelMs, GuardMs,  \* FRAME_MS, MEL_HOP_MS, FEATURE_GUARD_MS
          CoreFrames, LeftFrames, RightFrames   \* CORE_FRAMES, ..._CONTEXT_FRAMES

ASSUME SortformerAssumption ==
    /\ {MsSamples, FrameMs, MelMs, GuardMs, CoreFrames} \subseteq Nat \ {0}
    /\ {LeftFrames, RightFrames} \subseteq Nat
    /\ FrameMs % MelMs = 0 /\ GuardMs % MelMs = 0

VARIABLES received,         \* _received_samples
          pcmStart,         \* where _pcm begins
          nextCore,         \* _next_core_sample, counted from there
          outputFrames,     \* _output_frames
          finished,         \* _finished
          steps             \* history: the steps made, with what the model saw

streamVars == <<received, pcmStart, nextCore, outputFrames, finished, steps>>

FrameSamples == FrameMs * MsSamples
MelSamples   == MelMs * MsSamples
Core  == CoreFrames * FrameSamples
Left  == LeftFrames * FrameSamples
Right == RightFrames * FrameSamples
Guard == GuardMs * MsSamples

Least(m, n) == IF m < n THEN m ELSE n
Most(m, n)  == IF m > n THEN m ELSE n
CeilDiv(n, d) == (n + d - 1) \div d

\* Python's round(n / d): a half goes to the even neighbour.
Rounded(n, d) ==
    LET q == n \div d
        r == n % d
    IN  IF 2 * r > d \/ (2 * r = d /\ q % 2 = 1) THEN q + 1 ELSE q

StreamInit ==
    /\ received = 0 /\ pcmStart = 0 /\ nextCore = 0 /\ outputFrames = 0
    /\ finished = FALSE /\ steps = <<>>

\* The cores _drain() is ready for, with so much audio from the next one on: by
\* force all there is, otherwise those whose whole window is there.
Ready(force, available) ==
    LET whole == Core + Right + Guard IN
    IF available <= 0 THEN 0
    ELSE IF force THEN CeilDiv(available, Core)
    ELSE IF available < whole THEN 0
    ELSE (available - whole) \div Core + 1

\* _probabilities_to_turns(): whatever the model says, its turns lie in the output
\* frames of the core.
SpanOf(frames, valid) == [from |-> frames * FrameMs, to |-> (frames + valid) * FrameMs]

\* _infer_step() on a buffer of size samples, with the core at next in it, after
\* frames of output: the window cut from the buffer, how much of it is guard and
\* context (in mel hops), and how far its turns reach.
Step(size, next, frames) ==
    LET real   == Least(Core, size - next)
        start  == Most(0, next - Left)
        end    == Least(size, next + Core + Right)
        from   == Most(0, start - Guard)
        to     == Least(size, end + Guard)
        span   == SpanOf(frames, CeilDiv(real, FrameSamples))
    IN  [core  |-> pcmStart + next, real |-> real,
         from  |-> pcmStart + from, to   |-> pcmStart + to,
         trimLeft  |-> Rounded(start - from, MelSamples),
         trimRight |-> Rounded(to - end, MelSamples),
         left   |-> Rounded(next - start, MelSamples),
         right  |-> Rounded(Most(0, end - (next + real)), MelSamples),
         starts |-> span.from,
         finalized |-> Least(span.to, (pcmStart + size) \div MsSamples),
         forced |-> finished']

\* What _drain() lets go of: the buffer before the next window, its guard
\* forgotten in the slip.
Dropped_WithGuard(next) == Most(0, next - Left)
Dropped(next) == Most(0, next - Left - Guard)

Drain(force) ==
    LET size == Most(0, received' - pcmStart)
        n    == Ready(force, size - nextCore)
        next == nextCore + n * Core
        made == [k \in 1..n |-> Step(size, nextCore + (k - 1) * Core, outputFrames + (k - 1) * CoreFrames)]
    IN  /\ steps' = steps \o made
        /\ outputFrames' = IF n = 0 THEN outputFrames
                           ELSE outputFrames + (n - 1) * CoreFrames + CeilDiv(made[n].real, FrameSamples)
        /\ pcmStart' = pcmStart + Dropped(next)
        /\ nextCore' = next - Dropped(next)

StreamFeed(n) ==
    /\ ~finished
    /\ received' = received + n
    /\ UNCHANGED finished
    /\ Drain(FALSE)

StreamFinish ==
    /\ ~finished
    /\ finished' = TRUE
    /\ UNCHANGED received
    /\ Drain(TRUE)

------------------------------------------------------------------------------
\* However the audio is cut into chunks, every core follows the one before, is
\* shown with the context of the whole recording, as if nothing of it had been
\* let go, and, before the end, with all of the audio after it; the spans of the
\* steps leave no gap and end with the audio; and no more of the recording is
\* kept than one window (model.py:433-464).
WindowsAreWhole ==
    /\ \A k \in DOMAIN steps :
          LET s == steps[k] IN
          /\ s.core = (k - 1) * Core
          /\ s.from = Most(0, s.core - Left - Guard)
          /\ s.trimLeft + s.left = (s.core - s.from) \div MelSamples
          /\ ~s.forced => /\ s.real = Core /\ s.to = s.core + Core + Right + Guard
                          /\ s.trimRight + s.right = (Right + Guard) \div MelSamples
          /\ s.forced  => s.to = Least(received, s.core + Core + Right + Guard)
          /\ s.starts <= s.finalized /\ s.finalized <= received \div MsSamples
          /\ s.starts = IF k = 1 THEN 0 ELSE steps[k - 1].finalized
    /\ finished => received <= Len(steps) * Core
    /\ ~finished => received - pcmStart < Left + Core + Right + 2 * Guard
==============================================================================
