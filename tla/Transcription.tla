---------------------------- MODULE Transcription ----------------------------
(***************************************************************************)
(* The work of a transcription job (asr/transcribe.py, transcribe_pcm_i16): *)
(* the recording is cut into segments, each is asked of the configured      *)
(* models (asr/oneshot.py), once more if all of them fail, its text may be  *)
(* refined, and the entries are gathered in file order.                     *)
(*                                                                          *)
(* A text is the name of the model that gave it, "none" when it is empty.   *)
(***************************************************************************)
EXTENDS AsrConfig, Integers, Sequences, SequencesExt, FiniteSets

CONSTANTS MaxSegments,      \* bound: segments of a recording
          Concurrency       \* transcribe_segment_concurrency

ASSUME TranscriptionAssumption ==
    MaxSegments \in Nat /\ Concurrency \in Nat \ {0}

Models == {"primary", "secondary"}
Replies == {"text", "empty", "failed"}
Entries == 1..MaxSegments

VARIABLES models,           \* enable_primary_asr, enable_dual_asr_fusion
          refines, emotions,  \* enhancement_options (refine: translate or clean up)
          phase,            \* where transcribe_pcm_i16() is
          total, done,      \* segments_total, segments_done of the job
          input,            \* the job still holds its recording
          step,             \* where run_one() is, per segment
          tries,            \* times infer() was called
          reply,            \* the models' answers to the last call
          text, error,      \* entry["text"], "error" in entry
          processed,        \* _processed_text, _postprocess_failed
          used,             \* _emotion_used
          result            \* the job's result

config == <<models, refines, emotions>>
entry  == <<text, error, processed, used>>
vars   == <<config, phase, total, done, input, step, tries, reply, entry, result>>

NoResult == [kept |-> <<>>, parts |-> <<>>, failed |-> 0, status |-> "none", buckets |-> 0]

\* The configuration may leave no model to ask: every segment fails then.
Init ==
    /\ models \in {Asked(c) : c \in RouteConfigs}
    /\ refines \in BOOLEAN /\ emotions \in BOOLEAN /\ (emotions => refines)
    /\ phase = "segmenting" /\ total = 0 /\ done = 0 /\ input = TRUE
    /\ step = [i \in Entries |-> "none"]
    /\ tries = [i \in Entries |-> 0]
    /\ reply = [i \in Entries |-> [m \in Models |-> "off"]]
    /\ text = [i \in Entries |-> "none"]
    /\ error = [i \in Entries |-> FALSE]
    /\ processed = [i \in Entries |-> "none"]
    /\ used = [i \in Entries |-> FALSE]
    /\ result = NoResult

\* A recording without speech has its result at once.
Segmented ==
    /\ phase = "segmenting"
    /\ total' \in 0..MaxSegments
    /\ input' = FALSE
    /\ phase' = IF total' = 0 THEN "returned" ELSE "inferring"
    /\ step' = [i \in Entries |-> IF i <= total' THEN "waiting" ELSE "none"]
    /\ result' = IF total' = 0 /\ refines THEN [NoResult EXCEPT !.status = "completed"]
                                          ELSE NoResult
    /\ UNCHANGED <<config, done, tries, reply, entry>>

InFlight == {i \in Entries : step[i] \notin {"none", "waiting", "done"}}

\* asyncio.Semaphore serves its waiters in the order they came.
Enters(i) ==
    /\ step[i] = "waiting"
    /\ \A j \in 1..i - 1 : step[j] # "waiting"
    /\ Cardinality(InFlight) < Concurrency

Ask(i) == reply' = [reply EXCEPT ![i] = [m \in Models |-> IF m \in models THEN "asked" ELSE "off"]]

\* done_count is counted, and reported to the job, whatever became of the entry.
Leave(i) ==
    /\ step' = [step EXCEPT ![i] = "done"]
    /\ done' = done + 1

\* prepare_audio_for_asr() finds no voice: the text is empty, no model is asked.
GateRefuses(i) ==
    /\ Enters(i)
    /\ tries' = [tries EXCEPT ![i] = 1]
    /\ Leave(i)
    /\ UNCHANGED <<config, phase, total, input, reply, entry, result>>

AskModels(i) ==
    /\ Enters(i)
    /\ tries' = [tries EXCEPT ![i] = 1]
    /\ Ask(i)
    /\ step' = [step EXCEPT ![i] = "asking"]
    /\ UNCHANGED <<config, phase, total, done, input, entry, result>>

\* A model answers, fails or times out.  Both run at the same time.
ModelReplies(i, m) ==
    /\ step[i] = "asking" /\ reply[i][m] = "asked"
    /\ \E r \in Replies : reply' = [reply EXCEPT ![i][m] = r]
    /\ UNCHANGED <<config, phase, total, done, input, step, tries, entry, result>>

Awaited(i) == step[i] = "asking" /\ \A m \in Models : reply[i][m] # "asked"

Answered(r) == {m \in Models : r[m] \in {"text", "empty"}}

AllFailed(i) == Answered(reply[i]) = {}

\* How two texts compare: whether the primary's hits a hotword, risks being a
\* hallucination (it repeats itself, or disagrees with the other and hits no more
\* hotwords), agrees with the other, scores enough, and beats the other's score.
Comparison == [hits : BOOLEAN, risks : BOOLEAN, agrees : BOOLEAN, scores : BOOLEAN,
               beats : BOOLEAN]

Preferred(c) ==
    IF c.hits \/ (~c.risks /\ c.scores /\ (c.agrees \/ c.beats)) THEN "primary" ELSE "secondary"

\* choose_fused_result(): an empty secondary silences the primary; two texts are
\* compared.
Fused(r) ==
    CASE r["secondary"] = "empty" -> {"none"}
      [] r["secondary"] = "text" /\ r["primary"] = "empty" -> {"secondary"}
      [] OTHER -> {Preferred(c) : c \in Comparison}

TextsOf(r) ==
    IF Answered(r) = Models THEN Fused(r)
    ELSE {IF r[m] = "text" THEN m ELSE "none" : m \in Answered(r)}

FirstFails_Recorded(i) ==
    /\ Awaited(i) /\ AllFailed(i) /\ tries[i] = 1
    /\ error' = [error EXCEPT ![i] = TRUE]
    /\ Leave(i)
    /\ UNCHANGED <<config, phase, total, input, tries, reply, text, processed, used, result>>
FirstFails(i) ==
    /\ Awaited(i) /\ AllFailed(i) /\ tries[i] = 1
    /\ tries' = [tries EXCEPT ![i] = 2]
    /\ Ask(i)
    /\ UNCHANGED <<config, phase, total, done, input, step, entry, result>>

RetryFails_Again(i) ==
    /\ Awaited(i) /\ AllFailed(i) /\ tries[i] = 2
    /\ Ask(i)
    /\ UNCHANGED <<config, phase, total, done, input, step, tries, entry, result>>
RetryFails(i) ==
    /\ Awaited(i) /\ AllFailed(i) /\ tries[i] = 2
    /\ error' = [error EXCEPT ![i] = TRUE]
    /\ Leave(i)
    /\ UNCHANGED <<config, phase, total, input, tries, reply, text, processed, used, result>>

TakeText(i) ==
    /\ Awaited(i) /\ ~AllFailed(i)
    /\ \E t \in TextsOf(reply[i]) :
         /\ text' = [text EXCEPT ![i] = t]
         /\ IF t # "none" /\ refines
            THEN /\ step' = [step EXCEPT ![i] = IF emotions THEN "emotion" ELSE "refining"]
                 /\ UNCHANGED done
            ELSE Leave(i)
    /\ UNCHANGED <<config, phase, total, input, tries, reply, error, processed, used, result>>

\* A failed emotion call is logged and the text refined without it.
EmotionReturns(i) ==
    /\ step[i] = "emotion"
    /\ \E answered \in BOOLEAN : used' = [used EXCEPT ![i] = answered]
    /\ step' = [step EXCEPT ![i] = "refining"]
    /\ UNCHANGED <<config, phase, total, done, input, tries, reply, text, error, processed,
                   result>>

\* refine_text() and evaluate_cleanup_result(): accepted, or the raw text stays.
RefineReturns(i) ==
    /\ step[i] = "refining"
    /\ \E p \in {"accepted", "failed"} : processed' = [processed EXCEPT ![i] = p]
    /\ Leave(i)
    /\ UNCHANGED <<config, phase, total, input, tries, reply, text, error, used, result>>

Failed == {i \in 1..total : error[i]}

\* The entries are gathered in file order.
InOrder(S) ==
    CHOOSE s \in [1..Cardinality(S) -> S] : \A j, k \in DOMAIN s : j < k => s[j] < s[k]

Kept_TextsOnly == InOrder({i \in 1..total : text[i] # "none"})
Kept == InOrder({i \in 1..total : text[i] # "none" \/ error[i]})

PostprocessFailed == \E i \in ToSet(Kept) : processed[i] = "failed"

Gathered == phase = "inferring" /\ done = total

AllSegmentsFailed ==
    /\ Gathered /\ Failed = 1..total
    /\ phase' = "raised"
    /\ UNCHANGED <<config, total, done, input, step, tries, reply, entry, result>>

Returns ==
    /\ Gathered /\ Failed # 1..total
    /\ phase' = "returned"
    /\ result' = [kept    |-> Kept,
                  failed  |-> Cardinality(Failed),
                  buckets |-> Cardinality({i \in ToSet(Kept) : used[i]}),
                  status  |-> IF ~refines THEN "none"
                              ELSE IF PostprocessFailed THEN "degraded_raw_only"
                              ELSE "completed",
                  parts   |-> IF refines /\ ~PostprocessFailed
                              THEN InOrder({i \in 1..total : text[i] # "none"}) ELSE <<>>]
    /\ UNCHANGED <<config, total, done, input, step, tries, reply, entry>>

RunOne(i) ==
    \/ GateRefuses(i) \/ AskModels(i)
    \/ \E m \in Models : ModelReplies(i, m)
    \/ FirstFails(i) \/ RetryFails(i) \/ TakeText(i)
    \/ EmotionReturns(i) \/ RefineReturns(i)

Next ==
    \/ Segmented \/ AllSegmentsFailed \/ Returns
    \/ \E i \in Entries : RunOne(i)

\* Segmentation is a computation; model calls carry timeouts.
Fairness == WF_vars(Next)

Spec == Init /\ [][Next]_vars /\ Fairness

------------------------------------------------------------------------------
\* The type invariant.  The recording is held only until it is cut.
TypeOK ==
    /\ models \subseteq Models /\ {refines, emotions} \subseteq BOOLEAN
    /\ phase \in {"segmenting", "inferring", "returned", "raised"}
    /\ total \in 0..MaxSegments /\ input = (phase = "segmenting")
    /\ step \in [Entries -> {"none", "waiting", "asking", "emotion", "refining", "done"}]
    /\ done \in Nat
    /\ tries \in [Entries -> 0..2]
    /\ reply \in [Entries -> [Models -> Replies \cup {"off", "asked"}]]
    /\ text \in [Entries -> Models \cup {"none"}] /\ error \in [Entries -> BOOLEAN]
    /\ processed \in [Entries -> {"none", "accepted", "failed"}]
    /\ used \in [Entries -> BOOLEAN]

\* What was heard is in the result, and nothing else: a segment for which a
\* model answered a text that the other did not veto is kept, in file order,
\* with a text some model gave; a segment nobody could transcribe is kept as a
\* gap; and a result called completed has a refined text for every kept text
\* (transcribe.py:289-371).
Silenced(r) == "text" \notin {r[m] : m \in Models} \/ r["secondary"] = "empty"

ResultIsComplete ==
    (phase = "returned" /\ total > 0) =>
        /\ \A i \in 1..total :
              /\ i \in ToSet(result.kept) <=>
                    \/ tries[i] = 2 /\ Answered(reply[i]) = {}
                    \/ ~Silenced(reply[i])
              /\ text[i] # "none" => reply[i][text[i]] = "text"
        /\ \A k \in 2..Len(result.kept) : result.kept[k - 1] < result.kept[k]
        /\ result.status = "completed" =>
              \A i \in ToSet(result.kept) :
                  text[i] # "none" => i \in ToSet(result.parts) /\ processed[i] = "accepted"

\* One bad segment costs neither the others nor its second chance: a segment is
\* in error only after every model failed it twice, and the job fails only if
\* that happened to all of them (transcribe.py:229-287).
FailureIsIsolated ==
    /\ \A i \in Entries : error[i] => tries[i] = 2 /\ Answered(reply[i]) = {}
    /\ phase = "raised" => \A i \in 1..total : tries[i] = 2 /\ Answered(reply[i]) = {}

\* Every job's work ends, whatever the models answer (transcribe.py:285).
TranscriptionEnds == <>(phase \in {"returned", "raised"})
==============================================================================
