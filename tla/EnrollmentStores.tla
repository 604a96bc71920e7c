-------------------------- MODULE EnrollmentStores ---------------------------
(***************************************************************************)
(* Enrolled speakers live in two stores: their audio, in this process       *)
(* (asr/enrollment.py) or at the model server, and the embedding of their   *)
(* voice (asr/speaker_identity.py).  Each store forgets what was unused for *)
(* a TTL and, when full, what was used least recently.  The endpoints of    *)
(* main.py create, look up, identify and delete; between two awaits nothing *)
(* interferes with a handler.                                               *)
(*                                                                          *)
(* A store is the sequence of its entries in the order of the dict.         *)
(***************************************************************************)
EXTENDS Integers, Sequences, SequencesExt, FiniteSets

CONSTANTS Ids,              \* the ids token_urlsafe() hands out; none twice
          TTL, MaxEntries,  \* asr_enrollment_ttl_sec, asr_enrollment_max_entries
          Scores, Threshold, Margin,  \* similarities and speaker_identity_match_*
          MaxTime           \* bound on the clock

ASSUME EnrollmentAssumption ==
    /\ TTL \in Nat /\ MaxEntries \in Nat \ {0} /\ MaxTime \in Nat
    /\ Scores \subseteq Int /\ {Threshold, Margin} \subseteq Int

VARIABLES remote,           \* enable_triton_enrollment_store
          time,             \* time.monotonic()
          audio, voices,    \* _entries of the two stores
          upstream,         \* ids the model server holds
          create,           \* where each POST /api/asr/enrollment is
          deleting,         \* DELETE requests waiting for the model server
          identify,         \* the speaker-identify request: its candidates
          matched,          \* its last answer
          deleted,          \* history: ids whose DELETE was answered
          touchedAudio, touchedVoice  \* history: when an entry was really last used

history == <<deleted, touchedAudio, touchedVoice>>
storesVars ==
    <<remote, time, audio, voices, upstream, create, deleting, identify, matched, history>>

NoRequest == [candidates |-> {}]
Unknown == "unknown"
Entry(id) == [id |-> id, used |-> time]
IdsOf(s) == {e.id : e \in ToSet(s)}

StoresInit ==
    /\ remote \in BOOLEAN /\ time = 0
    /\ audio = <<>> /\ voices = <<>> /\ upstream = {}
    /\ create = [id \in Ids |-> "none"]
    /\ deleting = {} /\ identify = NoRequest /\ matched = Unknown
    /\ deleted = {}
    /\ touchedAudio = [id \in Ids |-> 0] /\ touchedVoice = [id \in Ids |-> 0]

Tick ==
    /\ time < MaxTime
    /\ time' = time + 1
    /\ UNCHANGED <<remote, audio, voices, upstream, create, deleting, identify, matched, history>>

Alive(e) == e.used >= time - TTL

\* The entries at the positions I, in their order.
At(s, I) == [k \in 1 .. Cardinality(I) |->
                s[CHOOSE p \in I : Cardinality({q \in I : q < p}) = k - 1]]

\* _evict_expired_locked()
Unexpired(s) == At(s, {p \in DOMAIN s : Alive(s[p])})

\* min() takes the first of the least recently used.
Older(s, q, p) == s[q].used < s[p].used \/ (s[q].used = s[p].used /\ q < p)

\* _evict_overflow_locked(): the n most recently used stay.
Recent(s, n) ==
    At(s, {p \in DOMAIN s : Cardinality({q \in DOMAIN s : Older(s, q, p)}) >= Len(s) - n})

\* The enrolment store makes room before it puts, the identity store after.
PutAudio(id) == Append(Recent(Unexpired(audio), MaxEntries - 1), Entry(id))
EvictVoices  == Recent(Unexpired(voices), MaxEntries)
PutVoice(id) == Recent(Append(Unexpired(voices), Entry(id)), MaxEntries)

Touch_Not(s, ids) == s
Touch(s, ids) == [k \in DOMAIN s |-> IF s[k].id \in ids THEN Entry(s[k].id) ELSE s[k]]
Without(s, id) == At(s, {p \in DOMAIN s : s[p].id # id})

\* get() of the enrolment store looks at the one entry only.
GetAudio(id) ==
    IF \E e \in ToSet(audio) : e.id = id /\ ~Alive(e) THEN Without(audio, id)
    ELSE Touch(audio, {id})

GetVoices(ids) == Touch(EvictVoices, ids)

Now(ids, s, touched) == [id \in Ids |-> IF id \in ids \cap IdsOf(s) THEN time ELSE touched[id]]

\* POST /api/asr/enrollment with the store in this process: the clip is put,
\* then its embedding is awaited.
CreateLocal(id) ==
    /\ ~remote /\ create[id] = "none"
    /\ audio' = PutAudio(id)
    /\ touchedAudio' = [touchedAudio EXCEPT ![id] = time]
    /\ voices' = EvictVoices
    /\ create' = [create EXCEPT ![id] = "extracting"]
    /\ UNCHANGED <<remote, time, upstream, deleting, identify, matched, deleted, touchedVoice>>

CreateRemote(id) ==
    /\ remote /\ create[id] = "none"
    /\ upstream' = upstream \cup {id}
    /\ voices' = EvictVoices
    /\ create' = [create EXCEPT ![id] = "extracting"]
    /\ UNCHANGED <<remote, time, audio, deleting, identify, matched, history>>

\* 400: the clip cannot be decoded, or is too short.  502: the upsert failed, and
\* the model server may hold the enrolment all the same.
CreateRefused(id) ==
    /\ create[id] = "none"
    /\ create' = [create EXCEPT ![id] = "refused"]
    /\ \/ UNCHANGED upstream
       \/ remote /\ upstream' = upstream \cup {id}
    /\ UNCHANGED <<remote, time, audio, voices, deleting, identify, matched, history>>

\* extract_speaker_embedding() answers, and the client learns the id.
ExtractReturns(id) ==
    /\ create[id] = "extracting"
    /\ voices' = PutVoice(id)
    /\ touchedVoice' = [touchedVoice EXCEPT ![id] = time]
    /\ create' = [create EXCEPT ![id] = "created"]
    /\ UNCHANGED <<remote, time, audio, upstream, deleting, identify, matched, deleted,
                   touchedAudio>>

\* The sidecar is unavailable: the enrolment is told to have no identity.  An
\* embedding put() refuses fails the request, whose clip stays until its TTL.
ExtractFails(id) ==
    /\ create[id] = "extracting"
    /\ \E outcome \in {"created", "refused"} : create' = [create EXCEPT ![id] = outcome]
    /\ UNCHANGED <<remote, time, audio, voices, upstream, deleting, identify, matched, history>>

Told(id) == create[id] = "created"

Delete_AudioOnly(id) ==
    /\ ~remote /\ Told(id)
    /\ audio' = Without(audio, id) /\ UNCHANGED voices
    /\ deleted' = deleted \cup {id}
    /\ UNCHANGED <<remote, time, upstream, create, deleting, identify, matched,
                   touchedAudio, touchedVoice>>
Delete(id) ==
    /\ ~remote /\ Told(id)
    /\ audio' = Without(audio, id) /\ voices' = Without(voices, id)
    /\ deleted' = deleted \cup {id}
    /\ UNCHANGED <<remote, time, upstream, create, deleting, identify, matched,
                   touchedAudio, touchedVoice>>

\* The model server is asked first; a failure is only logged.
DeleteUpstream(id) ==
    /\ remote /\ Told(id) /\ id \notin deleting
    /\ \E left \in {upstream, upstream \ {id}} : upstream' = left
    /\ deleting' = deleting \cup {id}
    /\ UNCHANGED <<remote, time, audio, voices, create, identify, matched, history>>

DeleteReturns(id) ==
    /\ id \in deleting
    /\ voices' = Without(voices, id)
    /\ deleting' = deleting \ {id}
    /\ deleted' = deleted \cup {id}
    /\ UNCHANGED <<remote, time, audio, upstream, create, identify, matched,
                   touchedAudio, touchedVoice>>

\* GET /api/asr/enrollment/{id}: both stores are asked, and refreshed.
Status(id) ==
    /\ Told(id)
    /\ IF remote THEN UNCHANGED <<audio, touchedAudio>>
       ELSE /\ audio' = GetAudio(id)
            /\ touchedAudio' = Now({id}, GetAudio(id), touchedAudio)
    /\ voices' = GetVoices({id})
    /\ touchedVoice' = Now({id}, EvictVoices, touchedVoice)
    /\ UNCHANGED <<remote, time, upstream, create, deleting, identify, matched, deleted>>

\* _resolve_enrollment_b64(), for an upload or the start of a session.
Resolve(id) ==
    /\ ~remote /\ Told(id)
    /\ audio' = GetAudio(id)
    /\ touchedAudio' = Now({id}, GetAudio(id), touchedAudio)
    /\ UNCHANGED <<remote, time, voices, upstream, create, deleting, identify, matched,
                   deleted, touchedVoice>>

\* POST /api/asr/speaker-identify: with a candidate missing it is refused (409),
\* but the others were refreshed; otherwise the candidates are kept through the
\* extraction of the query's embedding.
IdentifyBegins(c) ==
    /\ identify = NoRequest
    /\ c # {} /\ Cardinality(c) <= 4 /\ \A id \in c : Told(id)
    /\ voices' = GetVoices(c)
    /\ touchedVoice' = Now(c, EvictVoices, touchedVoice)
    /\ identify' = IF c \subseteq IdsOf(EvictVoices) THEN [candidates |-> c] ELSE NoRequest
    /\ UNCHANGED <<remote, time, audio, upstream, create, deleting, matched, deleted,
                   touchedAudio>>

\* match_speaker_embedding(): the best of the scores, if it is good enough and
\* no other comes close.
Match(score) ==
    LET best == CHOOSE id \in DOMAIN score : \A other \in DOMAIN score : score[other] <= score[id]
    IN  IF /\ score[best] >= Threshold
           /\ \A other \in DOMAIN score \ {best} : score[best] - score[other] >= Margin
        THEN best ELSE Unknown

IdentifyReturns ==
    /\ identify # NoRequest
    /\ \E score \in [identify.candidates -> Scores] : matched' = Match(score)
    /\ identify' = NoRequest
    /\ UNCHANGED <<remote, time, audio, voices, upstream, create, deleting, history>>

IdentifyFails ==
    /\ identify # NoRequest
    /\ identify' = NoRequest /\ matched' = Unknown
    /\ UNCHANGED <<remote, time, audio, voices, upstream, create, deleting, history>>

Create(id) == CreateLocal(id) \/ CreateRemote(id) \/ CreateRefused(id)
                 \/ ExtractReturns(id) \/ ExtractFails(id)
Clear(id) == Delete(id) \/ DeleteUpstream(id) \/ DeleteReturns(id)
Lookup(id) == Status(id) \/ Resolve(id)

StoresNext ==
    \/ Tick
    \/ \E id \in Ids : Create(id) \/ Clear(id) \/ Lookup(id)
    \/ \E c \in SUBSET Ids : IdentifyBegins(c)
    \/ IdentifyReturns \/ IdentifyFails

StoresSpec == StoresInit /\ [][StoresNext]_storesVars

------------------------------------------------------------------------------
\* A deleted enrolment is gone for good: neither the store of its audio in this
\* process nor its voice has it once the DELETE was answered, although a create
\* writes to the second store after an await, gets re-insert what they refresh
\* and a lookup may race the model server (main.py:862-882).
DeletedStaysGone ==
    deleted \cap (IdsOf(audio) \cup IdsOf(voices)) = {}

Leaves(s, t) == IdsOf(s) \ IdsOf(t)

\* Whatever leaves a store without being deleted was unused for a TTL, or was,
\* of those that were not, the least recently used of a store that was full; no
\* store ever holds more than its limit (enrollment.py:223-236,
\* speaker_identity.py:74-86).
Evicts(s, t, touched) ==
    \A id \in Leaves(s, t) :
        \/ id \in deleted'
        \/ touched[id] < time - TTL
        \/ /\ Len(s) >= MaxEntries
           /\ \A other \in IdsOf(s) \cap IdsOf(t) : touched[id] <= touched'[other]
           /\ Cardinality({other \in IdsOf(s) : touched[other] >= time - TTL}) >= MaxEntries

EvictsTheRightOnes ==
    [][/\ Evicts(audio, audio', touchedAudio)
       /\ Evicts(voices, voices', touchedVoice)
       /\ Len(audio') <= MaxEntries /\ Len(voices') <= MaxEntries]_storesVars
==============================================================================
