---------------------------- MODULE AstV3Protocol ----------------------------
(***************************************************************************)
(* The two halves of the AST v3 codec of one connection                     *)
(* (streaming/protocol.py, AstV3Protocol).                                  *)
(*                                                                          *)
(* Inbound, a recording is a row of bytes, numbered from 1, that the client *)
(* cuts into frames as it likes.  A WAV file has its "data" marker end at   *)
(* byte marker, four size bytes (SizeField) after it, and then the samples; *)
(* raw PCM has samples from byte 1.  Outbound, a result is a record with    *)
(* the numbers and the role the client reads.                               *)
(***************************************************************************)
EXTENDS SpeakerTurns

CONSTANTS Magic,            \* bytes needed to tell a WAV file (12)
          Markers,          \* bound: where the "data" marker may end
          SizeField,        \* bytes of the chunk size (4)
          ScanLimit,        \* _WAV_HEADER_SCAN_LIMIT
          Bytes             \* bound: bytes of a recording

ASSUME ProtocolAssumption ==
    /\ {Magic, SizeField, ScanLimit, Bytes} \subseteq Nat
    /\ Markers \subseteq Nat /\ \A m \in Markers : Magic <= m

VARIABLES wav, marker,      \* the recording the client sends
          inbound,          \* "fresh" before the first frame, "refused", "stopped"
          received,         \* bytes received
          resolved,         \* _pcm_resolved
          base, passed,     \* first and last byte handed on as PCM
          roles,            \* _enable_role_separation
          segId,            \* _seg_id (and _sn = segId + 1)
          lastSpeaker,      \* _last_speaker_index
          terminated,       \* _terminated
          wire              \* history: the sentences sent

decoder == <<wav, marker, inbound, received, resolved, base, passed>>
encoder == <<roles, segId, lastSpeaker, terminated, wire>>

ProtocolInit ==
    /\ wav \in BOOLEAN /\ marker \in Markers
    /\ inbound = "fresh" /\ received = 0 /\ resolved = FALSE /\ base = 1 /\ passed = 0
    /\ roles \in BOOLEAN /\ segId = 0 /\ lastSpeaker = Nobody /\ terminated = FALSE
    /\ wire = <<>>

\* Samples are two bytes; an odd byte is carried to the next chunk.
WholeSamples_Dropped(first, last) == last
WholeSamples(first, last) == last - ((last - first + 1) % 2)

HeaderFound(length) == length >= marker

\* _extract_pcm(): until the first bytes are understood they are held back.
ExtractPcm(n) ==
    /\ received' = received + n
    /\ IF resolved
       THEN passed' = WholeSamples(base, received') /\ UNCHANGED <<resolved, base>>
       ELSE IF received' < Magic \/ (wav /\ ~HeaderFound(received') /\ received' <= ScanLimit)
       THEN UNCHANGED <<resolved, base, passed>>
       ELSE /\ resolved' = TRUE
            /\ base' = IF wav /\ HeaderFound(received')
                       THEN (IF received' < marker + SizeField THEN received' ELSE marker + SizeField) + 1
                       ELSE 1
            /\ passed' = IF base' > received' THEN base' - 1 ELSE WholeSamples(base', received')

\* decode_inbound(): the first frame configures the session; a first frame with
\* a bad enrolment request is answered with an error and its audio not read.
Frame(n, last) ==
    /\ inbound \in {"fresh", "open"}
    /\ ExtractPcm(n)
    /\ roles' \in IF inbound = "fresh" THEN BOOLEAN ELSE {roles}
    /\ inbound' = IF last THEN "stopped" ELSE "open"
    /\ UNCHANGED <<wav, marker, segId, lastSpeaker, terminated, wire>>

FrameRefused ==
    /\ inbound = "fresh"
    /\ inbound' = "refused" /\ roles' = FALSE
    /\ UNCHANGED <<wav, marker, received, resolved, base, passed, segId, lastSpeaker,
                   terminated, wire>>

\* The role of a sentence: 0 for the speaker of the sentence before, or for none.
Role(speaker) ==
    IF ~roles \/ speaker \notin 0..MaxSpeakers - 1 \/ speaker = lastSpeaker THEN 0 ELSE speaker + 1

\* _sentence_frame()
Sentence(speaker, applied) ==
    [segId |-> segId, rl |-> Role(speaker), speaker |-> speaker, applied |-> applied]

EncodeSentence_KeepsFirst(speaker, applied) ==
    /\ segId' = segId + 1
    /\ lastSpeaker' = IF lastSpeaker # Nobody THEN lastSpeaker ELSE speaker
    /\ wire' = Append(wire, Sentence(speaker, applied))
    /\ UNCHANGED <<roles, terminated>>
EncodeSentence(speaker, applied) ==
    /\ segId' = segId + 1
    /\ lastSpeaker' = IF Role(speaker) = 0 THEN lastSpeaker ELSE speaker
    /\ wire' = Append(wire, Sentence(speaker, applied))
    /\ UNCHANGED <<roles, terminated>>

\* encode_terminal() takes no number, and sends its frame once.
EncodeTerminal ==
    /\ ~terminated /\ terminated' = TRUE
    /\ UNCHANGED <<roles, segId, lastSpeaker, wire>>

------------------------------------------------------------------------------
\* What the VAD is fed is whole samples, none missing and none twice: from the
\* byte taken as the first, every byte but at most the last one received
\* (protocol.py:430-435).
AudioIsContiguous ==
    resolved => /\ ((passed - base + 1) % 2) = 0
                /\ received - passed \in 0..1

\* The header is stripped and nothing but the header, "stripping a one-time
\* leading WAV header" (protocol.py:408).  It is not when a frame ends between
\* the marker and the last byte of the chunk size: the rest of the size is taken
\* for samples, and shifts them by a byte when it is odd.
HeaderIsStripped ==
    (resolved /\ inbound # "refused" /\ wav /\ marker <= ScanLimit) => base = marker + SizeField + 1

\* The role a client that reads the frames in order holds at sentence k.
RoleRead(k) ==
    LET told == {j \in 1..k : wire[j].rl # 0}
    IN  IF told = {} THEN 0 ELSE wire[Max(told)].rl

\* A client that keeps the last role it was told attributes every sentence of a
\* known speaker to that speaker, although the role is sent only when it changes
\* and sentences of unknown speakers come in between (protocol.py:543-559).
RolesCanBeRead ==
    roles => \A k \in DOMAIN wire :
                 wire[k].speaker # Nobody => RoleRead(k) = wire[k].speaker + 1
==============================================================================
