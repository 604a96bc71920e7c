--------------------------- MODULE MCTranscription ---------------------------
(* Transcription for TLC; Transcription.cfg gives the constants their values. *)
EXTENDS Transcription
==============================================================================
