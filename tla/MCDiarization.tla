---------------------------- MODULE MCDiarization ----------------------------
(* Small instances of Diarization for TLC. *)
EXTENDS Diarization
=============================================================================
