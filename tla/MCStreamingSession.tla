------------------------ MODULE MCStreamingSession ------------------------
(* Small instances of StreamingSession for TLC. *)
EXTENDS StreamingSession
=============================================================================
