---------------------------- MODULE MCCleanStream ----------------------------
(* CleanStream for TLC; CleanStream.cfg gives the constants their values. *)
EXTENDS CleanStream
==============================================================================
