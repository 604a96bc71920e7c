----------------------------- MODULE MCVadStream -----------------------------
(* VadStream for TLC; VadStream.cfg gives the constants their values. *)
EXTENDS VadStream
==============================================================================
