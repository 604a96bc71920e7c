------------------------------ MODULE MCK2Stream ------------------------------
(* K2Stream for TLC; K2Stream.cfg gives the constants their values. *)
EXTENDS K2Stream
==============================================================================
