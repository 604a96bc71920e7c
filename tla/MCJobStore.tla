----------------------------- MODULE MCJobStore -----------------------------
(* JobStore for TLC; the configurations give the constants their values.      *)
EXTENDS JobStore
=============================================================================
