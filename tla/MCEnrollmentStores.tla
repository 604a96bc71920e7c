------------------------- MODULE MCEnrollmentStores --------------------------
(* EnrollmentStores for TLC; EnrollmentStores.cfg gives the constants their   *)
(* values.  Ids are interchangeable.                                          *)
EXTENDS EnrollmentStores, TLC
CONSTANTS a, b, c
MCIds == {a, b, c}
MCScores == {0, 1}
Symmetry == Permutations(MCIds)
==============================================================================
