--------------------------- MODULE MCDraftCaches ---------------------------
(***************************************************************************)
(* Small instance of DraftCaches for TLC.                                  *)
(***************************************************************************)
EXTENDS DraftCaches

CONSTANTS s1, s2, s3

Symmetry == Permutations(Slots)
=============================================================================
