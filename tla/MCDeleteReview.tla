--------------------------- MODULE MCDeleteReview ---------------------------
(* DeleteReview for TLC: two roots and two linkers, lists of one record.   *)
EXTENDS DeleteReview, TLC

Symmetry == Permutations(Roots) \cup Permutations(Linkers)
=============================================================================
