-------------------------- MODULE MCQueueExtension --------------------------
(* QueueExtension for TLC: two jobs, one of them matching.                 *)
EXTENDS QueueExtension, TLC

CONSTANTS j1, j2, o1, o2

MCJobs == {j1, j2}
MCMatching == {j1}
MCOperators == {o1, o2}
Symmetry == Permutations(MCOperators)
=============================================================================
