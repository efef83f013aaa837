-------------------------- MODULE MCAdminSession --------------------------
(* AdminSession on small instances: everything but the clock is symmetric. *)
EXTENDS AdminSession, TLC

Symmetry ==
  Permutations(Users) \cup Permutations(Browsers)
    \cup Permutations(SessionIds) \cup Permutations(Requests)
==========================================================================
