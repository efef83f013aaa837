-------------------------- MODULE MCAdminMutations --------------------------
(***************************************************************************)
(* AdminMutations for TLC: two requests run any two operations against     *)
(* each other, and two ids let bulk operations overlap in part, with one   *)
(* of their rows missing or created meanwhile.                             *)
(***************************************************************************)
EXTENDS AdminMutations

CONSTANTS i1, i2, r1, r2
=============================================================================
