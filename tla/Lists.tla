-------------------------------- MODULE Lists --------------------------------
(***************************************************************************)
(* Filtering a list and taking each member once, without recursion.        *)
(***************************************************************************)
EXTENDS Naturals, Sequences, FiniteSets

(* The members of s that are in js, in their order: the one at a place     *)
(* with k such places up to it is the k-th.                                *)
Kept(s, js) ==
  LET places  == {i \in DOMAIN s : s[i] \in js}
      Rank(i) == Cardinality({h \in places : h <= i})
  IN  [k \in 1..Cardinality(places) |-> s[CHOOSE i \in places : Rank(i) = k]]

(* Each member of s once, in the order in which they first appear.         *)
Once(s) ==
  LET places  == {i \in DOMAIN s : \A h \in DOMAIN s : h < i => s[h] # s[i]}
      Rank(i) == Cardinality({h \in places : h <= i})
  IN  [k \in 1..Cardinality(places) |-> s[CHOOSE i \in places : Rank(i) = k]]
=============================================================================
