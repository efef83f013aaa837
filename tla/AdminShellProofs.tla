-------------------------- MODULE AdminShellProofs --------------------------
(***************************************************************************)
(* Theorems about AdminShell and the registries, permissions and addresses *)
(* it rests on (Extensions, Navigation), for any hosts, users and bounds.  *)
(***************************************************************************)
EXTENDS AdminShell, SequenceTheorems, FiniteSetTheorems, FunctionTheorems, TLAPS

-----------------------------------------------------------------------------
(* Lists.                                                                  *)

(* The rank of a place numbers the places of a set, without gaps.          *)
LEMMA PlacesAreNumbered ==
  ASSUME NEW m \in Nat, NEW P \in SUBSET (1..m)
  PROVE  /\ Cardinality(P) \in Nat /\ Cardinality(P) <= m
         /\ \A i \in P : /\ Cardinality({h \in P : h <= i}) \in 1..Cardinality(P)
                         /\ Cardinality({h \in P : h <= i}) <= i
         /\ \A i, j \in P :
              Cardinality({h \in P : h <= i}) = Cardinality({h \in P : h <= j}) => i = j
         /\ \A k \in 1..Cardinality(P) : \E i \in P : Cardinality({h \in P : h <= i}) = k
<1> DEFINE upto(i) == {h \in P : h <= i}
           n == Cardinality(P)
<1>1. ASSUME NEW k \in Nat
      PROVE  IsFiniteSet(1..k) /\ Cardinality(1..k) = k
  <2>1. IsFiniteSet(1..k) /\ Cardinality(1..k) = IF 1 > k THEN 0 ELSE k - 1 + 1
    BY FS_Interval
  <2>2. QED BY <2>1
<1>2. IsFiniteSet(P) /\ n \in Nat /\ n <= m
  <2>1. IsFiniteSet(1..m) /\ Cardinality(1..m) = m
    BY <1>1
  <2>2. IsFiniteSet(P) /\ n <= m
    BY <2>1, FS_Subset
  <2>3. QED BY <2>2, FS_CardinalityType
<1>3. ASSUME NEW i \in P
      PROVE  /\ IsFiniteSet(upto(i)) /\ Cardinality(upto(i)) \in 1..n
             /\ Cardinality(upto(i)) <= i /\ i \in Nat
  <2>1. /\ i \in Nat /\ upto(i) \subseteq P /\ upto(i) \subseteq 1..i /\ i \in upto(i)
    <3>1. \A h \in P : h \in Int /\ h >= 1
      OBVIOUS
    <3>2. i \in Nat /\ i <= i
      OBVIOUS
    <3>3. upto(i) \subseteq P
      OBVIOUS
    <3>4. i \in upto(i)
      BY <3>2
    <3>5. \A h \in upto(i) : h \in 1..i
      BY <3>1
    <3>6. QED BY <3>2, <3>3, <3>4, <3>5
  <2> HIDE DEF upto
  <2>2. /\ IsFiniteSet(upto(i)) /\ Cardinality(upto(i)) \in Nat
        /\ Cardinality(upto(i)) <= n /\ Cardinality(upto(i)) <= i
    BY <2>1, <1>1, <1>2, FS_Subset, FS_CardinalityType
  <2>3. Cardinality(upto(i)) # 0
    BY <2>1, <2>2, FS_EmptySet
  <2>4. QED BY <2>1, <2>2, <2>3, <1>2
<1>4. ASSUME NEW i \in P, NEW j \in P, i < j
      PROVE  Cardinality(upto(i)) # Cardinality(upto(j))
  <2>1. upto(i) \subseteq upto(j) /\ j \in upto(j) /\ j \notin upto(i)
    <3>1. i \in Nat /\ j \in Nat /\ \A h \in P : h \in Nat
      OBVIOUS
    <3>2. \A h \in upto(i) : h \in upto(j)
      BY <3>1, <1>4
    <3>3. j \in upto(j) /\ j \notin upto(i)
      BY <3>1, <1>4
    <3>4. QED BY <3>2, <3>3
  <2> HIDE DEF upto
  <2>2. QED BY <2>1, <1>3, FS_Subset
<1>5. \A i, j \in P : Cardinality(upto(i)) = Cardinality(upto(j)) => i = j
  <2>1. SUFFICES ASSUME NEW i \in P, NEW j \in P, i # j
                 PROVE  Cardinality(upto(i)) # Cardinality(upto(j))
    OBVIOUS
  <2>2. i < j \/ j < i
    BY <2>1
  <2> HIDE DEF upto
  <2>3. QED BY <2>2, <1>4
<1>6. \A k \in 1..n : \E i \in P : Cardinality(upto(i)) = k
  <2> DEFINE rank == [i \in P |-> Cardinality(upto(i))]
  <2> HIDE DEF upto
  <2>1. rank \in [P -> 1..n] /\ \A i \in P : rank[i] = Cardinality(upto(i))
    BY <1>3
  <2> HIDE DEF rank
  <2>2. rank \in Injection(P, 1..n)
    BY <2>1, <1>5 DEF Injection, IsInjective
  <2>3. rank \in Surjection(P, 1..n)
    BY <2>2, <1>1, <1>2, FS_Injection
  <2>4. QED BY <2>1, <2>3 DEF Surjection
<1>7. QED BY <1>2, <1>3, <1>5, <1>6

LEMMA Least ==
  ASSUME NEW m \in Nat, NEW P \in SUBSET (1..m), P # {}
  PROVE  \E k \in P : \A h \in P : k <= h
<1> DEFINE upto(i) == {h \in P : h <= i}
<1>1. /\ \A i \in P : Cardinality(upto(i)) \in 1..Cardinality(P)
      /\ \A k \in 1..Cardinality(P) : \E i \in P : Cardinality(upto(i)) = k
      /\ Cardinality(P) \in Nat
  BY PlacesAreNumbered
<1>2. PICK i \in P : Cardinality(upto(i)) = 1
  <2> HIDE DEF upto
  <2>1. PICK k \in P : Cardinality(upto(k)) \in 1..Cardinality(P)
    BY <1>1
  <2>2. 1 \in 1..Cardinality(P)
    BY <1>1, <2>1
  <2>3. QED BY <1>1, <2>2
<1>3. ASSUME NEW k \in P
      PROVE  i <= k
  <2>1. SUFFICES ASSUME k < i PROVE FALSE
    OBVIOUS
  <2>2. k \in upto(i) /\ i \in upto(i) /\ k # i
    BY <2>1
  <2>3. upto(i) \subseteq 1..m /\ IsFiniteSet(1..m)
    <3>1. IsFiniteSet(1..m)
      BY FS_Interval
    <3>2. QED BY <3>1
  <2> HIDE DEF upto
  <2>4. IsFiniteSet(upto(i))
    BY <2>3, FS_Subset
  <2>5. QED BY <1>2, <2>2, <2>4, FS_Singleton
<1>4. QED BY <1>3

LEMMA Elements ==
  ASSUME NEW S, NEW s \in Seq(S)
  PROVE  /\ Len(s) \in Nat /\ DOMAIN s = 1..Len(s)
         /\ \A i \in 1..Len(s) : s[i] \in S /\ s[i] \in ToSet(s)
         /\ \A x \in ToSet(s) : x \in S /\ \E i \in 1..Len(s) : x = s[i]
         /\ s = <<>> <=> ToSet(s) = {}
         /\ s # <<>> => Head(s) \in ToSet(s)
<1>1. /\ Len(s) \in Nat /\ DOMAIN s = 1..Len(s)
      /\ \A i \in 1..Len(s) : s[i] \in S
  BY LenProperties, ElementOfSeq
<1>2. s = <<>> <=> Len(s) = 0
  BY EmptySeq
<1>3. s # <<>> => Head(s) = s[1]
  BY <1>1, <1>2
<1>4. s # <<>> => 1 \in 1..Len(s)
  BY <1>1, <1>2
<1>5. /\ \A i \in 1..Len(s) : s[i] \in ToSet(s)
      /\ \A x \in ToSet(s) : \E i \in 1..Len(s) : x = s[i]
  BY <1>1 DEF ToSet
<1>6. QED BY <1>1, <1>2, <1>3, <1>4, <1>5

(* The members of s at the places in P, in order.                          *)
Taken(s, P) ==
  [k \in 1..Cardinality(P) |-> s[CHOOSE i \in P : Cardinality({h \in P : h <= i}) = k]]

LEMMA TakenElements ==
  ASSUME NEW S, NEW s \in Seq(S), NEW P \in SUBSET (1..Len(s))
  PROVE  Taken(s, P) \in Seq(S) /\ ToSet(Taken(s, P)) = {s[i] : i \in P}
<1> DEFINE rank(i) == Cardinality({h \in P : h <= i})
           n == Cardinality(P)
           place(k) == CHOOSE i \in P : rank(i) = k
           t == Taken(s, P)
<1>1. t = [k \in 1..n |-> s[place(k)]]
  BY DEF Taken
<1>2. /\ n \in Nat
      /\ \A i \in P : rank(i) \in 1..n
      /\ \A i, j \in P : rank(i) = rank(j) => i = j
      /\ \A k \in 1..n : \E i \in P : rank(i) = k
  <2>1. Len(s) \in Nat
    BY Elements
  <2>2. QED BY <2>1, PlacesAreNumbered
<1>3. \A i \in P : s[i] \in S
  BY Elements
<1> HIDE DEF rank, n, t
<1>4. \A k \in 1..n : place(k) \in P /\ rank(place(k)) = k
  BY <1>2
<1>5. \A i \in P : place(rank(i)) = i
  BY <1>2, <1>4
<1> HIDE DEF place
<1>6. /\ t \in [1..n -> S] /\ DOMAIN t = 1..n
      /\ \A k \in 1..n : t[k] = s[place(k)]
  BY <1>1, <1>3, <1>4
<1>7. t \in Seq(S)
  BY <1>2, <1>6
<1>8. ASSUME NEW x \in ToSet(t)
      PROVE  \E i \in P : x = s[i]
  <2>1. PICK k \in 1..n : x = t[k]
    BY <1>6 DEF ToSet
  <2>2. QED BY <2>1, <1>4, <1>6
<1>9. ASSUME NEW i \in P
      PROVE  s[i] \in ToSet(t)
  <2>1. rank(i) \in 1..n /\ t[rank(i)] = s[i]
    BY <1>2, <1>5, <1>6
  <2>2. QED BY <2>1, <1>6 DEF ToSet
<1>10. ToSet(t) = {s[i] : i \in P}
  BY <1>8, <1>9
<1>11. QED BY <1>7, <1>10 DEF t

LEMMA KeptElements ==
  ASSUME NEW S, NEW s \in Seq(S), NEW js
  PROVE  Kept(s, js) \in Seq(S) /\ ToSet(Kept(s, js)) = ToSet(s) \cap js
<1> DEFINE P == {i \in DOMAIN s : s[i] \in js}
<1>1. Kept(s, js) = Taken(s, P)
  BY DEF Kept, Taken
<1>2. P \in SUBSET (1..Len(s))
  BY Elements
<1>3. {s[i] : i \in P} = ToSet(s) \cap js
  BY Elements
<1> HIDE DEF P
<1>4. QED BY <1>1, <1>2, <1>3, TakenElements

LEMMA OnceElements ==
  ASSUME NEW S, NEW s \in Seq(S)
  PROVE  Once(s) \in Seq(S) /\ ToSet(Once(s)) = ToSet(s)
<1> DEFINE P == {i \in DOMAIN s : \A h \in DOMAIN s : h < i => s[h] # s[i]}
<1>1. Once(s) = Taken(s, P)
  BY DEF Once, Taken
<1>2. P \in SUBSET (1..Len(s))
  BY Elements
<1>3. ASSUME NEW i \in 1..Len(s)
      PROVE  \E k \in P : s[k] = s[i]
  <2> DEFINE Q == {h \in 1..Len(s) : s[h] = s[i]}
  <2>1. Len(s) \in Nat /\ DOMAIN s = 1..Len(s)
    BY Elements
  <2>2. Q \in SUBSET (1..Len(s)) /\ Q # {}
    OBVIOUS
  <2>3. PICK k \in Q : \A h \in Q : k <= h
    <3> HIDE DEF Q
    <3>1. QED BY <2>1, <2>2, Least
  <2>4. k \in P
    BY <2>1, <2>3
  <2>5. QED BY <2>3, <2>4
<1>4. {s[i] : i \in P} = ToSet(s)
  <2>1. \A i \in P : s[i] \in ToSet(s)
    BY <1>2, Elements
  <2>2. \A x \in ToSet(s) : \E i \in P : x = s[i]
    <3> HIDE DEF P
    <3>1. QED BY <1>3, Elements
  <2> HIDE DEF P
  <2>3. QED BY <2>1, <2>2
<1> HIDE DEF P
<1>5. QED BY <1>1, <1>2, <1>4, TakenElements

LEMMA JoinElements ==
  ASSUME NEW S, NEW s \in Seq(S), NEW t \in Seq(S)
  PROVE  /\ s \o t \in Seq(S)
         /\ \A x : x \in ToSet(s \o t) <=> x \in ToSet(s) \/ x \in ToSet(t)
<1>1. /\ s \o t \in Seq(S) /\ Len(s \o t) = Len(s) + Len(t)
      /\ \A i \in 1..Len(s) + Len(t) :
           (s \o t)[i] = IF i <= Len(s) THEN s[i] ELSE t[i - Len(s)]
  BY ConcatProperties
<1>2. /\ Len(s) \in Nat /\ DOMAIN s = 1..Len(s)
      /\ Len(t) \in Nat /\ DOMAIN t = 1..Len(t)
      /\ DOMAIN (s \o t) = 1..(Len(s) + Len(t))
  BY <1>1, Elements
<1>3. ASSUME NEW i \in 1..(Len(s) + Len(t))
      PROVE  (s \o t)[i] \in ToSet(s) \/ (s \o t)[i] \in ToSet(t)
  <2>1. i <= Len(s) => i \in 1..Len(s) /\ (s \o t)[i] = s[i]
    BY <1>1, <1>2
  <2>2. ~(i <= Len(s)) => i - Len(s) \in 1..Len(t) /\ (s \o t)[i] = t[i - Len(s)]
    BY <1>1, <1>2
  <2>3. QED BY <1>2, <2>1, <2>2 DEF ToSet
<1>4. ASSUME NEW i \in 1..Len(s)
      PROVE  s[i] \in ToSet(s \o t)
  <2>1. i \in 1..(Len(s) + Len(t)) /\ (s \o t)[i] = s[i]
    BY <1>1, <1>2
  <2>2. QED BY <1>2, <2>1 DEF ToSet
<1>5. ASSUME NEW i \in 1..Len(t)
      PROVE  t[i] \in ToSet(s \o t)
  <2>1. Len(s) + i \in 1..(Len(s) + Len(t)) /\ (s \o t)[Len(s) + i] = t[i]
    BY <1>1, <1>2
  <2>2. QED BY <1>2, <2>1 DEF ToSet
<1>6. QED BY <1>1, <1>2, <1>3, <1>4, <1>5 DEF ToSet

LEMMA Following ==
  ASSUME NEW S, NEW s \in Seq(S), NEW t \in Seq(S), NEW w \in Seq(S),
         Len(w) = Len(s) + Len(t),
         \A i \in 1..Len(s) : w[i] = s[i],
         \A i \in 1..Len(t) : w[Len(s) + i] = t[i]
  PROVE  s \o t = w
<1>1. /\ s \o t \in Seq(S) /\ Len(s \o t) = Len(s) + Len(t)
      /\ \A i \in 1..Len(s) + Len(t) :
           (s \o t)[i] = IF i <= Len(s) THEN s[i] ELSE t[i - Len(s)]
  BY ConcatProperties
<1>2. Len(s) \in Nat /\ Len(t) \in Nat
  BY LenProperties
<1>3. ASSUME NEW i \in 1..Len(s) + Len(t)
      PROVE  (s \o t)[i] = w[i]
  <2>1. CASE i <= Len(s)
    BY <1>1, <1>2, <2>1
  <2>2. CASE ~(i <= Len(s))
    <3>1. i - Len(s) \in 1..Len(t) /\ Len(s) + (i - Len(s)) = i
      BY <1>2, <2>2
    <3>2. QED BY <1>1, <1>2, <2>2, <3>1
  <2>3. QED BY <2>1, <2>2
<1>4. QED BY <1>1, <1>3, SeqEqual

(* The recursive function of FlattenSeq exists, and joins the lists.       *)
LEMMA FlatElements ==
  ASSUME NEW S, NEW ss \in Seq(Seq(S))
  PROVE  /\ FlattenSeq(ss) \in Seq(S)
         /\ \A x : x \in ToSet(FlattenSeq(ss)) <=> \E i \in DOMAIN ss : x \in ToSet(ss[i])
<1> DEFINE n == Len(ss)
           Flat(g, m) == g = [i \in 1..m |-> IF i = 1 THEN ss[i] ELSE g[i-1] \o ss[i]]
           flat == CHOOSE g : Flat(g, n)
<1>1. /\ n \in Nat /\ DOMAIN ss = 1..n
      /\ \A i \in 1..n : ss[i] \in Seq(S)
  BY Elements
<1>2. FlattenSeq(ss) = IF n = 0 THEN ss ELSE flat[n]
  BY DEF FlattenSeq
<1>3. \A m \in 1..n : \E g : Flat(g, m)
  <2> DEFINE Bad == {m \in 1..n : ~\E g : Flat(g, m)}
  <2>1. SUFFICES ASSUME Bad # {} PROVE FALSE
    OBVIOUS
  <2>2. PICK m \in Bad : \A h \in Bad : m <= h
    <3>1. Bad \in SUBSET (1..n)
      OBVIOUS
    <3> HIDE DEF Bad, n
    <3>2. QED BY <1>1, <2>1, <3>1, Least
  <2>3. m \in 1..n /\ ~\E g : Flat(g, m)
    OBVIOUS
  <2>4. CASE m = 1
    <3>1. Flat([i \in 1..1 |-> ss[i]], 1)
      OBVIOUS
    <3>2. QED BY <2>3, <2>4, <3>1
  <2>5. CASE m # 1
    <3>1. m - 1 \in 1..n /\ m - 1 \notin Bad
      <4>1. m - 1 \in 1..n /\ ~(m <= m - 1)
        BY <1>1, <2>3, <2>5
      <4> HIDE DEF Bad
      <4>2. QED BY <2>2, <4>1
    <3>2. PICK g : Flat(g, m - 1)
      BY <3>1
    <3> DEFINE f == [i \in 1..m |-> IF i = m THEN g[m-1] \o ss[m] ELSE g[i]]
    <3>3. ASSUME NEW i \in 1..m
          PROVE  f[i] = IF i = 1 THEN ss[i] ELSE f[i-1] \o ss[i]
      <4>1. CASE i = m
        <5>1. i - 1 \in 1..m /\ i - 1 # m
          BY <2>3, <2>5, <4>1
        <5>2. QED BY <2>5, <4>1, <5>1
      <4>2. CASE i # m
        <5>1. i \in 1..(m-1) /\ i \in Nat
          BY <2>3, <4>2
        <5>2. g[i] = IF i = 1 THEN ss[i] ELSE g[i-1] \o ss[i]
          BY <3>2, <5>1
        <5>3. i # 1 => i - 1 \in 1..m /\ i - 1 # m
          BY <2>3, <5>1
        <5>4. f[i] = g[i] /\ (i # 1 => f[i-1] = g[i-1])
          BY <4>2, <5>3
        <5>5. QED BY <5>2, <5>4
      <4>3. QED BY <4>1, <4>2
    <3>4. f = [i \in 1..m |-> f[i]]
      OBVIOUS
    <3> HIDE DEF f
    <3>5. f = [i \in 1..m |-> IF i = 1 THEN ss[i] ELSE f[i-1] \o ss[i]]
      BY <3>3, <3>4
    <3>6. QED BY <2>3, <3>5
  <2>6. QED BY <2>4, <2>5
<1>4. n # 0 => Flat(flat, n)
  <2>1. n # 0 => n \in 1..n
    BY <1>1
  <2> HIDE DEF Flat, n
  <2>2. QED BY <2>1, <1>3
<1> HIDE DEF flat, n
<1>5. ASSUME n # 0, NEW i \in 1..n
      PROVE  flat[i] = IF i = 1 THEN ss[i] ELSE flat[i-1] \o ss[i]
  BY <1>4, <1>5
<1> DEFINE Right(k) ==
      /\ flat[k] \in Seq(S)
      /\ \A x : x \in ToSet(flat[k]) <=> \E i \in 1..k : x \in ToSet(ss[i])
<1>6. ASSUME n # 0 PROVE \A k \in 1..n : Right(k)
  <2> DEFINE Bad == {k \in 1..n : ~Right(k)}
  <2>1. SUFFICES ASSUME Bad # {} PROVE FALSE
    OBVIOUS
  <2>2. PICK m \in Bad : \A h \in Bad : m <= h
    <3>1. Bad \in SUBSET (1..n)
      OBVIOUS
    <3> HIDE DEF Bad
    <3>2. QED BY <1>1, <2>1, <3>1, Least
  <2>3. m \in 1..n /\ ~Right(m)
    OBVIOUS
  <2>4. CASE m = 1
    <3>1. flat[m] = ss[1] /\ ss[1] \in Seq(S) /\ 1..m = {1}
      BY <1>1, <1>5, <1>6, <2>3, <2>4
    <3>2. Right(m)
      BY <3>1
    <3>3. QED BY <2>3, <3>2
  <2>5. CASE m # 1
    <3>1. m - 1 \in 1..n /\ m - 1 \notin Bad /\ m \in Nat
      <4>1. m - 1 \in 1..n /\ m \in Nat /\ ~(m <= m - 1)
        BY <1>1, <2>3, <2>5
      <4> HIDE DEF Bad
      <4>2. QED BY <2>2, <4>1
    <3>2. Right(m - 1)
      BY <3>1
    <3>3. flat[m] = flat[m-1] \o ss[m] /\ ss[m] \in Seq(S)
      BY <1>1, <1>5, <1>6, <2>3, <2>5
    <3>4. /\ flat[m] \in Seq(S)
          /\ \A x : x \in ToSet(flat[m]) <=> x \in ToSet(flat[m-1]) \/ x \in ToSet(ss[m])
      BY <3>2, <3>3, JoinElements
    <3>5. \A i : i \in 1..m <=> i \in 1..(m-1) \/ i = m
      BY <3>1, <2>5, <2>3
    <3>6. Right(m)
      BY <3>2, <3>4, <3>5
    <3>7. QED BY <2>3, <3>6
  <2>6. QED BY <2>4, <2>5
<1>7. CASE n = 0
  <2>1. ss = <<>>
    BY <1>7, EmptySeq DEF n
  <2>2. FlattenSeq(ss) = <<>>
    BY <1>2, <1>7, <2>1
  <2>3. DOMAIN ss = {} /\ DOMAIN <<>> = {}
    BY <2>1
  <2>4. QED BY <2>2, <2>3, <2>1 DEF ToSet
<1>8. CASE n # 0
  <2>1. n \in 1..n
    BY <1>1, <1>8
  <2>2. Right(n)
    BY <1>6, <1>8, <2>1
  <2>3. QED BY <1>1, <1>2, <1>8, <2>2
<1>9. QED BY <1>7, <1>8

-----------------------------------------------------------------------------
(* What a host registers.                                                  *)

LEMMA EveryElements ==
  ASSUME NEW o \in ModuleOptions, NEW part, NEW S, \A e \in Extension : e[part] \in Seq(S)
  PROVE  /\ Every(o, part) \in Seq(S)
         /\ \A x : x \in ToSet(Every(o, part))
                     <=> \E e \in ToSet(o.extensions) : x \in ToSet(e[part])
<1> DEFINE ss == [i \in DOMAIN o.extensions |-> o.extensions[i][part]]
<1>1. o.extensions \in Seq(Extension)
  BY DEF ModuleOptions
<1>2. /\ Len(o.extensions) \in Nat /\ DOMAIN o.extensions = 1..Len(o.extensions)
      /\ \A i \in 1..Len(o.extensions) :
           o.extensions[i] \in Extension /\ o.extensions[i] \in ToSet(o.extensions)
      /\ \A e \in ToSet(o.extensions) :
           \E i \in 1..Len(o.extensions) : e = o.extensions[i]
  BY <1>1, Elements
<1>3. ss \in Seq(Seq(S)) /\ DOMAIN ss = 1..Len(o.extensions)
  BY <1>2
<1>4. \A i \in 1..Len(o.extensions) : ss[i] = o.extensions[i][part]
  BY <1>2
<1>5. Every(o, part) = FlattenSeq(ss)
  BY DEF Every
<1> HIDE DEF ss
<1>6. /\ FlattenSeq(ss) \in Seq(S)
      /\ \A x : x \in ToSet(FlattenSeq(ss)) <=> \E i \in DOMAIN ss : x \in ToSet(ss[i])
  BY <1>3, FlatElements
<1>7. ASSUME NEW x
      PROVE  (\E i \in DOMAIN ss : x \in ToSet(ss[i]))
               <=> \E e \in ToSet(o.extensions) : x \in ToSet(e[part])
  <2>1. ASSUME NEW i \in DOMAIN ss, x \in ToSet(ss[i])
        PROVE  \E e \in ToSet(o.extensions) : x \in ToSet(e[part])
    BY <2>1, <1>2, <1>3, <1>4
  <2>2. ASSUME NEW e \in ToSet(o.extensions), x \in ToSet(e[part])
        PROVE  \E i \in DOMAIN ss : x \in ToSet(ss[i])
    BY <2>2, <1>2, <1>3, <1>4
  <2>3. QED BY <2>1, <2>2
<1>8. QED BY <1>5, <1>6, <1>7

LEMMA Registries ==
  ASSUME NEW o \in ModuleOptions
  PROVE  /\ Every(o, "pages") \in Seq(Page)
         /\ \A x : x \in ToSet(Every(o, "pages"))
                     <=> \E e \in ToSet(o.extensions) : x \in ToSet(e.pages)
         /\ Every(o, "navItems") \in Seq(NavItem)
         /\ Every(o, "widgets") \in Seq(Widget)
         /\ Every(o, "panels") \in Seq(Panel)
         /\ \A x : x \in ToSet(Every(o, "panels"))
                     <=> \E e \in ToSet(o.extensions) : x \in ToSet(e.panels)
         /\ Every(o, "endpoints") \in Seq(Endpoint)
         /\ \A x : x \in ToSet(Every(o, "endpoints"))
                     <=> \E e \in ToSet(o.extensions) : x \in ToSet(e.endpoints)
<1>1. /\ \A e \in Extension : e["pages"] \in Seq(Page) /\ e["pages"] = e.pages
      /\ \A e \in Extension : e["navItems"] \in Seq(NavItem)
      /\ \A e \in Extension : e["widgets"] \in Seq(Widget)
      /\ \A e \in Extension : e["panels"] \in Seq(Panel) /\ e["panels"] = e.panels
      /\ \A e \in Extension : e["endpoints"] \in Seq(Endpoint) /\ e["endpoints"] = e.endpoints
  BY DEF Extension
<1>2. \A e \in ToSet(o.extensions) : e \in Extension
  BY Elements DEF ModuleOptions
<1>3. QED BY <1>1, <1>2, EveryElements

LEMMA QueueEndpointElements ==
  /\ \A x \in ToSet(QueueEndpoints) :
       /\ x.method \in {"GET", "POST"}
       /\ x.needs = IF x.method = "GET" THEN QueuesRead ELSE QueuesWrite
       /\ Len(x.path) >= 1 /\ x.path[1] = "queues"
  /\ {QueueReadEndpoint("list", <<"queues">>),
      QueueReadEndpoint("detail", <<"queues", Param>>),
      QueueReadEndpoint("jobs", <<"queues", Param, "jobs">>),
      QueueReadEndpoint("job-detail", <<"queues", Param, "jobs", Param>>),
      QueueReadEndpoint("related", <<"queues", Param, "related">>)} \subseteq ToSet(QueueEndpoints)
  /\ \A a \in ToSet(QueueActions) : QueueActionEndpoint(a) \in ToSet(QueueEndpoints)
  /\ \A a \in ToSet(JobActions) : JobActionEndpoint(a) \in ToSet(QueueEndpoints)
<1> DEFINE reads == << QueueReadEndpoint("list", <<"queues">>),
                       QueueReadEndpoint("detail", <<"queues", Param>>),
                       QueueReadEndpoint("jobs", <<"queues", Param, "jobs">>),
                       QueueReadEndpoint("job-detail", <<"queues", Param, "jobs", Param>>),
                       QueueReadEndpoint("related", <<"queues", Param, "related">>) >>
           actions == [i \in DOMAIN QueueActions |-> QueueActionEndpoint(QueueActions[i])]
           jobs == [i \in DOMAIN JobActions |-> JobActionEndpoint(JobActions[i])]
           R == ToSet(reads)
           A == ToSet(actions)
           J == ToSet(jobs)
           S == R \cup A \cup J
           named == {QueueReadEndpoint("list", <<"queues">>),
                     QueueReadEndpoint("detail", <<"queues", Param>>),
                     QueueReadEndpoint("jobs", <<"queues", Param, "jobs">>),
                     QueueReadEndpoint("job-detail", <<"queues", Param, "jobs", Param>>),
                     QueueReadEndpoint("related", <<"queues", Param, "related">>)}
<1>1. R = named /\ reads \in Seq(R)
  BY DEF ToSet
<1>2. A = {QueueActionEndpoint(a) : a \in ToSet(QueueActions)} /\ actions \in Seq(A)
  BY DEF ToSet, QueueActions
<1>3. J = {JobActionEndpoint(a) : a \in ToSet(JobActions)} /\ jobs \in Seq(J)
  BY DEF ToSet, JobActions
<1>4. QueueEndpoints = reads \o actions \o jobs
  BY DEF QueueEndpoints
<1>5. \A x \in R : x.method = "GET" /\ x.needs = QueuesRead
                   /\ Len(x.path) >= 1 /\ x.path[1] = "queues"
  <2>1. \A x \in named : x.method = "GET" /\ x.needs = QueuesRead
    BY DEF QueueReadEndpoint
  <2>2. \A x \in named : Len(x.path) >= 1
    BY DEF QueueReadEndpoint
  <2>3. \A x \in named : x.path[1] = "queues"
    BY DEF QueueReadEndpoint
  <2> HIDE DEF named
  <2>4. QED BY <1>1, <2>1, <2>2, <2>3
<1>6. \A x \in A : x.method = "POST" /\ x.needs = QueuesWrite
                   /\ Len(x.path) >= 1 /\ x.path[1] = "queues"
  BY <1>2 DEF QueueActionEndpoint
<1>7. \A x \in J : x.method = "POST" /\ x.needs = QueuesWrite
                   /\ Len(x.path) >= 1 /\ x.path[1] = "queues"
  BY <1>3 DEF JobActionEndpoint
<1>8. {QueueReadEndpoint("list", <<"queues">>),
       QueueReadEndpoint("detail", <<"queues", Param>>),
       QueueReadEndpoint("jobs", <<"queues", Param, "jobs">>),
       QueueReadEndpoint("job-detail", <<"queues", Param, "jobs", Param>>),
       QueueReadEndpoint("related", <<"queues", Param, "related">>)} \subseteq R
  BY <1>1
<1> HIDE DEF reads, actions, jobs, named, R, A, J
<1>9. ToSet(QueueEndpoints) = S
  <2>1. reads \in Seq(S) /\ actions \in Seq(S) /\ jobs \in Seq(S)
    BY <1>1, <1>2, <1>3
  <2>2. /\ reads \o actions \in Seq(S)
        /\ \A x : x \in ToSet(reads \o actions) <=> x \in R \/ x \in A
    <3> HIDE DEF S
    <3>1. QED BY <2>1, JoinElements DEF R, A
  <2>3. \A x : x \in ToSet(QueueEndpoints) <=> x \in ToSet(reads \o actions) \/ x \in J
    <3> HIDE DEF S
    <3>1. QED BY <1>4, <2>1, <2>2, JoinElements DEF J
  <2>4. QED BY <2>2, <2>3
<1>10. QED BY <1>2, <1>3, <1>5, <1>6, <1>7, <1>8, <1>9

(* Every page, panel and endpoint of the queue extension takes the         *)
(* permission to read queues, or to write them.                            *)
JobPage ==
  [slug |-> <<"queue-job-detail">>, route |-> <<"queues", Param, "jobs", Param>>,
   screen |-> "job", read |-> QueuesRead]

LEMMA QueueExtensionParts ==
  ASSUME NEW e \in Extension, IsQueueExtension(e)
  PROVE  /\ e.endpoints = QueueEndpoints
         /\ \A p \in ToSet(e.pages) :
              /\ p.read = QueuesRead
              /\ p.route # <<"audit-log">>
              /\ p.screen = "detail" => Len(p.route) = 2 /\ p.route[1] = "queues"
         /\ JobPage \in ToSet(e.pages)
         /\ \A p \in ToSet(e.panels) : p.read = QueuesRead
<1> DEFINE m == Len(e.pages) - 2
           queues == [i \in 1..m |-> e.pages[i + 1].slug[2]]
<1>1. e = BullmqQueueExtension(queues, e.panels) /\ Len(e.pages) >= 2
  BY DEF IsQueueExtension
<1>2. m \in Nat
  <2>1. Len(e.pages) \in Nat
    BY Elements DEF Extension
  <2>2. QED BY <1>1, <2>1
<1>3. DOMAIN queues = 1..m
  OBVIOUS
<1> HIDE DEF m, queues
<1>4. /\ e.endpoints = QueueEndpoints
      /\ e.pages = QueuePages(queues)
      /\ e.panels = QueuePanels(queues, e.panels)
  <2>1. e = [ id |-> <<"bullmq-queues">>, pages |-> QueuePages(queues),
              navItems |-> QueueNavItems(queues), widgets |-> <<>>,
              panels |-> QueuePanels(queues, e.panels), endpoints |-> QueueEndpoints ]
    BY <1>1 DEF BullmqQueueExtension
  <2>2. QED BY <2>1
<1>5. /\ JobPage \in ToSet(QueuePages(queues))
      /\ \A p \in ToSet(QueuePages(queues)) :
              /\ p.read = QueuesRead
              /\ p.route # <<"audit-log">>
              /\ p.screen = "detail" => Len(p.route) = 2 /\ p.route[1] = "queues"
  <2> DEFINE first == << [slug |-> <<"queues-overview">>, route |-> <<"queues">>,
                          screen |-> "overview", read |-> QueuesRead] >>
             details == [i \in 1..m |->
                           [slug |-> <<"queue", queues[i]>>, route |-> <<"queues", queues[i]>>,
                            screen |-> "detail", read |-> QueuesRead]]
             last == << JobPage >>
             S == ToSet(first) \cup ToSet(details) \cup ToSet(last)
  <2>1. QueuePages(queues) = first \o details \o last
    BY <1>3 DEF QueuePages, JobPage
  <2>2. \A p \in ToSet(first) : p.read = QueuesRead /\ p.screen = "overview"
                                /\ p.route = <<"queues">>
    BY DEF ToSet
  <2>3. \A p \in ToSet(details) : p.read = QueuesRead /\ p.screen = "detail"
                                  /\ Len(p.route) = 2 /\ p.route[1] = "queues"
    BY DEF ToSet
  <2>4. ToSet(last) = {JobPage}
    BY DEF ToSet
  <2>5. first \in Seq(S) /\ details \in Seq(S) /\ last \in Seq(S)
    <3>1. first \in Seq(ToSet(first))
      BY DEF ToSet
    <3>2. details \in Seq(ToSet(details))
      BY <1>2 DEF ToSet
    <3>3. last \in Seq(ToSet(last))
      BY DEF ToSet
    <3> HIDE DEF first, details, last
    <3>4. QED BY <3>1, <3>2, <3>3
  <2> HIDE DEF first, details, last, S
  <2>6. /\ first \o details \in Seq(S)
        /\ \A p : p \in ToSet(first \o details) <=> p \in ToSet(first) \/ p \in ToSet(details)
    BY <2>5, JoinElements
  <2>7. \A p : p \in ToSet(QueuePages(queues)) <=>
                 p \in ToSet(first) \/ p \in ToSet(details) \/ p \in ToSet(last)
    BY <2>1, <2>5, <2>6, JoinElements
  <2>8. JobPage.read = QueuesRead /\ JobPage.screen = "job"
        /\ JobPage.route # <<"audit-log">> /\ <<"queues">> # <<"audit-log">>
    BY DEF JobPage
  <2>9. \A p \in ToSet(details) : p.route # <<"audit-log">>
    BY <2>3
  <2>10. QED BY <2>2, <2>3, <2>4, <2>7, <2>8, <2>9
<1>6. \A p \in ToSet(e.panels) : p.read = QueuesRead
  <2> DEFINE Of(p)  == [key |-> <<"queues", "related", p.resource>>, resource |-> p.resource,
                        queues |-> Kept(p.queues, ToSet(queues)), read |-> QueuesRead]
             panels == [i \in DOMAIN e.panels |-> Of(e.panels[i])]
  <2>1. e.panels = Kept(panels, {p \in ToSet(panels) : p.queues # <<>>})
    BY <1>4 DEF QueuePanels
  <2>2. Len(e.panels) \in Nat /\ DOMAIN e.panels = 1..Len(e.panels)
    BY Elements DEF Extension
  <2>3. panels \in Seq(ToSet(panels)) /\ \A p \in ToSet(panels) : p.read = QueuesRead
    <3>1. \A i \in 1..Len(e.panels) : panels[i] = Of(e.panels[i]) /\ panels[i].read = QueuesRead
      BY <2>2
    <3>2. panels = [i \in 1..Len(e.panels) |-> panels[i]]
      BY <2>2
    <3> HIDE DEF panels
    <3>3. DOMAIN panels = 1..Len(e.panels)
      BY <3>2
    <3>4. /\ \A i \in 1..Len(e.panels) : panels[i] \in ToSet(panels)
          /\ \A p \in ToSet(panels) : \E i \in 1..Len(e.panels) : p = panels[i]
      BY <3>3 DEF ToSet
    <3>5. panels \in Seq(ToSet(panels))
      BY <2>2, <3>2, <3>4
    <3>6. \A p \in ToSet(panels) : p.read = QueuesRead
      BY <3>1, <3>4
    <3>7. QED BY <3>5, <3>6
  <2> HIDE DEF panels
  <2>4. QED BY <2>1, <2>3, KeptElements
<1>7. QED BY <1>4, <1>5, <1>6

-----------------------------------------------------------------------------
(* What a user is told and may call.                                       *)

LEMMA MetaParts ==
  ASSUME NEW o \in ModuleOptions, NEW u
  PROVE  /\ Meta(o, u).resources \in Seq(STRING)
         /\ ToSet(Meta(o, u).resources) = {r \in ToSet(o.resources) : CanRead(u, r)}
         /\ Meta(o, u).pages \in Seq(Page)
         /\ ToSet(Meta(o, u).pages)
              = {p \in ToSet(Every(o, "pages")) : HasPermission(u, p.read)}
         /\ ToSet(Meta(o, u).navItems) \subseteq ToSet(Every(o, "navItems"))
         /\ ToSet(Meta(o, u).widgets) \subseteq ToSet(Every(o, "widgets"))
         /\ Meta(o, u).audit = CanReadAudit(o, u)
<1>1. /\ Meta(o, u).resources
           = Kept(Resources(o), {r \in ToSet(Resources(o)) : CanRead(u, r)})
      /\ Meta(o, u).pages = Visible(u, Every(o, "pages"))
      /\ Meta(o, u).navItems = Visible(u, Every(o, "navItems"))
      /\ Meta(o, u).widgets = Visible(u, Every(o, "widgets"))
      /\ Meta(o, u).audit = CanReadAudit(o, u)
  BY DEF Meta
<1>2. Resources(o) \in Seq(STRING) /\ ToSet(Resources(o)) = ToSet(o.resources)
  BY OnceElements DEF ModuleOptions, Resources
<1>3. /\ Meta(o, u).resources \in Seq(STRING)
      /\ ToSet(Meta(o, u).resources) = {r \in ToSet(o.resources) : CanRead(u, r)}
  BY <1>1, <1>2, KeptElements
<1>4. ASSUME NEW S, NEW list \in Seq(S)
      PROVE  /\ Visible(u, list) \in Seq(S)
             /\ ToSet(Visible(u, list)) = {x \in ToSet(list) : HasPermission(u, x.read)}
  BY KeptElements DEF Visible
<1>5. QED BY <1>1, <1>3, <1>4, Registries

LEMMA EndpointAllowed ==
  ASSUME NEW o \in ModuleOptions, Packaged(o), NEW u,
         NEW e \in ToSet(o.extensions), IsQueueExtension(e),
         NEW x \in ToSet(QueueEndpoints), HasPermission(u, x.needs),
         NEW path, RouteMatches(x.path, path)
  PROVE  MayCallEndpoint(o, u, x.method, path)
<1> DEFINE every == Every(o, "endpoints")
           fit == {y \in ToSet(every) : y.method = x.method /\ RouteMatches(y.path, path)}
           found == Kept(every, fit)
<1>1. every \in Seq(Endpoint)
  BY Registries
<1>2. found \in Seq(Endpoint) /\ ToSet(found) = fit
  BY <1>1, KeptElements
<1>3. MayCallEndpoint(o, u, x.method, path) <=>
        found # <<>> /\ HasPermission(u, Head(found).needs)
  BY DEF MayCallEndpoint, ResolveEndpoint
<1>4. x \in fit
  <2>1. e \in Extension
    BY Elements DEF ModuleOptions
  <2>2. e.endpoints = QueueEndpoints
    BY <2>1, QueueExtensionParts
  <2>3. x \in ToSet(every)
    BY <2>2, Registries
  <2>4. QED BY <2>3
<1> HIDE DEF found
<1>5. found # <<>> /\ Head(found) \in fit
  BY <1>2, <1>4, Elements
<1> DEFINE y == Head(found)
<1>6. y \in ToSet(every) /\ y.method = x.method /\ RouteMatches(y.path, path)
  BY <1>5
<1>7. PICK f \in ToSet(o.extensions) : y \in ToSet(f.endpoints)
  BY <1>6, Registries
<1> HIDE DEF y, every, fit
<1>8. f \in Extension
  BY Elements DEF ModuleOptions
<1>9. ~StaysOffQueues(f)
  <2>1. SUFFICES ASSUME StaysOffQueues(f) PROVE FALSE
    OBVIOUS
  <2>2. Len(x.path) >= 1 /\ x.path[1] = "queues"
    BY QueueEndpointElements
  <2>3. y.path \in Seq(STRING) /\ Len(y.path) = Len(path) /\ Len(x.path) = Len(path)
    <3>1. f.endpoints \in Seq(Endpoint)
      BY <1>8 DEF Extension
    <3>2. y \in Endpoint
      BY <1>7, <3>1, Elements
    <3>3. y.path \in Seq(STRING)
      BY <3>2 DEF Endpoint, Routes
    <3>4. QED BY <1>6, <3>3 DEF RouteMatches
  <2>4. Len(y.path) >= 1 /\ 1 \in DOMAIN y.path /\ y.path # None
    <3>1. Len(y.path) \in Nat /\ DOMAIN y.path = 1..Len(y.path)
      BY <2>3, LenProperties
    <3>2. QED BY <2>2, <2>3, <3>1, EmptySeq DEF None
  <2>5. y.path[1] \in {Param, path[1]}
    BY <1>6, <2>4 DEF RouteMatches
  <2>6. path[1] = "queues"
    <3>1. x.path \in Seq(STRING)
      <4>1. e \in Extension
        BY Elements DEF ModuleOptions
      <4>2. QueueEndpoints \in Seq(Endpoint)
        BY <4>1, QueueExtensionParts DEF Extension
      <4>3. x \in Endpoint
        BY <4>2, Elements
      <4>4. QED BY <4>3 DEF Endpoint, Routes
    <3>2. 1 \in DOMAIN x.path
      BY <2>2, <3>1, LenProperties
    <3>3. x.path[1] \in {Param, path[1]}
      BY <3>2 DEF RouteMatches
    <3>4. QED BY <2>2, <3>3 DEF Param
  <2>7. y.path[1] \notin {"queues", Param}
    BY <1>7, <2>1, <2>4 DEF StaysOffQueues
  <2>8. QED BY <2>5, <2>6, <2>7
<1>10. IsQueueExtension(f)
  BY <1>9 DEF Packaged
<1>11. y \in ToSet(QueueEndpoints)
  BY <1>7, <1>8, <1>10, QueueExtensionParts
<1>12. y.needs = x.needs
  BY <1>6, <1>11, QueueEndpointElements
<1>13. QED BY <1>3, <1>5, <1>12 DEF y

(* What the pages of the queues, their buttons and the panels of the       *)
(* records ask of the server.                                              *)
LEMMA QueueCalls ==
  ASSUME NEW o \in ModuleOptions, Packaged(o), NEW u,
         NEW e \in ToSet(o.extensions), IsQueueExtension(e), NEW q, NEW j
  PROVE  /\ HasPermission(u, QueuesRead) =>
              /\ Allows(o, u, Get(<<"_extensions", "queues">>))
              /\ Allows(o, u, Get(<<"_extensions", "queues", q>>))
              /\ Allows(o, u, Get(<<"_extensions", "queues", q, "jobs">>))
              /\ Allows(o, u, Get(<<"_extensions", "queues", q, "jobs", j>>))
              /\ Allows(o, u, Get(<<"_extensions", "queues", q, "related">>))
         /\ HasPermission(u, QueuesWrite) =>
              /\ \A a \in ToSet(QueueActions) :
                   Allows(o, u, Post(<<"_extensions", "queues", q, "actions", a>>))
              /\ \A a \in ToSet(JobActions) :
                   Allows(o, u, Post(<<"_extensions", "queues", q, "jobs", j, "actions", a>>))
<1>1. \A path : path # <<"_meta">> /\ path # <<"_audit">> /\ path[1] = "_extensions" =>
        /\ MayCallEndpoint(o, u, "GET", Tail(path)) => Allows(o, u, Get(path))
        /\ MayCallEndpoint(o, u, "POST", Tail(path)) => Allows(o, u, Post(path))
  BY DEF Allows, Get, Post
<1>2. ASSUME HasPermission(u, QueuesRead), NEW name, NEW route, NEW path,
             QueueReadEndpoint(name, route) \in ToSet(QueueEndpoints),
             RouteMatches(route, path)
      PROVE  MayCallEndpoint(o, u, "GET", path)
  <2>1. /\ QueueReadEndpoint(name, route).method = "GET"
        /\ QueueReadEndpoint(name, route).needs = QueuesRead
        /\ QueueReadEndpoint(name, route).path = route
    BY DEF QueueReadEndpoint
  <2>2. QED BY <1>2, <2>1, EndpointAllowed
<1>3. ASSUME HasPermission(u, QueuesRead)
      PROVE  /\ Allows(o, u, Get(<<"_extensions", "queues">>))
             /\ Allows(o, u, Get(<<"_extensions", "queues", q>>))
             /\ Allows(o, u, Get(<<"_extensions", "queues", q, "jobs">>))
             /\ Allows(o, u, Get(<<"_extensions", "queues", q, "jobs", j>>))
             /\ Allows(o, u, Get(<<"_extensions", "queues", q, "related">>))
  <2>1. MayCallEndpoint(o, u, "GET", <<"queues">>)
    <3>1. RouteMatches(<<"queues">>, <<"queues">>)
      BY DEF RouteMatches
    <3>2. QED BY <1>2, <1>3, <3>1, QueueEndpointElements
  <2>2. MayCallEndpoint(o, u, "GET", <<"queues", q>>)
    <3>1. RouteMatches(<<"queues", Param>>, <<"queues", q>>)
      BY DEF RouteMatches
    <3>2. QED BY <1>2, <1>3, <3>1, QueueEndpointElements
  <2>3. MayCallEndpoint(o, u, "GET", <<"queues", q, "jobs">>)
    <3>1. RouteMatches(<<"queues", Param, "jobs">>, <<"queues", q, "jobs">>)
      BY DEF RouteMatches
    <3>2. QED BY <1>2, <1>3, <3>1, QueueEndpointElements
  <2>4. MayCallEndpoint(o, u, "GET", <<"queues", q, "jobs", j>>)
    <3>1. RouteMatches(<<"queues", Param, "jobs", Param>>, <<"queues", q, "jobs", j>>)
      BY DEF RouteMatches
    <3>2. QED BY <1>2, <1>3, <3>1, QueueEndpointElements
  <2>5. MayCallEndpoint(o, u, "GET", <<"queues", q, "related">>)
    <3>1. RouteMatches(<<"queues", Param, "related">>, <<"queues", q, "related">>)
      BY DEF RouteMatches
    <3>2. QED BY <1>2, <1>3, <3>1, QueueEndpointElements
  <2>6. Allows(o, u, Get(<<"_extensions", "queues">>))
    <3>1. Tail(<<"_extensions", "queues">>) = <<"queues">>
      OBVIOUS
    <3>2. QED BY <1>1, <2>1, <3>1
  <2>7. Allows(o, u, Get(<<"_extensions", "queues", q>>))
    <3>1. Tail(<<"_extensions", "queues", q>>) = <<"queues", q>>
      OBVIOUS
    <3>2. QED BY <1>1, <2>2, <3>1
  <2>8. Allows(o, u, Get(<<"_extensions", "queues", q, "jobs">>))
    <3>1. Tail(<<"_extensions", "queues", q, "jobs">>) = <<"queues", q, "jobs">>
      OBVIOUS
    <3>2. QED BY <1>1, <2>3, <3>1
  <2>9. Allows(o, u, Get(<<"_extensions", "queues", q, "jobs", j>>))
    <3>1. Tail(<<"_extensions", "queues", q, "jobs", j>>) = <<"queues", q, "jobs", j>>
      OBVIOUS
    <3>2. QED BY <1>1, <2>4, <3>1
  <2>10. Allows(o, u, Get(<<"_extensions", "queues", q, "related">>))
    <3>1. Tail(<<"_extensions", "queues", q, "related">>) = <<"queues", q, "related">>
      OBVIOUS
    <3>2. QED BY <1>1, <2>5, <3>1
  <2>11. QED BY <2>6, <2>7, <2>8, <2>9, <2>10
<1>4. ASSUME HasPermission(u, QueuesWrite), NEW a \in ToSet(QueueActions)
      PROVE  Allows(o, u, Post(<<"_extensions", "queues", q, "actions", a>>))
  <2>1. /\ QueueActionEndpoint(a).method = "POST"
        /\ QueueActionEndpoint(a).needs = QueuesWrite
        /\ QueueActionEndpoint(a).path = <<"queues", Param, "actions", a>>
    BY DEF QueueActionEndpoint
  <2>2. RouteMatches(<<"queues", Param, "actions", a>>, <<"queues", q, "actions", a>>)
    BY DEF RouteMatches
  <2>3. MayCallEndpoint(o, u, "POST", <<"queues", q, "actions", a>>)
    BY <1>4, <2>1, <2>2, EndpointAllowed, QueueEndpointElements
  <2>4. Tail(<<"_extensions", "queues", q, "actions", a>>) = <<"queues", q, "actions", a>>
    OBVIOUS
  <2>5. QED BY <1>1, <2>3, <2>4
<1>5. ASSUME HasPermission(u, QueuesWrite), NEW a \in ToSet(JobActions)
      PROVE  Allows(o, u, Post(<<"_extensions", "queues", q, "jobs", j, "actions", a>>))
  <2>1. /\ JobActionEndpoint(a).method = "POST"
        /\ JobActionEndpoint(a).needs = QueuesWrite
        /\ JobActionEndpoint(a).path = <<"queues", Param, "jobs", Param, "actions", a>>
    BY DEF JobActionEndpoint
  <2>2. RouteMatches(<<"queues", Param, "jobs", Param, "actions", a>>,
                     <<"queues", q, "jobs", j, "actions", a>>)
    BY DEF RouteMatches
  <2>3. MayCallEndpoint(o, u, "POST", <<"queues", q, "jobs", j, "actions", a>>)
    BY <1>5, <2>1, <2>2, EndpointAllowed, QueueEndpointElements
  <2>4. Tail(<<"_extensions", "queues", q, "jobs", j, "actions", a>>) = <<"queues", q, "jobs", j, "actions", a>>
    OBVIOUS
  <2>5. QED BY <1>1, <2>3, <2>4
<1>6. QED BY <1>3, <1>4, <1>5

(* What the pages of a resource and their buttons ask.                     *)
LEMMA ResourceCalls ==
  ASSUME NEW o \in ModuleOptions, Packaged(o), NEW u, NEW r \in ToSet(o.resources)
  PROVE  /\ CanRead(u, r) =>
              /\ Allows(o, u, Get(<<r>>))
              /\ Allows(o, u, Get(<<"_meta", r>>))
              /\ Allows(o, u, Get(<<r, Id>>))
              /\ Allows(o, u, Lookup(r))
         /\ CanWrite(u, r) =>
              /\ Allows(o, u, Get(<<r, "_delete-summary">>))
              /\ Allows(o, u, Post(<<r>>))
              /\ Allows(o, u, Post(<<r, "_bulk-delete">>))
              /\ Allows(o, u, Post(<<r, Id, "password">>))
              /\ Allows(o, u, [method |-> "PATCH", path |-> <<r, Id>>])
              /\ Allows(o, u, [method |-> "DELETE", path |-> <<r, Id>>])
<1>1. Contains(Resources(o), r)
  <2>1. Resources(o) \in Seq(STRING) /\ r \in ToSet(Resources(o))
    BY OnceElements DEF ModuleOptions, Resources
  <2>2. QED BY <2>1, Elements DEF Contains
<1>2. r \notin Reserved
  BY DEF Packaged
<1>3. ASSUME NEW method, NEW path, path # <<"_meta">>, path # <<"_audit">>,
             path[1] # "_extensions",
             r = IF Len(path) = 2 /\ path[1] \in {"_meta", "_lookup"} THEN path[2] ELSE path[1],
             IF method # "GET" \/ path[Len(path)] = "_delete-summary"
             THEN CanWrite(u, r) ELSE CanRead(u, r)
      PROVE  Allows(o, u, [method |-> method, path |-> path])
  BY <1>1, <1>3 DEF Allows
<1>4. ASSUME CanRead(u, r)
      PROVE  /\ Allows(o, u, Get(<<r>>))
             /\ Allows(o, u, Get(<<"_meta", r>>))
             /\ Allows(o, u, Get(<<r, Id>>))
             /\ Allows(o, u, Lookup(r))
  <2>1. Allows(o, u, Get(<<r>>))
    BY <1>2, <1>3, <1>4 DEF Get, Reserved
  <2>2. Allows(o, u, Get(<<"_meta", r>>))
    BY <1>2, <1>3, <1>4 DEF Get, Reserved
  <2>3. Allows(o, u, Get(<<r, Id>>))
    BY <1>2, <1>3, <1>4 DEF Get, Id, Reserved
  <2>4. Allows(o, u, Lookup(r))
    BY <1>2, <1>3, <1>4 DEF Get, Lookup, Reserved
  <2>5. QED BY <2>1, <2>2, <2>3, <2>4
<1>5. ASSUME CanWrite(u, r)
      PROVE  /\ Allows(o, u, Get(<<r, "_delete-summary">>))
             /\ Allows(o, u, Post(<<r>>))
             /\ Allows(o, u, Post(<<r, "_bulk-delete">>))
             /\ Allows(o, u, Post(<<r, Id, "password">>))
             /\ Allows(o, u, [method |-> "PATCH", path |-> <<r, Id>>])
             /\ Allows(o, u, [method |-> "DELETE", path |-> <<r, Id>>])
  <2>1. Allows(o, u, Get(<<r, "_delete-summary">>))
    BY <1>2, <1>3, <1>5 DEF Get, Reserved
  <2>2. Allows(o, u, Post(<<r>>))
    BY <1>2, <1>3, <1>5 DEF Post, Reserved
  <2>3. Allows(o, u, Post(<<r, "_bulk-delete">>))
    BY <1>2, <1>3, <1>5 DEF Post, Reserved
  <2>4. Allows(o, u, Post(<<r, Id, "password">>))
    BY <1>2, <1>3, <1>5 DEF Post, Reserved
  <2>5. /\ Allows(o, u, [method |-> "PATCH", path |-> <<r, Id>>])
        /\ Allows(o, u, [method |-> "DELETE", path |-> <<r, Id>>])
    BY <1>2, <1>3, <1>5 DEF Reserved
  <2>6. QED BY <2>1, <2>2, <2>3, <2>4, <2>5
<1>6. QED BY <1>4, <1>5

-----------------------------------------------------------------------------
(* What the pages ask.                                                     *)

(* Every request of a page that is open there passes, or looks up a        *)
(* resource that is not listed.                                            *)
Granted(o, u, route) ==
  \A request \in PageRequests(Meta(o, u), o, u, route) :
    Allows(o, u, request) \/ request \in UnlistedLookups(Meta(o, u), o, route)

LEMMA HomeAsks ==
  ASSUME NEW o \in ModuleOptions, Packaged(o), NEW u
  PROVE  /\ Granted(o, u, Home)
         /\ Meta(o, u).audit => Granted(o, u, Audit)
<1>1. ASSUME NEW r \in ToSet(Meta(o, u).resources)
      PROVE  Allows(o, u, Get(<<r>>))
  BY MetaParts, ResourceCalls
<1>2. Meta(o, u).audit => Allows(o, u, Get(<<"_audit">>))
  <2>1. <<"_audit">> # <<"_meta">>
    OBVIOUS
  <2>2. QED BY <2>1, MetaParts DEF Allows, Get
<1>3. PageRequests(Meta(o, u), o, u, Home) = DashboardRequests(Meta(o, u))
  BY DEF PageRequests, Home
<1>4. PageRequests(Meta(o, u), o, u, Audit) = {Get(<<"_audit">>)}
  BY DEF PageRequests, Audit
<1>5. \A request \in DashboardRequests(Meta(o, u)) : Allows(o, u, request)
  BY <1>1, <1>2 DEF DashboardRequests
<1>6. QED BY <1>2, <1>3, <1>4, <1>5 DEF Granted

(* The addresses that the pages of the queues build.                       *)
LEMMA QueuePaths ==
  ASSUME NEW q, NEW j, NEW a
  PROVE  LET queue == <<"_extensions", "queues", q>>
         IN /\ Append(queue, "jobs") = <<"_extensions", "queues", q, "jobs">>
            /\ queue \o <<"jobs", j>> = <<"_extensions", "queues", q, "jobs", j>>
            /\ queue \o <<"actions", a>> = <<"_extensions", "queues", q, "actions", a>>
            /\ queue \o <<"jobs", j, "actions", a>>
                 = <<"_extensions", "queues", q, "jobs", j, "actions", a>>
<1> DEFINE queue == <<"_extensions", "queues", q>>
           S == {"_extensions", "queues", q, "jobs", j, "actions", a}
<1>1. queue \in Seq(S) /\ Len(queue) = 3 /\ "jobs" \in S
  OBVIOUS
<1>2. queue \o <<"jobs">> = <<"_extensions", "queues", q, "jobs">>
  <2> DEFINE t == <<"jobs">>
             w == <<"_extensions", "queues", q, "jobs">>
  <2>1. t \in Seq(S) /\ Len(t) = 1 /\ w \in Seq(S) /\ Len(w) = 4
    OBVIOUS
  <2>2. /\ \A i \in 1..3 : w[i] = queue[i]
        /\ \A i \in 1..1 : w[3 + i] = t[i]
    OBVIOUS
  <2> HIDE DEF queue, t, w, S
  <2>3. /\ Len(w) = Len(queue) + Len(t)
        /\ \A i \in 1..Len(queue) : w[i] = queue[i]
        /\ \A i \in 1..Len(t) : w[Len(queue) + i] = t[i]
    BY <1>1, <2>1, <2>2
  <2>4. queue \o t = w
    BY <1>1, <2>1, <2>3, Following
  <2>5. QED BY <2>4 DEF t, w
<1>3. queue \o <<"jobs", j>> = <<"_extensions", "queues", q, "jobs", j>>
  <2> DEFINE t == <<"jobs", j>>
             w == <<"_extensions", "queues", q, "jobs", j>>
  <2>1. t \in Seq(S) /\ Len(t) = 2 /\ w \in Seq(S) /\ Len(w) = 5
    OBVIOUS
  <2>2. /\ \A i \in 1..3 : w[i] = queue[i]
        /\ \A i \in 1..2 : w[3 + i] = t[i]
    OBVIOUS
  <2> HIDE DEF queue, t, w, S
  <2>3. /\ Len(w) = Len(queue) + Len(t)
        /\ \A i \in 1..Len(queue) : w[i] = queue[i]
        /\ \A i \in 1..Len(t) : w[Len(queue) + i] = t[i]
    BY <1>1, <2>1, <2>2
  <2>4. queue \o t = w
    BY <1>1, <2>1, <2>3, Following
  <2>5. QED BY <2>4 DEF t, w
<1>4. queue \o <<"actions", a>> = <<"_extensions", "queues", q, "actions", a>>
  <2> DEFINE t == <<"actions", a>>
             w == <<"_extensions", "queues", q, "actions", a>>
  <2>1. t \in Seq(S) /\ Len(t) = 2 /\ w \in Seq(S) /\ Len(w) = 5
    OBVIOUS
  <2>2. /\ \A i \in 1..3 : w[i] = queue[i]
        /\ \A i \in 1..2 : w[3 + i] = t[i]
    OBVIOUS
  <2> HIDE DEF queue, t, w, S
  <2>3. /\ Len(w) = Len(queue) + Len(t)
        /\ \A i \in 1..Len(queue) : w[i] = queue[i]
        /\ \A i \in 1..Len(t) : w[Len(queue) + i] = t[i]
    BY <1>1, <2>1, <2>2
  <2>4. queue \o t = w
    BY <1>1, <2>1, <2>3, Following
  <2>5. QED BY <2>4 DEF t, w
<1>5. queue \o <<"jobs", j, "actions", a>> = <<"_extensions", "queues", q, "jobs", j, "actions", a>>
  <2> DEFINE t == <<"jobs", j, "actions", a>>
             w == <<"_extensions", "queues", q, "jobs", j, "actions", a>>
  <2>1. t \in Seq(S) /\ Len(t) = 4 /\ w \in Seq(S) /\ Len(w) = 7
    OBVIOUS
  <2>2. /\ \A i \in 1..3 : w[i] = queue[i]
        /\ \A i \in 1..4 : w[3 + i] = t[i]
    OBVIOUS
  <2> HIDE DEF queue, t, w, S
  <2>3. /\ Len(w) = Len(queue) + Len(t)
        /\ \A i \in 1..Len(queue) : w[i] = queue[i]
        /\ \A i \in 1..Len(t) : w[Len(queue) + i] = t[i]
    BY <1>1, <2>1, <2>2
  <2>4. queue \o t = w
    BY <1>1, <2>1, <2>3, Following
  <2>5. QED BY <2>4 DEF t, w
<1>6. Append(queue, "jobs") = queue \o <<"jobs">>
  <2> HIDE DEF queue, S
  <2>1. QED BY <1>1, AppendIsConcat
<1>7. Append(queue, "jobs") = <<"_extensions", "queues", q, "jobs">>
  BY <1>2, <1>6
<1>8. QED BY <1>3, <1>4, <1>5, <1>7

(* A page that is seen, at whatever address: only those of the queue       *)
(* extension ask for anything.                                             *)
LEMMA SeenPage ==
  ASSUME NEW o \in ModuleOptions, Packaged(o), NEW u, NEW p \in ToSet(Meta(o, u).pages)
  PROVE  /\ p \in Page /\ HasPermission(u, p.read) /\ p.route # <<"audit-log">>
         /\ \/ p.screen = "embed"
            \/ \E e \in ToSet(o.extensions) :
                 IsQueueExtension(e) /\ p \in ToSet(e.pages) /\ p.read = QueuesRead
<1>1. p \in ToSet(Every(o, "pages")) /\ HasPermission(u, p.read) /\ p \in Page
  BY MetaParts, Elements
<1>2. PICK e \in ToSet(o.extensions) : p \in ToSet(e.pages)
  BY <1>1, Registries
<1>3. e \in Extension
  BY Elements DEF ModuleOptions
<1>4. CASE IsQueueExtension(e)
  BY <1>1, <1>2, <1>3, <1>4, QueueExtensionParts
<1>5. CASE StaysOffQueues(e)
  BY <1>1, <1>2, <1>5 DEF StaysOffQueues
<1>6. QED BY <1>4, <1>5 DEF Packaged

LEMMA PageAsks ==
  ASSUME NEW o \in ModuleOptions, Packaged(o), NEW u, NEW p \in ToSet(Meta(o, u).pages),
         NEW path
  PROVE  Granted(o, u, PageRoute(p, path))
<1> DEFINE q == Segment(path, 2)
           j == Segment(path, 4)
           requests == QueueRequests(p, path) \cup QueueButtons(p, path, u)
<1>1. PageRequests(Meta(o, u), o, u, PageRoute(p, path)) = requests
  BY DEF PageRequests, PageRoute
<1>2. CASE p.screen = "embed"
  <2>1. requests = {}
    BY <1>2 DEF QueueRequests, QueueButtons
  <2>2. QED BY <1>1, <2>1 DEF Granted
<1>3. ASSUME NEW e \in ToSet(o.extensions), IsQueueExtension(e), HasPermission(u, QueuesRead)
      PROVE  Granted(o, u, PageRoute(p, path))
  <2> HIDE DEF q, j
  <2>1. ASSUME NEW request \in QueueRequests(p, path)
        PROVE  Allows(o, u, request)
    <3>1. \/ request = Get(<<"_extensions", "queues">>)
          \/ request = Get(<<"_extensions", "queues", q>>)
          \/ request = Get(Append(<<"_extensions", "queues", q>>, "jobs"))
          \/ request = Get(<<"_extensions", "queues", q>> \o <<"jobs", j>>)
      BY DEF QueueRequests, q, j
    <3>2. \/ request = Get(<<"_extensions", "queues">>)
          \/ request = Get(<<"_extensions", "queues", q>>)
          \/ request = Get(<<"_extensions", "queues", q, "jobs">>)
          \/ request = Get(<<"_extensions", "queues", q, "jobs", j>>)
      BY <3>1, QueuePaths
    <3>3. /\ Allows(o, u, Get(<<"_extensions", "queues">>))
          /\ Allows(o, u, Get(<<"_extensions", "queues", q>>))
          /\ Allows(o, u, Get(<<"_extensions", "queues", q, "jobs">>))
          /\ Allows(o, u, Get(<<"_extensions", "queues", q, "jobs", j>>))
      BY <1>3, QueueCalls
    <3>4. QED BY <3>2, <3>3
  <2>2. ASSUME NEW request \in QueueButtons(p, path, u)
        PROVE  Allows(o, u, request)
    <3>1. /\ HasPermission(u, QueuesWrite)
          /\ \/ \E a \in ToSet(QueueActions) :
                  request = Post(<<"_extensions", "queues", q>> \o <<"actions", a>>)
             \/ \E a \in ToSet(JobActions) :
                  request = Post(<<"_extensions", "queues", q>> \o <<"jobs", Job, "actions", a>>)
      BY DEF QueueButtons, q
    <3>2. ASSUME NEW a \in ToSet(QueueActions)
          PROVE  Allows(o, u, Post(<<"_extensions", "queues", q>> \o <<"actions", a>>))
      <4>1. Allows(o, u, Post(<<"_extensions", "queues", q, "actions", a>>))
        BY <1>3, <3>1, QueueCalls
      <4>2. QED BY <4>1, QueuePaths
    <3>3. ASSUME NEW a \in ToSet(JobActions)
          PROVE  Allows(o, u, Post(<<"_extensions", "queues", q>> \o <<"jobs", Job, "actions", a>>))
      <4>1. Allows(o, u, Post(<<"_extensions", "queues", q, "jobs", Job, "actions", a>>))
        BY <1>3, <3>1, QueueCalls
      <4>2. QED BY <4>1, QueuePaths
    <3>4. QED BY <3>1, <3>2, <3>3
  <2>3. QED BY <1>1, <2>1, <2>2 DEF Granted
<1>4. QED BY <1>2, <1>3, SeenPage

(* A link to the queue of a panel is one of the queue extension.           *)
LEMMA PanelsAsk ==
  ASSUME NEW o \in ModuleOptions, Packaged(o), NEW u, NEW r,
         NEW request \in PanelRequests(Panels(o, u, r))
  PROVE  Allows(o, u, request)
<1> DEFINE seen == Visible(u, Every(o, "panels"))
<1>1. /\ seen \in Seq(Panel)
      /\ \A p \in ToSet(seen) : p \in ToSet(Every(o, "panels")) /\ HasPermission(u, p.read)
  BY Registries, KeptElements DEF Visible
<1>2. Panels(o, u, r) = Kept(seen, {p \in ToSet(seen) : p.resource = r})
  BY DEF Panels
<1> HIDE DEF seen
<1>3. \A p \in ToSet(Panels(o, u, r)) : p \in ToSet(seen)
  BY <1>1, <1>2, KeptElements
<1>4. PICK p \in ToSet(Panels(o, u, r)) : \E q \in ToSet(p.queues) :
        request = Get(<<"_extensions", "queues", q, "related">>)
  BY DEF PanelRequests
<1>5. PICK e \in ToSet(o.extensions) : p \in ToSet(e.panels)
  BY <1>1, <1>3, <1>4, Registries
<1>6. e \in Extension
  BY Elements DEF ModuleOptions
<1>7. ~StaysOffQueues(e)
  <2>1. ToSet(<<>>) = {}
    BY DEF ToSet
  <2>2. QED BY <1>4, <1>5, <2>1 DEF StaysOffQueues
<1>8. IsQueueExtension(e)
  BY <1>7 DEF Packaged
<1>9. HasPermission(u, QueuesRead)
  BY <1>1, <1>3, <1>4, <1>5, <1>6, <1>8, QueueExtensionParts
<1>10. QED BY <1>4, <1>8, <1>9, QueueCalls

LEMMA ResourceAsks ==
  ASSUME NEW o \in ModuleOptions, Packaged(o), NEW u,
         NEW r \in ToSet(Meta(o, u).resources), NEW mode \in Modes, NEW id \in {"", Id},
         mode = "delete" => CanWrite(u, r), mode = "password" => id = Id
  PROVE  Granted(o, u, ResourceRoute(r, mode, id))
<1> DEFINE route == ResourceRoute(r, mode, id)
           panels == Panels(o, u, r)
           related == Related(o, r)
           unlisted == UnlistedLookups(Meta(o, u), o, route)
<1>1. /\ route.kind = "resource" /\ route.resource = r /\ route.mode = mode /\ route.id = id
  BY DEF ResourceRoute
<1>2. r \in ToSet(o.resources) /\ CanRead(u, r)
  BY MetaParts
<1>3. PageRequests(Meta(o, u), o, u, route)
        = RecordRequests(route, panels, related) \cup RecordButtons(route, u)
  BY <1>1 DEF PageRequests
<1>7. unlisted = {Lookup(to) : to \in related \ ToSet(Meta(o, u).resources)}
  BY <1>1 DEF UnlistedLookups
<1>8. ASSUME NEW to \in related
      PROVE  Allows(o, u, Lookup(to)) \/ Lookup(to) \in unlisted
  <2>1. CASE to \in ToSet(Meta(o, u).resources)
    BY <2>1, MetaParts, ResourceCalls
  <2>2. CASE to \notin ToSet(Meta(o, u).resources)
    BY <1>7, <2>2
  <2>3. QED BY <2>1, <2>2
<1> HIDE DEF route, panels, related, unlisted
<1>4. ASSUME NEW request \in RecordRequests(route, panels, related)
      PROVE  Allows(o, u, request) \/ request \in unlisted
  <2>1. CASE mode = "list"
    <3>1. \/ request \in {Get(<<"_meta", r>>), Get(<<r>>)}
          \/ \E to \in related : request = Lookup(to)
      BY <1>1, <2>1 DEF RecordRequests
    <3>2. QED BY <1>2, <1>8, <3>1, ResourceCalls
  <2>2. CASE mode = "delete"
    <3>1. request = Get(<<r, "_delete-summary">>)
      BY <1>1, <2>2 DEF RecordRequests
    <3>2. QED BY <1>2, <2>2, <3>1, ResourceCalls
  <2>3. CASE mode = "password"
    <3>1. request = Get(<<r, Id>>)
      BY <1>1, <2>3 DEF RecordRequests
    <3>2. QED BY <1>2, <3>1, ResourceCalls
  <2>4. CASE mode \notin {"list", "delete", "password"}
    <3>1. \/ request = Get(<<"_meta", r>>)
          \/ id # "" /\ request = Get(<<r, id>>)
          \/ request \in PanelRequests(panels)
          \/ \E to \in related : request = Lookup(to)
      BY <1>1, <2>4 DEF RecordRequests
    <3>2. QED BY <1>2, <1>8, <3>1, ResourceCalls, PanelsAsk DEF panels
  <2>5. QED BY <2>1, <2>2, <2>3, <2>4
<1>5. ASSUME NEW request \in RecordButtons(route, u)
      PROVE  Allows(o, u, request)
  <2>1. /\ CanWrite(u, r)
        /\ request \in {Post(<<r>>), Post(<<r, "_bulk-delete">>), Post(<<r, Id, "password">>),
             [method |-> "PATCH", path |-> <<r, Id>>], [method |-> "DELETE", path |-> <<r, Id>>]}
    BY <1>1 DEF RecordButtons
  <2>2. QED BY <1>2, <2>1, ResourceCalls
<1>6. QED BY <1>3, <1>4, <1>5 DEF Granted, route, unlisted

-----------------------------------------------------------------------------
(* What the addresses open.                                                *)

OwnPages == {None, <<"home">>, <<"audit-log">>}

LEMMA Opens ==
  ASSUME NEW o \in ModuleOptions, NEW u, NEW path
  PROVE  LET meta  == Meta(o, u)
             found == {p \in ToSet(meta.pages) : RouteMatches(p.route, path)}
         IN /\ path \in {None, <<"home">>} => ParseRoute(meta, path) = Home
            /\ path = <<"audit-log">> => ParseRoute(meta, path) = Audit
            /\ path \notin OwnPages /\ found # {} =>
                 \E p \in found : ParseRoute(meta, path) = PageRoute(p, path)
            /\ path \notin OwnPages /\ found = {} =>
                 \A r \in ToSet(meta.resources) : Segment(path, 1) = r =>
                   ParseRoute(meta, path) = ResourcePage(r, path)
<1> DEFINE meta  == Meta(o, u)
           found == {p \in ToSet(meta.pages) : RouteMatches(p.route, path)}
           pages == Kept(meta.pages, found)
           named == Kept(meta.resources, {Segment(path, 1)})
<1>1. ParseRoute(meta, path) =
        IF path \in {None, <<"home">>} THEN Home
        ELSE IF path = <<"audit-log">> THEN Audit
        ELSE IF pages # <<>> THEN PageRoute(Head(pages), path)
        ELSE IF named \o meta.resources # <<>>
          THEN ResourcePage(Head(named \o meta.resources), path)
        ELSE IF meta.pages # <<>> THEN PageRoute(Head(meta.pages), Head(meta.pages).route)
        ELSE Home
  BY DEF ParseRoute
<1>2. pages \in Seq(Page) /\ ToSet(pages) = found
  BY MetaParts, KeptElements
<1>3. /\ named \in Seq(STRING) /\ meta.resources \in Seq(STRING)
      /\ ToSet(named) = ToSet(meta.resources) \cap {Segment(path, 1)}
  BY MetaParts, KeptElements
<1>4. <<"audit-log">> # None /\ <<"audit-log">> # <<"home">>
  BY DEF None
<1> HIDE DEF meta, found, pages, named
<1>5. (pages = <<>> <=> found = {}) /\ (pages # <<>> => Head(pages) \in found)
  BY <1>2, Elements
<1>6. ASSUME NEW r \in ToSet(meta.resources), Segment(path, 1) = r
      PROVE  named \o meta.resources # <<>> /\ Head(named \o meta.resources) = r
  <2>1. ToSet(named) = {r}
    BY <1>3, <1>6
  <2>2. Len(named) \in Nat /\ Len(named) # 0 /\ Len(meta.resources) \in Nat
    BY <1>3, <2>1, Elements, EmptySeq
  <2>3. 1 \in 1..Len(named) /\ named[1] = r
    BY <1>3, <2>1, <2>2, Elements
  <2>4. /\ named \o meta.resources \in Seq(STRING)
        /\ Len(named \o meta.resources) = Len(named) + Len(meta.resources)
        /\ (named \o meta.resources)[1] = r
    BY <1>3, <2>2, <2>3, ConcatProperties
  <2>5. named \o meta.resources # <<>>
    BY <2>2, <2>4, EmptySeq
  <2>6. QED BY <2>4, <2>5
<1>7. QED BY <1>1, <1>4, <1>5, <1>6 DEF OwnPages, meta, found

(* The links of a resource lead to its pages.                              *)
LEMMA ResourcePages ==
  ASSUME NEW r
  PROVE  /\ ResourcePage(r, <<r>>) = ResourceRoute(r, "list", "")
         /\ ResourcePage(r, <<r, "new">>) = ResourceRoute(r, "edit", "")
         /\ ResourcePage(r, <<r, "edit", Id>>) = ResourceRoute(r, "edit", Id)
         /\ ResourcePage(r, <<r, "view", Id>>) = ResourceRoute(r, "view", Id)
         /\ ResourcePage(r, <<r, "delete", Id>>) = ResourceRoute(r, "delete", Id)
         /\ ResourcePage(r, <<r, "edit", Id, "password">>) = ResourceRoute(r, "password", Id)
<1>1. ResourcePage(r, <<r>>) = ResourceRoute(r, "list", "")
  BY DEF ResourcePage, Segment
<1>2. ResourcePage(r, <<r, "new">>) = ResourceRoute(r, "edit", "")
  BY DEF ResourcePage, Segment
<1>3. ResourcePage(r, <<r, "edit", Id>>) = ResourceRoute(r, "edit", Id)
  BY DEF ResourcePage, Segment, Id
<1>4. ResourcePage(r, <<r, "view", Id>>) = ResourceRoute(r, "view", Id)
  BY DEF ResourcePage, Segment, Id
<1>5. ResourcePage(r, <<r, "delete", Id>>) = ResourceRoute(r, "delete", Id)
  BY DEF ResourcePage, Segment, Id
<1>6. ResourcePage(r, <<r, "edit", Id, "password">>) = ResourceRoute(r, "password", Id)
  BY DEF ResourcePage, Segment, Id
<1>7. QED BY <1>1, <1>2, <1>3, <1>4, <1>5, <1>6

(* A link to a page is its route, or leads home.                           *)
LEMMA PageLinks ==
  ASSUME NEW o \in ModuleOptions, NEW u, NEW slug
  PROVE  LET meta  == Meta(o, u)
             found == {p \in ToSet(meta.pages) : p.slug = slug}
         IN /\ found = {} => PageHref(meta, slug) = None
            /\ found # {} => \E p \in found : PageHref(meta, slug) = p.route
<1> DEFINE meta  == Meta(o, u)
           found == {p \in ToSet(meta.pages) : p.slug = slug}
           pages == Kept(meta.pages, found)
<1>1. PageHref(meta, slug) = IF pages = <<>> THEN None ELSE Head(pages).route
  BY DEF PageHref
<1>2. pages \in Seq(Page) /\ ToSet(pages) = found
  BY MetaParts, KeptElements
<1> HIDE DEF meta, found, pages
<1>3. (pages = <<>> <=> found = {}) /\ (pages # <<>> => Head(pages) \in found)
  BY <1>2, Elements
<1>4. QED BY <1>1, <1>3 DEF meta, found

LEMMA RouteOfItself ==
  ASSUME NEW route \in Routes
  PROVE  RouteMatches(route, route)
BY DEF RouteMatches

(* The address of a queue's jobs is that of the page of its jobs.          *)
LEMMA JobAddress ==
  ASSUME NEW o \in ModuleOptions, Packaged(o), NEW u,
         NEW p \in ToSet(Meta(o, u).pages), p.screen = "detail"
  PROVE  LET job == Append(p.route, "jobs") \o <<Job>>
         IN /\ job \notin OwnPages
            /\ JobPage \in ToSet(Meta(o, u).pages) /\ RouteMatches(JobPage.route, job)
<1> DEFINE job == Append(p.route, "jobs") \o <<Job>>
           route == <<"queues", Param, "jobs", Param>>
           S == STRING \cup {"jobs", Job}
<1>1. PICK e \in ToSet(o.extensions) :
        IsQueueExtension(e) /\ p \in ToSet(e.pages) /\ p.read = QueuesRead
  BY SeenPage
<1>2. e \in Extension
  BY Elements DEF ModuleOptions
<1>3. /\ JobPage \in ToSet(e.pages)
      /\ Len(p.route) = 2 /\ p.route[1] = "queues"
  BY <1>1, <1>2, QueueExtensionParts
<1>4. JobPage.read = QueuesRead /\ JobPage.route = route
  BY DEF JobPage
<1>5. JobPage \in ToSet(Meta(o, u).pages)
  <2>1. HasPermission(u, QueuesRead)
    BY <1>1, SeenPage
  <2>2. JobPage \in ToSet(Every(o, "pages"))
    BY <1>3, Registries
  <2>3. QED BY <1>4, <2>1, <2>2, MetaParts
<1>6. p.route \in Seq(S)
  <2>1. p \in Page
    BY SeenPage
  <2>2. p.route \in Seq(STRING)
    BY <2>1 DEF Page, Routes
  <2>3. QED BY <2>2
<1>7. "jobs" \in S /\ <<Job>> \in Seq(S) /\ Len(<<Job>>) = 1 /\ 1 \in 1..2 /\ 1 \in 1..4
      /\ 3 \in 1..4
  OBVIOUS
<1>8. /\ job \in Seq(S) /\ Len(job) = 4
      /\ job[1] = "queues" /\ job[3] = "jobs"
  <2> HIDE DEF S
  <2>1. /\ Append(p.route, "jobs") \in Seq(S) /\ Len(Append(p.route, "jobs")) = 3
        /\ Append(p.route, "jobs")[1] = "queues" /\ Append(p.route, "jobs")[3] = "jobs"
    <3>1. /\ Append(p.route, "jobs") \in Seq(S)
          /\ Len(Append(p.route, "jobs")) = Len(p.route) + 1
          /\ \A i \in 1..Len(p.route) : Append(p.route, "jobs")[i] = p.route[i]
          /\ Append(p.route, "jobs")[Len(p.route) + 1] = "jobs"
      BY <1>6, <1>7, AppendProperties
    <3>2. QED BY <1>3, <1>7, <3>1
  <2>2. QED BY <1>7, <2>1, ConcatProperties
<1> HIDE DEF job
<1>9. RouteMatches(route, job)
  <2>1. Len(route) = 4 /\ DOMAIN route = 1..4
    OBVIOUS
  <2>2. /\ route[1] = "queues" /\ route[2] = Param /\ route[3] = "jobs" /\ route[4] = Param
    OBVIOUS
  <2>3. \A i \in 1..4 : i = 1 \/ i = 2 \/ i = 3 \/ i = 4
    OBVIOUS
  <2> HIDE DEF route
  <2>4. QED BY <1>8, <2>1, <2>2, <2>3 DEF RouteMatches
<1>10. job \notin OwnPages
  <2>1. Len(None) = 0 /\ Len(<<"home">>) = 1 /\ Len(<<"audit-log">>) = 1
    BY DEF None
  <2>2. Len(job) # 0 /\ Len(job) # 1
    BY <1>8
  <2>3. QED BY <2>1, <2>2 DEF OwnPages
<1>11. QED BY <1>4, <1>5, <1>9, <1>10 DEF job

-----------------------------------------------------------------------------
(* What is offered.                                                        *)

(* A link to a page that is seen, or to nothing, may be followed.          *)
LEMMA PageLinkGranted ==
  ASSUME NEW o \in ModuleOptions, Packaged(o), NEW u, NEW link,
         \/ link = None
         \/ \E p \in ToSet(Meta(o, u).pages) : link = p.route
         \/ \E p \in ToSet(Meta(o, u).pages) : RouteMatches(p.route, link) /\ link \notin OwnPages
  PROVE  Granted(o, u, ParseRoute(Meta(o, u), link))
<1>1. CASE link \in {None, <<"home">>}
  BY <1>1, Opens, HomeAsks
<1>2. CASE link \notin {None, <<"home">>}
  <2>1. PICK p \in ToSet(Meta(o, u).pages) : RouteMatches(p.route, link)
    <3>1. \A p \in ToSet(Meta(o, u).pages) : p.route \in Routes
      BY SeenPage DEF Page
    <3>2. QED BY <1>2, <3>1, RouteOfItself
  <2>2. link \notin OwnPages
    BY <1>2, SeenPage DEF OwnPages
  <2>3. \E q \in ToSet(Meta(o, u).pages) : ParseRoute(Meta(o, u), link) = PageRoute(q, link)
    BY <2>1, <2>2, Opens
  <2>4. QED BY <2>3, PageAsks
<1>3. QED BY <1>1, <1>2

(* So may a link to a page of a resource that is seen.                     *)
LEMMA ResourceLinkGranted ==
  ASSUME NEW o \in ModuleOptions, Packaged(o), NEW u, NEW link,
         NEW r \in ToSet(Meta(o, u).resources), Segment(link, 1) = r,
         link # <<"audit-log">>,
         NEW mode \in Modes, NEW id \in {"", Id},
         mode = "delete" => CanWrite(u, r), mode = "password" => id = Id,
         ResourcePage(r, link) = ResourceRoute(r, mode, id)
  PROVE  Granted(o, u, ParseRoute(Meta(o, u), link))
<1>1. CASE link \in {None, <<"home">>}
  BY <1>1, Opens, HomeAsks
<1>2. CASE link \notin {None, <<"home">>}
  <2>1. link \notin OwnPages
    BY <1>2 DEF OwnPages
  <2>2. CASE \E p \in ToSet(Meta(o, u).pages) : RouteMatches(p.route, link)
    BY <2>1, <2>2, PageLinkGranted
  <2>3. CASE ~\E p \in ToSet(Meta(o, u).pages) : RouteMatches(p.route, link)
    <3>1. ParseRoute(Meta(o, u), link) = ResourceRoute(r, mode, id)
      BY <2>1, <2>3, Opens
    <3>2. QED BY <3>1, ResourceAsks
  <2>4. QED BY <2>2, <2>3
<1>3. QED BY <1>1, <1>2

LEMMA LinksGranted ==
  ASSUME NEW o \in ModuleOptions, Packaged(o), NEW u,
         NEW link \in OfferedLinks(Meta(o, u), u)
  PROVE  Granted(o, u, ParseRoute(Meta(o, u), link))
<1> DEFINE meta == Meta(o, u)
<1>1. ASSUME NEW slug, link = PageHref(meta, slug)
      PROVE  Granted(o, u, ParseRoute(meta, link))
  <2>1. link = None \/ \E p \in ToSet(meta.pages) : link = p.route
    BY <1>1, PageLinks
  <2>2. QED BY <2>1, PageLinkGranted
<1>2. ASSUME NEW r \in ToSet(meta.resources)
      PROVE  /\ link = <<r>> => Granted(o, u, ParseRoute(meta, link))
             /\ CanWrite(u, r) /\ link = <<r, "new">> =>
                  Granted(o, u, ParseRoute(meta, link))
             /\ link \in RecordLinks(r, u) => Granted(o, u, ParseRoute(meta, link))
  <2>1. r # "audit-log"
    BY MetaParts DEF Packaged, Reserved
  <2>2. {"list", "edit", "view", "password", "delete"} \subseteq Modes
    BY DEF Modes
  <2>3. CASE link = <<r>>
    <3>1. Segment(link, 1) = r /\ link # <<"audit-log">>
      BY <2>1, <2>3 DEF Segment
    <3>2. ResourcePage(r, link) = ResourceRoute(r, "list", "")
      BY <2>3, ResourcePages
    <3>3. QED BY <2>2, <3>1, <3>2, ResourceLinkGranted
  <2>4. CASE link = <<r, "new">>
    <3>1. Segment(link, 1) = r /\ link # <<"audit-log">>
      BY <2>4 DEF Segment
    <3>2. ResourcePage(r, link) = ResourceRoute(r, "edit", "")
      BY <2>4, ResourcePages
    <3>3. QED BY <2>2, <3>1, <3>2, ResourceLinkGranted
  <2>5. CASE link = <<r, "edit", Id>>
    <3>1. Segment(link, 1) = r /\ link # <<"audit-log">>
      BY <2>5 DEF Segment
    <3>2. ResourcePage(r, link) = ResourceRoute(r, "edit", Id)
      BY <2>5, ResourcePages
    <3>3. QED BY <2>2, <3>1, <3>2, ResourceLinkGranted
  <2>6. CASE link = <<r, "view", Id>>
    <3>1. Segment(link, 1) = r /\ link # <<"audit-log">>
      BY <2>6 DEF Segment
    <3>2. ResourcePage(r, link) = ResourceRoute(r, "view", Id)
      BY <2>6, ResourcePages
    <3>3. QED BY <2>2, <3>1, <3>2, ResourceLinkGranted
  <2>7. CASE link = <<r, "delete", Id>> /\ CanWrite(u, r)
    <3>1. Segment(link, 1) = r /\ link # <<"audit-log">>
      BY <2>7 DEF Segment
    <3>2. ResourcePage(r, link) = ResourceRoute(r, "delete", Id)
      BY <2>7, ResourcePages
    <3>3. QED BY <2>2, <2>7, <3>1, <3>2, ResourceLinkGranted
  <2>8. CASE link = <<r, "edit", Id, "password">>
    <3>1. Segment(link, 1) = r /\ link # <<"audit-log">>
      BY <2>8 DEF Segment
    <3>2. ResourcePage(r, link) = ResourceRoute(r, "password", Id)
      BY <2>8, ResourcePages
    <3>3. QED BY <2>2, <3>1, <3>2, ResourceLinkGranted
  <2>9. link \in RecordLinks(r, u) =>
          \/ link \in {<<r, "new">>, <<r, "edit", Id>>, <<r, "view", Id>>,
                       <<r, "edit", Id, "password">>}
          \/ link = <<r, "delete", Id>> /\ CanWrite(u, r)
    BY DEF RecordLinks
  <2>10. QED BY <2>3, <2>4, <2>5, <2>6, <2>7, <2>8, <2>9
<1>3. ASSUME meta.audit, link = <<"audit-log">>
      PROVE  Granted(o, u, ParseRoute(meta, link))
  BY <1>3, Opens, HomeAsks
<1>4. ASSUME NEW p \in ToSet(meta.pages), link \in QueueLinks(p)
      PROVE  Granted(o, u, ParseRoute(meta, link))
  <2>1. p.screen = "detail" /\ link \in {Append(p.route, "jobs") \o <<Job>>, p.route}
    BY <1>4 DEF QueueLinks
  <2>2. CASE link = p.route
    BY <2>2, PageLinkGranted
  <2>3. CASE link = Append(p.route, "jobs") \o <<Job>>
    <3>1. link \notin OwnPages /\ JobPage \in ToSet(meta.pages)
          /\ RouteMatches(JobPage.route, link)
      BY <2>1, <2>3, JobAddress
    <3>2. QED BY <3>1, PageLinkGranted
  <2>4. QED BY <2>1, <2>2, <2>3
<1>5. CASE link \in SidebarLinks(meta)
  <2>1. \/ link = None
        \/ \E r \in ToSet(meta.resources) : link = <<r>>
        \/ \E slug : link = PageHref(meta, slug)
        \/ meta.audit /\ link = <<"audit-log">>
    BY <1>5 DEF SidebarLinks
  <2>2. CASE link = None
    BY <2>2, PageLinkGranted
  <2>3. QED BY <1>1, <1>2, <1>3, <2>1, <2>2
<1>6. CASE link \in DashboardLinks(meta, u)
  <2>1. \/ \E r \in ToSet(meta.resources) : CanWrite(u, r) /\ link = <<r, "new">>
        \/ \E slug : link = PageHref(meta, slug)
    BY <1>6 DEF DashboardLinks
  <2>2. QED BY <1>1, <1>2, <2>1
<1>7. \/ link \in SidebarLinks(meta) \/ link \in DashboardLinks(meta, u)
      \/ \E r \in ToSet(meta.resources) : link \in RecordLinks(r, u)
      \/ \E p \in ToSet(meta.pages) : link \in QueueLinks(p)
  <2>1. link \in OfferedLinks(meta, u)
    OBVIOUS
  <2> HIDE DEF meta
  <2> DEFINE S == SidebarLinks(meta)
             D == DashboardLinks(meta, u)
             R == UNION {RecordLinks(r, u) : r \in ToSet(meta.resources)}
             Q == UNION {QueueLinks(p) : p \in ToSet(meta.pages)}
  <2>2. link \in S \/ link \in D \/ link \in R \/ link \in Q
    <3>1. OfferedLinks(meta, u) = S \cup D \cup R \cup Q
      BY DEF OfferedLinks
    <3> HIDE DEF S, D, R, Q
    <3>2. QED BY <2>1, <3>1
  <2>3. link \in UNION {RecordLinks(r, u) : r \in ToSet(meta.resources)} =>
          \E r \in ToSet(meta.resources) : link \in RecordLinks(r, u)
    OBVIOUS
  <2>4. link \in UNION {QueueLinks(p) : p \in ToSet(meta.pages)} =>
          \E p \in ToSet(meta.pages) : link \in QueueLinks(p)
    OBVIOUS
  <2>5. QED BY <2>2, <2>3, <2>4
<1>8. QED BY <1>2, <1>4, <1>5, <1>6, <1>7

-----------------------------------------------------------------------------
(* Where links lead.                                                       *)

LEMMA MatchesClash ==
  ASSUME NEW route, NEW path, RouteMatches(route, path)
  PROVE  Clash(route, path)
BY DEF RouteMatches, Clash

LEMMA OnePageOfASlug ==
  ASSUME NEW o \in ModuleOptions, Accepted(o),
         NEW p \in ToSet(Every(o, "pages")), NEW q \in ToSet(Every(o, "pages")),
         p.slug = q.slug
  PROVE  p = q
<1> DEFINE pages == Every(o, "pages")
<1>1. pages \in Seq(Page)
  BY Registries
<1>2. Distinct(pages, "slug")
  BY DEF Accepted
<1> HIDE DEF pages
<1>3. PICK i \in 1..Len(pages) : p = pages[i]
  BY <1>1, Elements DEF pages
<1>4. PICK j \in 1..Len(pages) : q = pages[j]
  BY <1>1, Elements DEF pages
<1>5. DOMAIN pages = 1..Len(pages) /\ pages[i] \in Page /\ pages[j] \in Page
  BY <1>1, Elements
<1>6. pages[i]["slug"] = pages[j]["slug"]
  BY <1>3, <1>4, <1>5 DEF Page
<1>7. i = j
  BY <1>2, <1>5, <1>6 DEF Distinct
<1>8. QED BY <1>3, <1>4, <1>7

LEMMA LinkedPages ==
  ASSUME NEW o \in ModuleOptions, Accepted(o), NEW u, NEW slug,
         \/ \E n \in ToSet(Meta(o, u).navItems) : n.kind = "page" /\ n.slug = slug
         \/ \E w \in ToSet(Meta(o, u).widgets) : w.kind = "page-link" /\ w.slug = slug
  PROVE  \E p \in ToSet(Every(o, "pages")) : p.slug = slug
<1> DEFINE slugs == {Every(o, "pages")[i].slug : i \in DOMAIN Every(o, "pages")}
<1>1. /\ NamesKnownPages(Every(o, "navItems"), "page", slugs)
      /\ NamesKnownPages(Every(o, "widgets"), "page-link", slugs)
  BY DEF Accepted
<1>2. /\ \A i \in DOMAIN Every(o, "navItems") :
           Every(o, "navItems")[i].kind = "page" => Every(o, "navItems")[i].slug \in slugs
      /\ \A i \in DOMAIN Every(o, "widgets") :
           Every(o, "widgets")[i].kind = "page-link" => Every(o, "widgets")[i].slug \in slugs
  BY <1>1 DEF NamesKnownPages
<1> HIDE DEF slugs
<1>3. slug \in slugs
  <2>1. CASE \E n \in ToSet(Meta(o, u).navItems) : n.kind = "page" /\ n.slug = slug
    <3>1. PICK n \in ToSet(Every(o, "navItems")) : n.kind = "page" /\ n.slug = slug
      BY <2>1, MetaParts
    <3>2. PICK i \in DOMAIN Every(o, "navItems") : n = Every(o, "navItems")[i]
      BY DEF ToSet
    <3>3. QED BY <1>2, <3>1, <3>2
  <2>2. CASE \E w \in ToSet(Meta(o, u).widgets) : w.kind = "page-link" /\ w.slug = slug
    <3>1. PICK w \in ToSet(Every(o, "widgets")) : w.kind = "page-link" /\ w.slug = slug
      BY <2>2, MetaParts
    <3>2. PICK i \in DOMAIN Every(o, "widgets") : w = Every(o, "widgets")[i]
      BY DEF ToSet
    <3>3. QED BY <1>2, <3>1, <3>2
  <2>3. QED BY <2>1, <2>2
<1>4. QED BY <1>3 DEF slugs, ToSet

(* A link to a page leads to that page.                                    *)
LEMMA PageLinkOpens ==
  ASSUME NEW o \in ModuleOptions, Accepted(o), NEW u,
         NEW p \in ToSet(Every(o, "pages")), HasPermission(u, p.read), ~Own(p.route),
         \A q \in ToSet(Meta(o, u).pages) \ {p} : ~Clash(q.route, p.route)
  PROVE  ParseRoute(Meta(o, u), PageHref(Meta(o, u), p.slug)) = PageRoute(p, p.route)
<1> DEFINE meta == Meta(o, u)
<1>1. p \in ToSet(meta.pages) /\ \A q \in ToSet(meta.pages) : q \in ToSet(Every(o, "pages"))
  BY MetaParts
<1>2. PageHref(meta, p.slug) = p.route
  <2>1. PICK q \in ToSet(meta.pages) : q.slug = p.slug /\ PageHref(meta, p.slug) = q.route
    BY <1>1, PageLinks
  <2>2. QED BY <1>1, <2>1, OnePageOfASlug
<1>3. p.route \notin OwnPages
  BY DEF Own, OwnPages
<1>4. RouteMatches(p.route, p.route)
  <2>1. p \in Page
    BY Registries, Elements
  <2>2. p.route \in Routes
    BY <2>1 DEF Page
  <2>3. QED BY <2>2, RouteOfItself
<1>5. PICK q \in ToSet(meta.pages) :
        RouteMatches(q.route, p.route) /\ ParseRoute(meta, p.route) = PageRoute(q, p.route)
  BY <1>1, <1>3, <1>4, Opens
<1>6. q = p
  BY <1>5, MatchesClash
<1>7. QED BY <1>2, <1>5, <1>6

LEMMA JobsOpen ==
  ASSUME NEW o \in ModuleOptions, Packaged(o), NEW u,
         NEW p \in ToSet(Meta(o, u).pages), p.screen = "detail",
         \A q \in ToSet(Meta(o, u).pages) :
           q.screen = "job" \/ ~Clash(q.route, Append(p.route, "jobs") \o <<Job>>)
  PROVE  ParseRoute(Meta(o, u), Append(p.route, "jobs") \o <<Job>>).page.screen = "job"
<1> DEFINE job == Append(p.route, "jobs") \o <<Job>>
<1>1. /\ job \notin OwnPages
      /\ JobPage \in ToSet(Meta(o, u).pages) /\ RouteMatches(JobPage.route, job)
  BY JobAddress
<1> HIDE DEF job
<1>2. PICK q \in ToSet(Meta(o, u).pages) :
        RouteMatches(q.route, job) /\ ParseRoute(Meta(o, u), job) = PageRoute(q, job)
  BY <1>1, Opens
<1>3. q.screen = "job"
  BY <1>2, MatchesClash DEF job
<1>4. PageRoute(q, job).page = q
  BY DEF PageRoute
<1>5. QED BY <1>2, <1>3, <1>4 DEF job

LEMMA ResourceOpens ==
  ASSUME NEW o \in ModuleOptions, NEW u, NEW r \in ToSet(Meta(o, u).resources),
         ~Own(<<r>>), \A q \in ToSet(Meta(o, u).pages) : ~Clash(q.route, <<r>>)
  PROVE  ParseRoute(Meta(o, u), <<r>>) = ResourceRoute(r, "list", "")
<1>1. <<r>> \notin OwnPages
  BY DEF Own, OwnPages
<1>2. ~\E q \in ToSet(Meta(o, u).pages) : RouteMatches(q.route, <<r>>)
  BY MatchesClash
<1>3. Segment(<<r>>, 1) = r
  BY DEF Segment
<1>4. ParseRoute(Meta(o, u), <<r>>) = ResourcePage(r, <<r>>)
  BY <1>1, <1>2, <1>3, Opens
<1>5. QED BY <1>4, ResourcePages

-----------------------------------------------------------------------------
(* The life of a session seen from one tab of a browser.                   *)

(* The records that App and its loads are.                                 *)
Shaped ==
  /\ {"state", "error", "user", "meta"} \subseteq DOMAIN tab
  /\ tab.state \in {"loading", "in", "out"}
  /\ "pc" \in DOMAIN load
  /\ load.pc \in {"me", "meta"} => {"sent", "reply"} \subseteq DOMAIN load

(* The admin is shown only between loads, for the page that was mounted    *)
(* when they started is the loading or the login page.                     *)
LoadsAreNotIn ==
  load.pc \in {"login", "config", "me", "meta"} => tab.state # "in"

(* The load that is still to answer cannot bring the user back: either it  *)
(* found nobody, or was sent without a cookie, or the user is forgotten.   *)
LeftStaysOut ==
  left /\ ~botched =>
    /\ load.pc \in {"config", "me"} => cookie = 0
    /\ tab.state = "in" => tab.user = Nobody
    /\ load.pc = "meta" =>
         \/ tab.user = Nobody
         \/ load.sent = 0 /\ load.reply \subseteq {Nobody}

Inv == Shaped /\ LoadsAreNotIn /\ LeftStaysOut

LEMMA InitInv == Init => Inv
BY DEF Init, Fresh, Inv, Shaped, LoadsAreNotIn, LeftStaysOut

(* The loads of App.                                                       *)
LEMMA LoadInv ==
  ASSUME Inv, LoadStep \/ LoadFails
  PROVE  Inv'
<1> USE DEF Inv, Shaped, LoadsAreNotIn, LeftStaysOut
<1>1. CASE ConfigAnswers
  BY <1>1 DEF ConfigAnswers, Ask
<1>2. CASE ServeLoad
  <2>1. /\ load' = [load EXCEPT !.reply = {UserOf(load.sent)}]
        /\ UNCHANGED <<tab, cookie, left, botched>>
    BY <1>2 DEF ServeLoad
  <2>2. load.sent = 0 => UserOf(load.sent) = Nobody
    BY DEF UserOf
  <2>3. load.pc \in {"me", "meta"}
    BY <1>2 DEF ServeLoad
  <2>4. /\ load'.pc = load.pc /\ load'.sent = load.sent
        /\ load'.reply = {UserOf(load.sent)}
        /\ DOMAIN load' = DOMAIN load
    BY <2>1, <2>3
  <2>5. QED BY <2>1, <2>2, <2>4
<1>3. CASE MeAnswers
  <2>1. CASE Nobody \in load.reply
    BY <1>3, <2>1 DEF MeAnswers, Fresh, Idle
  <2>2. CASE Nobody \notin load.reply
    <3>1. /\ tab' = [tab EXCEPT !.user = Answer]
          /\ load' = [pc |-> "meta", sent |-> cookie, reply |-> {}]
          /\ load.pc = "me" /\ UNCHANGED <<cookie, left, botched>>
      BY <1>3, <2>2 DEF MeAnswers, Ask
    <3>2. tab'.state = tab.state /\ tab.state # "in"
      BY <1>3, <3>1 DEF MeAnswers
    <3>3. QED BY <3>1, <3>2
  <2>3. QED BY <2>1, <2>2
<1>4. CASE MetaAnswers
  <2>1. /\ load.pc = "meta" /\ load.reply # {}
        /\ load' = Idle
        /\ UNCHANGED <<cookie, left, botched>>
    BY <1>4 DEF MetaAnswers
  <2>2. CASE Nobody \in load.reply
    <3>1. tab' = [tab EXCEPT !.error = TRUE]
      BY <1>4, <2>2 DEF MetaAnswers
    <3>2. QED BY <2>1, <3>1 DEF Idle
  <2>3. CASE Nobody \notin load.reply
    <3>1. tab' = [tab EXCEPT !.meta = Answer, !.state = "in", !.error = FALSE]
      BY <1>4, <2>3 DEF MetaAnswers
    <3>2. left /\ ~botched => tab.user = Nobody
      BY <2>1, <2>3
    <3>3. tab'.user = tab.user /\ tab'.state = "in"
      BY <3>1
    <3>4. QED BY <2>1, <3>1, <3>2, <3>3 DEF Idle
  <2>4. QED BY <2>2, <2>3
<1>5. CASE LoadFails
  BY <1>5 DEF LoadFails, Idle
<1>6. QED
  BY <1>1, <1>2, <1>3, <1>4, <1>5 DEF LoadStep

(* Signing in, here, at the host or in another tab.                        *)
LEMMA SignInInv ==
  ASSUME Inv,
         \/ LoginStep
         \/ \E u \in Users : Submit(u) \/ LeaveToHost(u) \/ OtherTab(u)
  PROVE  Inv'
<1> USE DEF Inv, Shaped, LoadsAreNotIn, LeftStaysOut
<1>1. CASE ServeLogin
  <2>1. /\ load.pc = "login" /\ UNCHANGED <<tab, cookie, left, botched>>
        /\ \E answer : load' = [load EXCEPT !.reply = answer]
    BY <1>1 DEF ServeLogin
  <2>2. load'.pc = "login" /\ DOMAIN load' = DOMAIN load
    BY <2>1
  <2>3. QED BY <2>1, <2>2
<1>2. CASE LoginAnswers
  BY <1>2 DEF LoginAnswers, Idle
<1>3. ASSUME NEW u \in Users, Submit(u)
      PROVE  Inv'
  <2>1. tab.state # "in"
    BY <1>3 DEF Submit, Screen
  <2>2. QED BY <1>3, <2>1 DEF Submit
<1>4. ASSUME NEW u \in Users, LeaveToHost(u)
      PROVE  Inv'
  BY <1>4 DEF LeaveToHost, Fresh
<1>5. ASSUME NEW u \in Users, OtherTab(u)
      PROVE  Inv'
  BY <1>5 DEF OtherTab
<1>6. QED
  BY <1>1, <1>2, <1>3, <1>4, <1>5 DEF LoginStep

(* Signing out, and what leaves the page as it is.                         *)
LEMMA SignOutInv ==
  ASSUME Inv,
         \/ Start \/ Open \/ ClickLogout
         \/ \E i \in DOMAIN logouts :
              ServeLogout(i) \/ LogoutAnswers(i) \/ LogoutFails(i)
         \/ \E s \in Sessions : Expire(s)
         \/ UNCHANGED vars
  PROVE  Inv'
<1> USE DEF Inv, Shaped, LoadsAreNotIn, LeftStaysOut
<1>1. CASE Start \/ ClickLogout \/ UNCHANGED vars
  BY <1>1 DEF Start, ClickLogout, vars
<1>2. CASE Open
  BY <1>2 DEF Open, Fresh
<1>3. ASSUME NEW i \in DOMAIN logouts, ServeLogout(i) \/ LogoutFails(i)
      PROVE  Inv'
  BY <1>3 DEF ServeLogout, LogoutFails
<1>4. ASSUME NEW i \in DOMAIN logouts, LogoutAnswers(i)
      PROVE  Inv'
  <2>1. /\ tab' = [tab EXCEPT !.user = Nobody, !.meta = Nobody, !.state = "out"]
        /\ UNCHANGED load
    BY <1>4 DEF LogoutAnswers
  <2>2. tab'.state = "out" /\ tab'.user = Nobody
    BY <2>1
  <2>3. CASE logouts[i].answer = "done"
    <3>1. cookie' = 0
      BY <1>4, <2>3 DEF LogoutAnswers
    <3>2. QED BY <2>1, <2>2, <3>1
  <2>4. CASE logouts[i].answer = "error"
    <3>1. /\ cookie' = cookie
          /\ botched' = (botched \/ load.pc \in {"config", "me"})
      BY <1>4, <2>4 DEF LogoutAnswers
    <3>2. QED BY <2>1, <2>2, <3>1
  <2>5. logouts[i].answer \in {"done", "error"}
    BY <1>4 DEF LogoutAnswers
  <2>6. QED BY <2>3, <2>4, <2>5
<1>5. ASSUME NEW s \in Sessions, Expire(s)
      PROVE  Inv'
  BY <1>5 DEF Expire
<1>6. QED
  BY <1>1, <1>2, <1>3, <1>4, <1>5

(* A tab that has logged out shows the admin to nobody until somebody      *)
(* signs in, although answers of the old session may still come (App.tsx), *)
(* unless a logout was answered with an error while the admin started.     *)
THEOREM SignedOutTabsShowNothing == Spec => []SignedOutShowsNothing
<1>1. Inv /\ [Next]_vars => Inv'
  <2> SUFFICES ASSUME Inv, [Next]_vars
               PROVE  Inv'
    OBVIOUS
  <2> QED
    BY LoadInv, SignInInv, SignOutInv DEF Next
<1>2. Inv => SignedOutShowsNothing
  BY DEF Inv, Shaped, LeftStaysOut, SignedOutShowsNothing, Screen
<1>3. QED
  BY InitInv, <1>1, <1>2, PTL DEF Spec

-----------------------------------------------------------------------------
(* The tab shows what a user is offered only of a host whose extensions    *)
(* were accepted, and only to a user of its own.                           *)

Loads ==
  {Idle, [pc |-> "closed"]}
  \cup [pc : {"login"}, user : Users, reply : SUBSET Logins]
  \cup [pc : {"config"}]
  \cup [pc : {"me", "meta"}, sent : Cookies, reply : SUBSET AnyUser]

Typed ==
  /\ host \in Hosts
  /\ owner \in [Sessions -> AnyUser]
  /\ {issued, cookie} \subseteq Cookies
  /\ tab \in Tab
  /\ load \in Loads

OnlyAcceptedStarts ==
  /\ server = "up" => Accepted(options)
  /\ load.pc # "closed" => server = "up"

ShownInv == Typed /\ OnlyAcceptedStarts

LEMMA LoadKinds ==
  ASSUME load \in Loads
  PROVE  /\ load.pc = "login" => load \in [pc : {"login"}, user : Users, reply : SUBSET Logins]
         /\ load.pc \in {"me", "meta"} =>
              load \in [pc : {"me", "meta"}, sent : Cookies, reply : SUBSET AnyUser]
BY DEF Loads, Idle

LEMMA ShownInit == Init => ShownInv
BY BoundAssumption DEF Init, ShownInv, Typed, OnlyAcceptedStarts, Loads, Fresh, Tab, Cookies,
   Sessions, AnyUser

LEMMA FreshTab == Fresh \in Tab
BY DEF Fresh, Tab, AnyUser

LEMMA ShownLoads ==
  ASSUME ShownInv, LoadStep \/ LoadFails
  PROVE  ShownInv'
<1>1. /\ UNCHANGED <<host, server, owner, issued, cookie>>
      /\ load.pc \in {"config", "me", "meta"}
  BY DEF LoadStep, LoadFails, ConfigAnswers, ServeLoad, MeAnswers, MetaAnswers
<1>2. load' \in Loads /\ load'.pc # "closed" /\ tab' \in Tab
  <2>1. CASE ConfigAnswers
    BY <2>1 DEF ConfigAnswers, Ask, Loads, ShownInv, Typed
  <2>2. CASE ServeLoad
    <3>1. load \in [pc : {"me", "meta"}, sent : Cookies, reply : SUBSET AnyUser]
      BY <2>2, LoadKinds DEF ServeLoad, ShownInv, Typed
    <3>2. UserOf(load.sent) \in AnyUser
      BY <3>1, BoundAssumption DEF UserOf, ShownInv, Typed, Cookies, Sessions, AnyUser
    <3>3. load' = [load EXCEPT !.reply = {UserOf(load.sent)}] /\ tab' = tab
      BY <2>2 DEF ServeLoad
    <3>4. /\ load' \in [pc : {"me", "meta"}, sent : Cookies, reply : SUBSET AnyUser]
          /\ load'.pc \in {"me", "meta"}
      BY <3>1, <3>2, <3>3
    <3>5. QED BY <3>3, <3>4 DEF Loads, ShownInv, Typed
  <2>3. CASE MeAnswers
    <3>1. load \in [pc : {"me", "meta"}, sent : Cookies, reply : SUBSET AnyUser]
      BY <2>3, LoadKinds DEF MeAnswers, ShownInv, Typed
    <3>2. Answer \in AnyUser
      BY <2>3, <3>1 DEF MeAnswers, Answer
    <3>3. CASE Nobody \in load.reply
      <4>1. tab' = [Fresh EXCEPT !.state = "out"] /\ load' = Idle
        BY <2>3, <3>3 DEF MeAnswers
      <4>2. tab' \in Tab
        BY <4>1, FreshTab DEF Tab
      <4>3. QED BY <4>1, <4>2 DEF Loads, Idle
    <3>4. CASE Nobody \notin load.reply
      <4>1. /\ tab' = [tab EXCEPT !.user = Answer]
            /\ load' = [pc |-> "meta", sent |-> cookie, reply |-> {}]
        BY <2>3, <3>4 DEF MeAnswers, Ask
      <4>2. QED BY <3>2, <4>1 DEF ShownInv, Typed, Tab, Loads
    <3>5. QED BY <3>3, <3>4
  <2>4. CASE MetaAnswers
    <3>1. load \in [pc : {"me", "meta"}, sent : Cookies, reply : SUBSET AnyUser]
      BY <2>4, LoadKinds DEF MetaAnswers, ShownInv, Typed
    <3>2. Answer \in AnyUser
      BY <2>4, <3>1 DEF MetaAnswers, Answer
    <3>3. /\ load' = Idle
          /\ \/ tab' = [tab EXCEPT !.error = TRUE]
             \/ tab' = [tab EXCEPT !.meta = Answer, !.state = "in", !.error = FALSE]
      BY <2>4 DEF MetaAnswers
    <3>4. QED BY <3>2, <3>3 DEF ShownInv, Typed, Tab, Loads, Idle
  <2>5. CASE LoadFails
    BY <2>5 DEF LoadFails, ShownInv, Typed, Tab, Loads, Idle
  <2>6. QED BY <2>1, <2>2, <2>3, <2>4, <2>5 DEF LoadStep
<1>3. Typed'
  BY <1>1, <1>2 DEF ShownInv, Typed
<1>4. OnlyAcceptedStarts'
  BY <1>1 DEF ShownInv, OnlyAcceptedStarts, options
<1>5. QED BY <1>3, <1>4 DEF ShownInv

LEMMA ShownSignIn ==
  ASSUME ShownInv,
         \/ LoginStep
         \/ \E u \in Users : Submit(u) \/ LeaveToHost(u) \/ OtherTab(u)
  PROVE  ShownInv'
<1> USE DEF ShownInv, Typed
<1>1. /\ UNCHANGED <<host, server>>
      /\ load'.pc # "closed" => load.pc # "closed"
  <2>1. CASE LoginStep
    BY <2>1 DEF LoginStep, ServeLogin, LoginAnswers
  <2>2. ASSUME NEW u \in Users, Submit(u) \/ LeaveToHost(u) \/ OtherTab(u)
        PROVE  /\ UNCHANGED <<host, server>>
               /\ load'.pc # "closed" => load.pc # "closed"
    BY <2>2 DEF Submit, LeaveToHost, OtherTab, Screen
  <2>3. QED BY <2>1, <2>2
<1>2. OnlyAcceptedStarts'
  BY <1>1 DEF OnlyAcceptedStarts, options
<1>3. issued < MaxSessions => issued + 1 \in Sessions /\ issued + 1 \in Cookies
  BY BoundAssumption DEF Sessions, Cookies
<1>4. ASSUME NEW u \in Users
      PROVE  [owner EXCEPT ![issued + 1] = u] \in [Sessions -> AnyUser]
  BY DEF AnyUser
<1>5. CASE ServeLogin
  <2>1. load \in [pc : {"login"}, user : Users, reply : SUBSET Logins]
    BY <1>5, LoadKinds DEF ServeLogin
  <2>2. /\ [session |-> 0, ok |-> FALSE] \in Logins
        /\ \A ok \in BOOLEAN, s \in Cookies : [session |-> s, ok |-> ok] \in Logins
    BY BoundAssumption DEF Cookies, Logins
  <2>3. /\ UNCHANGED <<host, cookie, tab>>
        /\ \/ /\ load' = [load EXCEPT !.reply = {[session |-> 0, ok |-> FALSE]}]
              /\ UNCHANGED <<owner, issued>>
           \/ /\ issued < MaxSessions /\ issued' = issued + 1
              /\ owner' = [owner EXCEPT ![issued + 1] = load.user]
              /\ \E ok \in BOOLEAN :
                   load' = [load EXCEPT !.reply = {[session |-> issued + 1, ok |-> ok]}]
    BY <1>5 DEF ServeLogin
  <2>7. ASSUME NEW answer \in Logins, load' = [load EXCEPT !.reply = {answer}]
        PROVE  load' \in [pc : {"login"}, user : Users, reply : SUBSET Logins]
    BY <2>1, <2>7
  <2>4. load' \in [pc : {"login"}, user : Users, reply : SUBSET Logins]
    BY <1>3, <2>2, <2>3, <2>7
  <2>5. owner' \in [Sessions -> AnyUser] /\ issued' \in Cookies
    BY <1>3, <1>4, <2>1, <2>3
  <2>6. QED BY <1>2, <2>3, <2>4, <2>5 DEF Loads
<1>6. CASE LoginAnswers
  <2>1. load \in [pc : {"login"}, user : Users, reply : SUBSET Logins] /\ load.reply # {}
    BY <1>6, LoadKinds DEF LoginAnswers
  <2>2. Answer.session \in Cookies
    BY <2>1 DEF Answer, Logins
  <2>3. /\ UNCHANGED <<host, owner, issued, tab>>
        /\ load' \in {Idle, [pc |-> "config"]} /\ cookie' \in {cookie, Answer.session}
    BY <1>6 DEF LoginAnswers
  <2>4. QED BY <1>2, <2>2, <2>3 DEF Loads
<1>7. ASSUME NEW u \in Users, Submit(u)
      PROVE  ShownInv'
  <2>1. /\ load' = [pc |-> "login", user |-> u, reply |-> {}]
        /\ UNCHANGED <<host, owner, issued, cookie, tab>>
    BY <1>7 DEF Submit
  <2>2. QED BY <1>2, <2>1 DEF Loads
<1>8. ASSUME NEW u \in Users, LeaveToHost(u)
      PROVE  ShownInv'
  <2>1. /\ issued < MaxSessions /\ issued' = issued + 1 /\ cookie' = issued + 1
        /\ owner' = [owner EXCEPT ![issued + 1] = u]
        /\ tab' = Fresh /\ load' = [pc |-> "config"] /\ host' = host
    BY <1>8 DEF LeaveToHost
  <2>2. QED BY <1>2, <1>3, <1>4, <2>1, FreshTab DEF Loads
<1>9. ASSUME NEW u \in Users, OtherTab(u)
      PROVE  ShownInv'
  <2>1. /\ issued < MaxSessions /\ issued' = issued + 1 /\ cookie' = issued + 1
        /\ owner' = [owner EXCEPT ![issued + 1] = u]
        /\ UNCHANGED <<host, tab, load>>
    BY <1>9 DEF OtherTab
  <2>2. QED BY <1>2, <1>3, <1>4, <2>1
<1>10. QED
  BY <1>5, <1>6, <1>7, <1>8, <1>9 DEF LoginStep

LEMMA ShownSignOut ==
  ASSUME ShownInv,
         \/ Start \/ Open \/ ClickLogout
         \/ \E i \in DOMAIN logouts : ServeLogout(i) \/ LogoutAnswers(i) \/ LogoutFails(i)
         \/ \E s \in Sessions : Expire(s)
         \/ UNCHANGED vars
  PROVE  ShownInv'
<1> USE DEF ShownInv, Typed
<1>1. 0 \in Cookies
  BY BoundAssumption DEF Cookies
<1>2. CASE Start
  <2>1. /\ server' = "up" => Accepted(options)
        /\ server = "starting" /\ UNCHANGED <<host, owner, issued, cookie, tab, load>>
    BY <1>2 DEF Start
  <2>2. load.pc = "closed"
    BY <2>1 DEF OnlyAcceptedStarts
  <2>3. OnlyAcceptedStarts'
    BY <2>1, <2>2 DEF OnlyAcceptedStarts, options
  <2>4. QED BY <2>1, <2>3
<1>3. CASE Open
  <2>1. \E served : owner' = [s \in Sessions |-> IF s \in served THEN Nobody ELSE owner[s]]
    BY <1>3 DEF Open
  <2>2. owner' \in [Sessions -> AnyUser]
    BY <2>1 DEF AnyUser
  <2>3. /\ server = "up" /\ UNCHANGED <<host, server, issued, cookie>>
        /\ tab' = Fresh /\ load' = [pc |-> "config"]
    BY <1>3 DEF Open
  <2>4. OnlyAcceptedStarts'
    BY <2>3 DEF OnlyAcceptedStarts, options
  <2>5. QED BY <2>2, <2>3, <2>4, FreshTab DEF Loads
<1>4. CASE ClickLogout \/ UNCHANGED vars
  <2>1. UNCHANGED <<host, server, owner, issued, cookie, tab, load>>
    BY <1>4 DEF ClickLogout, vars
  <2>2. QED BY <2>1 DEF OnlyAcceptedStarts, options
<1>5. ASSUME NEW i \in DOMAIN logouts, ServeLogout(i)
      PROVE  ShownInv'
  <2>1. /\ \E ended \in BOOLEAN : owner' =
             [s \in Sessions |-> IF ended /\ s = logouts[i].sent THEN Nobody ELSE owner[s]]
        /\ UNCHANGED <<host, server, issued, cookie, tab, load>>
    BY <1>5 DEF ServeLogout
  <2>2. owner' \in [Sessions -> AnyUser]
    BY <2>1 DEF AnyUser
  <2>3. QED BY <2>1, <2>2 DEF OnlyAcceptedStarts, options
<1>6. ASSUME NEW i \in DOMAIN logouts, LogoutAnswers(i)
      PROVE  ShownInv'
  <2>1. /\ tab' = [tab EXCEPT !.user = Nobody, !.meta = Nobody, !.state = "out"]
        /\ cookie' \in {0, cookie} /\ UNCHANGED <<host, server, owner, issued, load>>
    BY <1>6 DEF LogoutAnswers
  <2>2. tab' \in Tab
    BY <2>1 DEF Tab, AnyUser
  <2>3. QED BY <1>1, <2>1, <2>2 DEF OnlyAcceptedStarts, options
<1>7. ASSUME NEW i \in DOMAIN logouts, LogoutFails(i)
      PROVE  ShownInv'
  <2>1. UNCHANGED <<host, server, owner, issued, cookie, tab, load>>
    BY <1>7 DEF LogoutFails
  <2>2. QED BY <2>1 DEF OnlyAcceptedStarts, options
<1>8. ASSUME NEW s \in Sessions, Expire(s)
      PROVE  ShownInv'
  <2>1. /\ owner' = [owner EXCEPT ![s] = Nobody]
        /\ UNCHANGED <<host, server, issued, cookie, tab, load>>
    BY <1>8 DEF Expire
  <2>2. owner' \in [Sessions -> AnyUser]
    BY <2>1 DEF AnyUser
  <2>3. QED BY <2>1, <2>2 DEF OnlyAcceptedStarts, options
<1>9. QED
  BY <1>2, <1>3, <1>4, <1>5, <1>6, <1>7, <1>8

LEMMA ShownNext == ShownInv /\ [Next]_vars => ShownInv'
<1> SUFFICES ASSUME ShownInv, [Next]_vars
             PROVE  ShownInv'
  OBVIOUS
<1> QED
  BY ShownLoads, ShownSignIn, ShownSignOut DEF Next

(* What the tab has sent, and what is counted and remembered of it.        *)
Counted ==
  /\ auth \in [mode : {"session", "external"}, logout : BOOLEAN]
  /\ server \in {"starting", "up", "failed"}
  /\ logouts \in Seq(Logout)
  /\ events \in 0..MaxEvents
  /\ doubled \in BOOLEAN /\ left \in BOOLEAN /\ botched \in BOOLEAN

LEMMA RemovedFromSeq ==
  ASSUME NEW S, NEW s \in Seq(S), NEW i \in DOMAIN s
  PROVE  RemoveAt(s, i) \in Seq(S)
<1>1. i \in 1..Len(s) /\ Len(s) \in Nat
  OBVIOUS
<1>2. /\ SubSeq(s, 1, i - 1) \in Seq(S)
      /\ SubSeq(s, i + 1, Len(s)) \in Seq(S)
  BY <1>1, SubSeqProperties
<1>3. QED BY <1>2, ConcatProperties DEF RemoveAt

LEMMA CountedNext == ShownInv /\ Counted /\ [Next]_vars => Counted'
<1> SUFFICES ASSUME ShownInv, Counted, [Next]_vars
             PROVE  Counted'
  OBVIOUS
<1>1. /\ auth' = auth
      /\ server' \in {server, "up", "failed"}
      /\ events' \in {events, events + 1} /\ (events' # events => events < MaxEvents)
  BY DEF Next, vars, Start, Open, LoadStep, LoginStep, ConfigAnswers, ServeLoad, MeAnswers,
     MetaAnswers, LoadFails, ServeLogin, LoginAnswers, Submit, LeaveToHost, OtherTab,
     ClickLogout, ServeLogout, LogoutAnswers, LogoutFails, Expire
<1>2. doubled' \in {doubled, FALSE, doubled \/ logouts # <<>>} /\ left' \in {left, TRUE, FALSE}
  BY DEF Next, vars, Start, Open, LoadStep, LoginStep, ConfigAnswers, ServeLoad, MeAnswers,
     MetaAnswers, LoadFails, ServeLogin, LoginAnswers, Submit, LeaveToHost, OtherTab,
     ClickLogout, ServeLogout, LogoutAnswers, LogoutFails, Expire
<1>8. \/ botched' \in {botched, FALSE}
      \/ \E i \in DOMAIN logouts :
           botched' = (botched \/ (logouts[i].answer = "error" /\ load.pc \in {"config", "me"}))
  BY DEF Next, vars, Start, Open, LoadStep, LoginStep, ConfigAnswers, ServeLoad, MeAnswers,
     MetaAnswers, LoadFails, ServeLogin, LoginAnswers, Submit, LeaveToHost, OtherTab,
     ClickLogout, ServeLogout, LogoutAnswers, LogoutFails, Expire
<1>3. \/ logouts' \in {logouts, <<>>}
      \/ logouts' = Append(logouts, [sent |-> cookie, answer |-> "none"])
      \/ \E i \in DOMAIN logouts : \E answer \in {"done", "error"} :
           logouts' = [logouts EXCEPT ![i].answer = answer]
      \/ \E i \in DOMAIN logouts : logouts' = RemoveAt(logouts, i)
  BY DEF Next, vars, Start, Open, LoadStep, LoginStep, ConfigAnswers, ServeLoad, MeAnswers,
     MetaAnswers, LoadFails, ServeLogin, LoginAnswers, Submit, LeaveToHost, OtherTab,
     ClickLogout, ServeLogout, LogoutAnswers, LogoutFails, Expire
<1>4. logouts' \in Seq(Logout)
  <2>1. logouts \in Seq(Logout)
    BY DEF Counted
  <2>2. [sent |-> cookie, answer |-> "none"] \in Logout
    BY DEF ShownInv, Typed, Logout
  <2>3. ASSUME NEW i \in DOMAIN logouts, NEW answer \in {"done", "error"},
               logouts' = [logouts EXCEPT ![i].answer = answer]
        PROVE  logouts' \in Seq(Logout)
    <3> DEFINE served == [logouts[i] EXCEPT !.answer = answer]
    <3>1. logouts[i] \in Logout
      BY <2>1, ElementOfSeq
    <3>2. served \in Logout
      BY <3>1 DEF Logout
    <3>3. logouts' = [logouts EXCEPT ![i] = served]
      BY <2>3
    <3> HIDE DEF served
    <3>4. QED BY <2>1, <3>2, <3>3
  <2>4. <<>> \in Seq(Logout)
    OBVIOUS
  <2>5. CASE logouts' = Append(logouts, [sent |-> cookie, answer |-> "none"])
    BY <2>1, <2>2, <2>5, AppendProperties
  <2>6. ASSUME NEW i \in DOMAIN logouts, logouts' = RemoveAt(logouts, i)
        PROVE  logouts' \in Seq(Logout)
    BY <2>1, <2>6, RemovedFromSeq
  <2>7. QED BY <1>3, <2>1, <2>3, <2>4, <2>5, <2>6
<1>5. server' \in {"starting", "up", "failed"} /\ events' \in 0..MaxEvents
  BY <1>1, BoundAssumption DEF Counted
<1>6. doubled' \in BOOLEAN /\ left' \in BOOLEAN /\ botched' \in BOOLEAN
  <2>1. doubled' \in BOOLEAN /\ left' \in BOOLEAN
    BY <1>2, Zenon DEF Counted
  <2>2. botched' \in BOOLEAN
    BY <1>8, Zenon DEF Counted
  <2>3. QED BY <2>1, <2>2
<1>7. QED
  BY <1>1, <1>4, <1>5, <1>6 DEF Counted

(* The variables of the shell keep their types: what an answer brings is a *)
(* user or nobody, a session or none, whichever loads and logouts overlap. *)
THEOREM TypeCorrect == Spec => []TypeOK
<1>1. Init => Counted
  <2> SUFFICES ASSUME Init PROVE Counted
    OBVIOUS
  <2>1. auth \in [mode : {"session", "external"}, logout : BOOLEAN]
    BY DEF Init
  <2>2. events \in 0..MaxEvents
    BY BoundAssumption DEF Init
  <2>3. logouts \in Seq(Logout)
    BY EmptySeq DEF Init
  <2>4. QED BY <2>1, <2>2, <2>3 DEF Init, Counted
<1>2. ShownInv /\ Counted => TypeOK
  BY DEF ShownInv, Typed, Counted, TypeOK, Loads
<1>3. QED
  BY ShownInit, ShownNext, CountedNext, <1>1, <1>2, PTL DEF Spec

LEMMA Shown ==
  ASSUME ShownInv, Screen = "admin"
  PROVE  /\ tab.user \in Users /\ tab.meta \in Users
         /\ options \in ModuleOptions /\ Packaged(options) /\ Accepted(options)
<1>1. load.pc # "closed" /\ tab.state = "in" /\ Nobody \notin {tab.user, tab.meta}
  BY DEF Screen, ShownInv, Typed, Tab
<1>2. tab.user \in Users /\ tab.meta \in Users
  BY <1>1 DEF ShownInv, Typed, Tab, AnyUser
<1>3. Accepted(options)
  BY <1>1 DEF ShownInv, OnlyAcceptedStarts
<1>4. options \in ModuleOptions /\ Packaged(options)
  BY HostsAssumption, PackageAssumption DEF ShownInv, Typed, options
<1>5. QED BY <1>2, <1>3, <1>4

(* Nothing is offered that the server then refuses, but the lookups of     *)
(* relations to resources that the user is not shown: what the pages of    *)
(* App.tsx link to and ask passes the checks of admin-permission.service.  *)
THEOREM OffersAreAllowed == Spec => []OfferedIsAllowed
<1>1. ShownInv => OfferedIsAllowed
  <2> SUFFICES ASSUME ShownInv, Rightful
               PROVE  LET user == Rights[tab.user]
                          meta == Meta(options, user)
                      IN \A link \in OfferedLinks(meta, user) :
                           LET route == ParseRoute(meta, link)
                           IN \A request \in PageRequests(meta, options, user, route) :
                                 \/ Allows(options, user, request)
                                 \/ request \in UnlistedLookups(meta, options, route)
    BY DEF OfferedIsAllowed
  <2>1. options \in ModuleOptions /\ Packaged(options)
    BY Shown DEF Rightful
  <2>2. QED BY <2>1, LinksGranted DEF Granted
<1>2. QED
  BY ShownInit, ShownNext, <1>1, PTL DEF Spec

(* A link opens what it names (parseRoute and the links of App.tsx), for   *)
(* extensions that the registry has accepted.                              *)
THEOREM LinksOpenPages == Spec => []LinksOpenTheirPage
<1>1. ShownInv => LinksOpenTheirPage
  <2> SUFFICES ASSUME ShownInv, Screen = "admin"
               PROVE  LinksOpenTheirPage
    BY DEF LinksOpenTheirPage
  <2> DEFINE user  == Rights[tab.meta]
             meta  == Meta(options, user)
             every == ToSet(Every(options, "pages"))
             linked == {n.slug : n \in {x \in ToSet(meta.navItems) : x.kind = "page"}}
                       \cup {w.slug : w \in {x \in ToSet(meta.widgets) : x.kind = "page-link"}}
  <2>1. options \in ModuleOptions /\ Packaged(options) /\ Accepted(options)
    BY Shown
  <2>2. ASSUME NEW slug \in linked
        PROVE  \E p \in every :
                 /\ p.slug = slug
                 /\ /\ HasPermission(user, p.read) /\ ~Own(p.route)
                    /\ \A q \in ToSet(meta.pages) \ {p} : ~Clash(q.route, p.route)
                    => ParseRoute(meta, PageHref(meta, slug)) = PageRoute(p, p.route)
    <3>1. PICK p \in every : p.slug = slug
      BY <2>1, LinkedPages
    <3>2. QED BY <2>1, <3>1, PageLinkOpens
  <2>3. ASSUME NEW p \in ToSet(meta.pages), p.screen = "detail",
               \A q \in ToSet(meta.pages) :
                 q.screen = "job" \/ ~Clash(q.route, Append(p.route, "jobs") \o <<Job>>)
        PROVE  ParseRoute(meta, Append(p.route, "jobs") \o <<Job>>).page.screen = "job"
    BY <2>1, <2>3, JobsOpen
  <2>4. ASSUME NEW r \in ToSet(meta.resources), ~Own(<<r>>),
               \A q \in ToSet(meta.pages) : ~Clash(q.route, <<r>>)
        PROVE  ParseRoute(meta, <<r>>) = ResourceRoute(r, "list", "")
    BY <2>1, <2>4, ResourceOpens
  <2> HIDE DEF user, meta, every, linked
  <2>5. QED BY <2>2, <2>3, <2>4 DEF LinksOpenTheirPage, user, meta, every, linked
<1>2. QED
  BY ShownInit, ShownNext, <1>1, PTL DEF Spec

=============================================================================
