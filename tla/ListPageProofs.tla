--------------------------- MODULE ListPageProofs ---------------------------
(***************************************************************************)
(* Theorems about ListPage, for any records, page size and number of loads *)
(* and bulk actions in flight.                                             *)
(***************************************************************************)
EXTENDS ListPage, SequenceTheorems, FiniteSetTheorems, TLAPS

-----------------------------------------------------------------------------
(* The lists of requests in flight: one is dropped, one is added, or each  *)
(* is changed where it stands.                                             *)

(* RemoveAt keeps the order of the others.                                 *)
LEMMA RemoveAtProperties ==
  ASSUME NEW S, NEW s \in Seq(S), NEW i \in 1..Len(s)
  PROVE  /\ RemoveAt(s, i) \in Seq(S)
         /\ Len(RemoveAt(s, i)) = Len(s) - 1
         /\ \A k \in 1..(Len(s) - 1) :
              RemoveAt(s, i)[k] = IF k < i THEN s[k] ELSE s[k + 1]
<1>1. Len(s) \in Nat /\ i \in Int /\ i >= 1 /\ i <= Len(s)
  BY LenProperties
<1>2. \A k \in 1..Len(s) : s[k] \in S
  BY ElementOfSeq
<1> DEFINE a == SubSeq(s, 1, i - 1)
           b == SubSeq(s, i + 1, Len(s))
<1>3. /\ a \in Seq(S) /\ Len(a) = i - 1
      /\ \A k \in 1..(i - 1) : a[k] = s[k]
  <2>1. \A k \in 1..(i - 1) : s[k] \in S
    BY <1>1, <1>2
  <2>2. /\ a \in Seq(S)
        /\ Len(a) = IF 1 <= i - 1 THEN (i - 1) - 1 + 1 ELSE 0
        /\ \A k \in 1..((i - 1) - 1 + 1) : a[k] = s[1 + k - 1]
    BY <2>1, <1>1, SubSeqProperties
  <2>3. QED BY <2>2, <1>1
<1>4. /\ b \in Seq(S) /\ Len(b) = Len(s) - i
      /\ \A k \in 1..(Len(s) - i) : b[k] = s[i + k]
  <2>1. \A k \in (i + 1)..Len(s) : s[k] \in S
    BY <1>1, <1>2
  <2>2. /\ b \in Seq(S)
        /\ Len(b) = IF i + 1 <= Len(s) THEN Len(s) - (i + 1) + 1 ELSE 0
        /\ \A k \in 1..(Len(s) - (i + 1) + 1) : b[k] = s[(i + 1) + k - 1]
    BY <2>1, <1>1, SubSeqProperties
  <2>3. QED BY <2>2, <1>1
<1> HIDE DEF a, b
<1>5. /\ a \o b \in Seq(S)
      /\ Len(a \o b) = Len(a) + Len(b)
      /\ \A k \in 1..(Len(a) + Len(b)) :
           (a \o b)[k] = IF k <= Len(a) THEN a[k] ELSE b[k - Len(a)]
  BY <1>3, <1>4, ConcatProperties
<1>6. RemoveAt(s, i) = a \o b
  BY DEF RemoveAt, a, b
<1>7. Len(RemoveAt(s, i)) = Len(s) - 1
  <2>1. Len(a) = i - 1 /\ Len(b) = Len(s) - i /\ Len(a \o b) = Len(a) + Len(b)
    BY <1>3, <1>4, <1>5
  <2>2. Len(a \o b) = Len(s) - 1
    BY <2>1, <1>1
  <2>3. QED BY <2>2, <1>6
<1>8. ASSUME NEW k \in 1..(Len(s) - 1)
      PROVE  RemoveAt(s, i)[k] = IF k < i THEN s[k] ELSE s[k + 1]
  <2>1. CASE k < i
    <3>1. k <= Len(a) /\ k \in 1..(i - 1) /\ k \in 1..(Len(a) + Len(b))
      BY <2>1, <1>1, <1>3, <1>4
    <3>2. QED BY <3>1, <2>1, <1>3, <1>5, <1>6
  <2>2. CASE ~(k < i)
    <3>1. ~(k <= Len(a)) /\ k - Len(a) \in 1..(Len(s) - i) /\ k \in 1..(Len(a) + Len(b))
      BY <2>2, <1>1, <1>3, <1>4
    <3>2. (a \o b)[k] = s[i + (k - Len(a))]
      BY <3>1, <1>4, <1>5
    <3>3. i + (k - Len(a)) = k + 1
      BY <1>1, <1>3, <2>2
    <3>4. QED BY <3>2, <3>3, <2>2, <1>6
  <2>3. QED BY <2>1, <2>2
<1>9. QED BY <1>5, <1>6, <1>7, <1>8

(* What RemoveAt leaves was there, in another place.                       *)
LEMMA RemoveAtOrigin ==
  ASSUME NEW S, NEW s \in Seq(S), NEW i \in 1..Len(s), NEW k \in 1..Len(RemoveAt(s, i))
  PROVE  \E j \in 1..Len(s) : j # i /\ RemoveAt(s, i)[k] = s[j]
<1>1. /\ Len(s) \in Nat /\ i \in Int /\ k \in 1..(Len(s) - 1)
      /\ RemoveAt(s, i)[k] = IF k < i THEN s[k] ELSE s[k + 1]
  BY LenProperties, RemoveAtProperties
<1>2. CASE k < i
  <2>1. k \in 1..Len(s) /\ k # i /\ RemoveAt(s, i)[k] = s[k]
    BY <1>1, <1>2
  <2>2. QED BY <2>1
<1>3. CASE ~(k < i)
  <2>1. k + 1 \in 1..Len(s) /\ k + 1 # i /\ RemoveAt(s, i)[k] = s[k + 1]
    BY <1>1, <1>3
  <2>2. QED BY <2>1
<1>4. QED BY <1>2, <1>3

(* What was in another place is what RemoveAt leaves.                      *)
LEMMA RemoveAtRest ==
  ASSUME NEW S, NEW s \in Seq(S), NEW i \in 1..Len(s), NEW j \in 1..Len(s), j # i
  PROVE  \E k \in 1..Len(RemoveAt(s, i)) : RemoveAt(s, i)[k] = s[j]
<1>1. /\ Len(s) \in Nat /\ i \in Int /\ j \in Int /\ Len(RemoveAt(s, i)) = Len(s) - 1
      /\ \A k \in 1..(Len(s) - 1) : RemoveAt(s, i)[k] = IF k < i THEN s[k] ELSE s[k + 1]
  BY LenProperties, RemoveAtProperties
<1>2. CASE j < i
  <2>1. j \in 1..(Len(s) - 1) /\ RemoveAt(s, i)[j] = s[j]
    BY <1>1, <1>2
  <2>2. QED BY <2>1, <1>1
<1>3. CASE ~(j < i)
  <2>1. j - 1 \in 1..(Len(s) - 1) /\ ~(j - 1 < i) /\ (j - 1) + 1 = j
    BY <1>1, <1>3
  <2>2. RemoveAt(s, i)[j - 1] = s[j]
    BY <1>1, <2>1
  <2>3. QED BY <2>1, <2>2, <1>1
<1>4. QED BY <1>2, <1>3

(* Changing each element where it stands keeps the length.                 *)
LEMMA MapProperties ==
  ASSUME NEW S, NEW T, NEW s \in Seq(S), NEW t, t = [k \in DOMAIN s |-> t[k]],
         \A k \in 1..Len(s) : t[k] \in T
  PROVE  t \in Seq(T) /\ Len(t) = Len(s) /\ DOMAIN t = 1..Len(s)
<1>1. Len(s) \in Nat /\ DOMAIN s = 1..Len(s)
  BY LenProperties
<1>2. t \in [1..Len(s) -> T]
  BY <1>1
<1>3. QED BY <1>1, <1>2, SMT

LEMMA OneElement ==
  ASSUME NEW S, NEW e \in S
  PROVE  /\ <<e>> \in Seq(S) /\ <<e>> # <<>> /\ Len(<<e>>) = 1 /\ <<e>>[1] = e
<1>1. <<e>> \in Seq(S) /\ Len(<<e>>) = 1 /\ <<e>>[1] = e
  OBVIOUS
<1>2. Len(<<>>) = 0
  BY EmptySeq
<1>3. QED BY <1>1, <1>2

LEMMA LastOfConcat ==
  ASSUME NEW S, NEW s \in Seq(S), NEW t \in Seq(S), t # <<>>
  PROVE  /\ s \o t \in Seq(S) /\ s \o t # <<>>
         /\ (s \o t)[Len(s \o t)] = t[Len(t)]
<1>1. Len(s) \in Nat /\ Len(t) \in Nat /\ Len(t) # 0
  BY EmptySeq, LenProperties
<1>2. /\ s \o t \in Seq(S) /\ Len(s \o t) = Len(s) + Len(t)
      /\ \A k \in 1..(Len(s) + Len(t)) :
           (s \o t)[k] = IF k <= Len(s) THEN s[k] ELSE t[k - Len(s)]
  BY ConcatProperties
<1> DEFINE n == Len(s) + Len(t)
<1>3. n \in 1..n /\ ~(n <= Len(s)) /\ n - Len(s) = Len(t) /\ n # 0
  BY <1>1
<1>4. (s \o t)[n] = t[Len(t)]
  BY <1>2, <1>3
<1>5. s \o t # <<>>
  BY <1>2, <1>3, EmptySeq
<1>6. QED BY <1>2, <1>4, <1>5

-----------------------------------------------------------------------------
(* What holds in every state.                                              *)

(* The query as the server takes it, and the part of it that all pages of  *)
(* a list share.                                                           *)
Filled(q) == [q EXCEPT !.filter = Effective(@)]
Whole(q)  == [q EXCEPT !.page = 1, !.filter = Effective(@)]

(* A bulk action has changed the server, and its load is to come.          *)
Pending == \E i \in 1..Len(acts) : acts[i].status = "done"

ItemsAreCurrent ==
  view.rows = Filled(view.query) /\ (~Pending => view.items = PageOf(view.query, PageSize))

TotalIsCurrent == ~Pending => view.total = Cardinality(Matching(view.query))

(* A load that will make the page current, if it is the last to answer.    *)
WillDo(load) ==
  /\ Filled(load.query) = Filled(view.query)
  /\ load.pc # "meta" => load.query = Filled(load.query)
  /\ ~Pending /\ load.pc = "items" => load.items = PageOf(view.query, PageSize)
  /\ ~Pending /\ load.pc \in {"items", "total"} =>
       load.total = Cardinality(Matching(view.query))

Ready(load) == load.excused \/ WillDo(load)

(* The rows: no load is to bring any that are out of date, or the last one *)
(* puts things right.                                                      *)
RowsAccounted ==
  \/ /\ "items" \in view.excused \/ ItemsAreCurrent
     /\ \A k \in 1..Len(loads) : loads[k].pc = "total" \/ loads[k].excused
  \/ loads # <<>> /\ loads[Len(loads)].pc # "total" /\ Ready(loads[Len(loads)])

TotalAccounted ==
  \/ /\ "total" \in view.excused \/ TotalIsCurrent
     /\ \A k \in 1..Len(loads) : loads[k].excused
  \/ loads # <<>> /\ Ready(loads[Len(loads)])

(* The selection is of the list that is shown.                             *)
Selection ==
  /\ ~view.foreign => view.origins \subseteq {Whole(view.query)}
  /\ view.all /\ ~view.foreign => view.selected = Matching(view.query) /\ ~Pending

(* So is what Select all will bring.                                       *)
PickIsWhole ==
  /\ pick # Idle => pick.query.page = 1
  /\ pick # Idle /\ ~pick.foreign =>
       /\ ~Pending
       /\ pick.pc = "sent" => pick.size = Cardinality(Matching(pick.query))
       /\ pick.pc = "read" => pick.ids = Matching(pick.query)

Inv == TypeOK /\ RowsAccounted /\ TotalAccounted /\ Selection /\ PickIsWhole

-----------------------------------------------------------------------------
(* The server's list.                                                      *)

LEMMA BeforeIsStrict ==
  ASSUME NEW order \in {"asc", "desc"}, NEW a \in Nat, NEW b \in Nat, NEW c \in Nat
  PROVE  /\ ~Before(order, a, a) /\ (a = b \/ Before(order, a, b) \/ Before(order, b, a))
         /\ Before(order, a, b) /\ Before(order, b, c) => Before(order, a, c)
BY DEF Before

(* Every set of records can be put in order: by the rank of each.          *)
LEMMA CanBeOrdered ==
  ASSUME NEW S \in SUBSET Nat, IsFiniteSet(S), NEW order \in {"asc", "desc"}
  PROVE  \E s \in [1..Cardinality(S) -> S] :
           \A a, b \in DOMAIN s : a < b => Before(order, s[a], s[b])
<1> DEFINE below(i) == {j \in S : Before(order, j, i)}
           n == Cardinality(S)
           rank == [i \in S |-> Cardinality(below(i)) + 1]
<1>1. n \in Nat
  BY FS_CardinalityType
<1>2. ASSUME NEW i \in S
      PROVE  below(i) \in SUBSET S /\ i \notin below(i)
  BY BeforeIsStrict
<1>3. ASSUME NEW i \in S
      PROVE  /\ IsFiniteSet(below(i)) /\ Cardinality(below(i)) \in Nat
             /\ Cardinality(below(i)) < n
  <2> HIDE DEF below
  <2>1. IsFiniteSet(below(i)) /\ Cardinality(below(i)) <= n
    BY <1>2, FS_Subset
  <2>2. Cardinality(below(i)) # n
    BY <1>2, FS_Subset
  <2>3. Cardinality(below(i)) \in Nat
    BY <2>1, FS_CardinalityType
  <2>4. QED BY <2>1, <2>2, <2>3, <1>1
<1>4. ASSUME NEW i \in S, NEW j \in S, Before(order, i, j)
      PROVE  Cardinality(below(i)) < Cardinality(below(j))
  <2>1. below(i) \in SUBSET below(j) /\ i \in below(j)
    BY <1>4, BeforeIsStrict
  <2>2. i \notin below(i)
    BY <1>2
  <2> HIDE DEF below
  <2>3. Cardinality(below(i)) <= Cardinality(below(j))
    BY <2>1, <1>3, FS_Subset
  <2>4. Cardinality(below(i)) # Cardinality(below(j))
    BY <2>1, <2>2, <1>3, FS_Subset
  <2>5. QED BY <2>3, <2>4, <1>3
<1>5. rank \in [S -> 1..n] /\ \A i \in S : rank[i] = Cardinality(below(i)) + 1
  <2> HIDE DEF below
  <2>1. \A i \in S : Cardinality(below(i)) + 1 \in 1..n
    BY <1>1, <1>3
  <2>2. QED BY <2>1
<1> HIDE DEF rank
<1>6. ASSUME NEW i \in S, NEW j \in S, rank[i] <= rank[j]
      PROVE  i = j \/ Before(order, i, j)
  <2>1. CASE Before(order, j, i)
    <3>1. Cardinality(below(j)) < Cardinality(below(i))
      BY <2>1, <1>4
    <3> HIDE DEF below
    <3>2. QED BY <3>1, <1>3, <1>5, <1>6
  <2>2. QED BY <2>1, BeforeIsStrict
<1>7. \A k \in 1..n : \E i \in S : rank[i] = k
  <2>1. \A i, j \in S : rank[i] = rank[j] => i = j
    <3>1. SUFFICES ASSUME NEW i \in S, NEW j \in S, rank[i] = rank[j] PROVE i = j
      OBVIOUS
    <3>2. rank[i] \in Nat /\ rank[j] \in Nat
      BY <1>1, <1>5
    <3>3. i = j \/ Before(order, i, j)
      BY <3>1, <3>2, <1>6
    <3>4. j = i \/ Before(order, j, i)
      BY <3>1, <3>2, <1>6
    <3>5. QED BY <3>3, <3>4, BeforeIsStrict
  <2>2. rank \in Injection(S, 1..n)
    BY <2>1, <1>5 DEF Injection, IsInjective
  <2>3. IsFiniteSet(1..n) /\ Cardinality(1..n) = n
    <3>1. 1 \in Int /\ n \in Int
      BY <1>1
    <3>2. IsFiniteSet(1..n) /\ Cardinality(1..n) = IF 1 > n THEN 0 ELSE n - 1 + 1
      BY <3>1, FS_Interval
    <3>3. QED BY <3>2, <1>1
  <2>4. rank \in Surjection(S, 1..n)
    BY <2>2, <2>3, FS_Injection
  <2>5. QED BY <2>4 DEF Surjection
<1> DEFINE s == [k \in 1..n |-> CHOOSE i \in S : rank[i] = k]
<1>8. s \in [1..n -> S] /\ \A k \in 1..n : rank[s[k]] = k
  BY <1>7
<1>9. \A a, b \in DOMAIN s : a < b => Before(order, s[a], s[b])
  <2> HIDE DEF s
  <2>1. SUFFICES ASSUME NEW a \in 1..n, NEW b \in 1..n, a < b PROVE Before(order, s[a], s[b])
    BY <1>8
  <2>2. s[a] \in S /\ s[b] \in S /\ rank[s[a]] = a /\ rank[s[b]] = b /\ a # b /\ a <= b
    BY <2>1, <1>1, <1>8
  <2>3. QED BY <2>2, <1>6
<1>10. QED BY <1>8, <1>9

(* What is in order has every record once.                                 *)
LEMMA OrderCovers ==
  ASSUME NEW S \in SUBSET Nat, IsFiniteSet(S), NEW order \in {"asc", "desc"},
         NEW s \in [1..Cardinality(S) -> S],
         \A a, b \in DOMAIN s : a < b => Before(order, s[a], s[b])
  PROVE  \A i \in S : \E k \in 1..Cardinality(S) : s[k] = i
<1> DEFINE n == Cardinality(S)
<1>1. n \in Nat
  BY FS_CardinalityType
<1>2. \A a, b \in 1..n : s[a] = s[b] => a = b
  <2>1. SUFFICES ASSUME NEW a \in 1..n, NEW b \in 1..n, s[a] = s[b], a # b PROVE FALSE
    OBVIOUS
  <2>2. a < b \/ b < a
    BY <2>1, <1>1
  <2>3. s[a] \in Nat /\ DOMAIN s = 1..n
    OBVIOUS
  <2>4. QED BY <2>1, <2>2, <2>3, BeforeIsStrict
<1>3. IsFiniteSet(1..n) /\ Cardinality(1..n) = n
  <2>1. 1 \in Int /\ n \in Int
    BY <1>1
  <2>2. IsFiniteSet(1..n) /\ Cardinality(1..n) = IF 1 > n THEN 0 ELSE n - 1 + 1
    BY <2>1, FS_Interval
  <2>3. QED BY <2>2, <1>1
<1>4. s \in Injection(1..n, S)
  BY <1>2 DEF Injection, IsInjective
<1>5. s \in Surjection(1..n, S)
  BY <1>3, <1>4, FS_Injection
<1>6. QED BY <1>5 DEF Surjection

LEMMA SortedCovers ==
  ASSUME NEW S \in SUBSET Ids, NEW order \in {"asc", "desc"}
  PROVE  /\ Sorted(S, order) \in Seq(Ids) /\ Len(Sorted(S, order)) = Cardinality(S)
         /\ \A k \in 1..Cardinality(S) : Sorted(S, order)[k] \in S
         /\ \A i \in S : \E k \in 1..Cardinality(S) : Sorted(S, order)[k] = i
         /\ Cardinality(S) \in 0..Cardinality(Ids)
<1>1. /\ S \in SUBSET Nat /\ IsFiniteSet(S) /\ Cardinality(S) \in Nat
      /\ Cardinality(Ids) \in Nat /\ Cardinality(S) <= Cardinality(Ids)
  BY IdsAssumption, FS_Subset, FS_CardinalityType
<1>2. \E s \in [1..Cardinality(S) -> S] :
        \A a, b \in DOMAIN s : a < b => Before(order, s[a], s[b])
  BY <1>1, CanBeOrdered
<1>3. /\ Sorted(S, order) \in [1..Cardinality(S) -> S]
      /\ \A a, b \in DOMAIN Sorted(S, order) :
           a < b => Before(order, Sorted(S, order)[a], Sorted(S, order)[b])
  BY <1>2 DEF Sorted
<1>4. \A i \in S : \E k \in 1..Cardinality(S) : Sorted(S, order)[k] = i
  BY <1>1, <1>3, OrderCovers
<1>5. Sorted(S, order) \in [1..Cardinality(S) -> Ids]
  BY <1>3
<1>6. Sorted(S, order) \in Seq(Ids) /\ Len(Sorted(S, order)) = Cardinality(S)
  BY <1>1, <1>5
<1>7. QED BY <1>1, <1>3, <1>4, <1>6

LEMMA MatchingType ==
  ASSUME NEW q \in Queries
  PROVE  Matching(q) \in SUBSET Ids /\ Cardinality(Matching(q)) \in 0..Cardinality(Ids)
<1>1. Matching(q) \in SUBSET Ids
  BY DEF Matching
<1>2. QED BY <1>1, SortedCovers

(* A page is a part of the list, and the first one, if it is long enough,  *)
(* all of it.                                                              *)
LEMMA PageOfProperties ==
  ASSUME NEW q \in Queries, NEW size \in Nat
  PROVE  /\ PageOf(q, size) \in Seq(Ids) /\ ToSet(PageOf(q, size)) \subseteq Matching(q)
         /\ q.page = 1 /\ size = Cardinality(Matching(q)) =>
              ToSet(PageOf(q, size)) = Matching(q)
<1> DEFINE s == Ordered(q)
           n == Cardinality(Matching(q))
           first == (q.page - 1) * size + 1
           last  == IF q.page * size < Len(s) THEN q.page * size ELSE Len(s)
           page  == PageOf(q, size)
<1>1. Matching(q) \in SUBSET Ids /\ q.order \in {"asc", "desc"} /\ q.page \in Nat \ {0}
  BY MatchingType DEF Queries
<1>2. /\ s \in Seq(Ids) /\ Len(s) = n /\ n \in Nat
      /\ \A k \in 1..n : s[k] \in Matching(q)
      /\ \A i \in Matching(q) : \E k \in 1..n : s[k] = i
  <2>1. s = Sorted(Matching(q), q.order)
    BY DEF Ordered
  <2>2. n \in Nat
    BY <1>1, IdsAssumption, FS_Subset, FS_CardinalityType
  <2> HIDE DEF s
  <2> DEFINE S == Matching(q)
             order == q.order
  <2>3. S \in SUBSET Ids /\ order \in {"asc", "desc"} /\ n = Cardinality(S)
    BY <1>1
  <2> HIDE DEF S, order, n
  <2>4. /\ Sorted(S, order) \in Seq(Ids) /\ Len(Sorted(S, order)) = Cardinality(S)
        /\ \A k \in 1..Cardinality(S) : Sorted(S, order)[k] \in S
        /\ \A i \in S : \E k \in 1..Cardinality(S) : Sorted(S, order)[k] = i
    BY <2>3, SortedCovers
  <2>5. s = Sorted(S, order)
    BY <2>1 DEF S, order
  <2>6. QED BY <2>2, <2>3, <2>4, <2>5 DEF S
<1> HIDE DEF s, n
<1>3. (q.page - 1) * size \in Nat /\ q.page * size \in Nat
  BY <1>1
<1>4. first \in Int /\ last \in Int /\ first >= 1 /\ last <= n
  BY <1>2, <1>3
<1>5. page = SubSeq(s, first, last)
  BY DEF PageOf, Slice, s
<1> HIDE DEF first, last, page
<1>6. \A k \in first..last : s[k] \in Matching(q) /\ s[k] \in Ids
  BY <1>1, <1>2, <1>4
<1>7. /\ page \in Seq(Ids) /\ Len(page) = IF first <= last THEN last - first + 1 ELSE 0
      /\ \A k \in 1..(last - first + 1) : page[k] = s[first + k - 1]
  BY <1>4, <1>5, <1>6, SubSeqProperties
<1>8. DOMAIN page = 1..(last - first + 1)
  BY <1>4, <1>7, LenProperties
<1>9. ToSet(page) \subseteq Matching(q)
  <2>1. ASSUME NEW k \in 1..(last - first + 1)
        PROVE  page[k] \in Matching(q)
    <3>1. first + k - 1 \in first..last
      BY <1>4
    <3>2. QED BY <3>1, <1>6, <1>7
  <2>2. QED BY <2>1, <1>8 DEF ToSet
<1>10. ASSUME q.page = 1, size = n
       PROVE  Matching(q) \subseteq ToSet(page)
  <2>1. first = 1 /\ last = n
    BY <1>2, <1>10 DEF first, last
  <2>2. ASSUME NEW i \in Matching(q)
        PROVE  i \in ToSet(page)
    <3>1. PICK k \in 1..n : s[k] = i
      BY <1>2
    <3>2. k \in DOMAIN page /\ page[k] = s[k]
      BY <2>1, <1>2, <1>7, <1>8
    <3>3. QED BY <3>1, <3>2 DEF ToSet
  <2>3. QED BY <2>2
<1>11. QED BY <1>7, <1>9, <1>10 DEF page, n

(* What the server answers depends on the query as it is filled in.        *)
LEMMA SameAnswer ==
  ASSUME NEW q \in Queries, NEW r \in Queries
  PROVE  /\ Whole(q) = Whole(r) => Matching(q) = Matching(r)
         /\ Filled(q) = Filled(r) =>
              Whole(q) = Whole(r) /\ \A size \in Nat : PageOf(q, size) = PageOf(r, size)
<1>1. ASSUME Whole(q) = Whole(r)
      PROVE  Matching(q) = Matching(r)
  <2>1. Effective(q.filter) = Effective(r.filter) /\ q.search = r.search
    BY <1>1 DEF Whole, Queries
  <2>2. QED BY <2>1 DEF Matching
<1>2. ASSUME Filled(q) = Filled(r)
      PROVE  Whole(q) = Whole(r) /\ \A size \in Nat : PageOf(q, size) = PageOf(r, size)
  <2>1. /\ Effective(q.filter) = Effective(r.filter) /\ q.search = r.search
        /\ q.order = r.order /\ q.page = r.page
    BY <1>2 DEF Filled, Queries
  <2>2. Whole(q) = Whole(r)
    BY <2>1 DEF Whole, Queries
  <2>3. QED BY <2>1, <2>2, <1>1 DEF PageOf, Ordered
<1>3. QED BY <1>1, <1>2

LEMMA Fillings ==
  ASSUME NEW q \in Queries
  PROVE  /\ Filled(q) \in Queries /\ Filled(Filled(q)) = Filled(q)
         /\ Filled(q).page = q.page /\ Whole(Filled(q)) = Whole(q)
         /\ Effective(q.filter) \in FilterValues
BY DEF Filled, Whole, Queries, FilterValues, Effective

(* The server answers alike while it has not changed.                      *)
LEMMA SameServer ==
  ASSUME UNCHANGED state, NEW q
  PROVE  Matching(q)' = Matching(q) /\ \A size : PageOf(q, size)' = PageOf(q, size)
<1>1. Matching(q)' = Matching(q)
  BY DEF Matching, Visible
<1>2. QED BY <1>1 DEF PageOf, Ordered

-----------------------------------------------------------------------------
(* What most steps do to the parts of the invariant.                       *)

LEMMA Elements ==
  ASSUME TypeOK
  PROVE  /\ loads \in Seq(Load) /\ Len(loads) \in Nat /\ DOMAIN loads = 1..Len(loads)
         /\ \A k \in 1..Len(loads) : loads[k] \in Load /\ loads[k].query \in Queries
         /\ Len(acts) \in Nat /\ DOMAIN acts = 1..Len(acts)
         /\ view \in View /\ view.query \in Queries /\ view.rows \in Queries
         /\ loads # <<>> => Len(loads) \in 1..Len(loads)
<1>1. /\ loads \in Seq(Load) /\ Len(loads) \in Nat /\ DOMAIN loads = 1..Len(loads)
      /\ \A k \in 1..Len(loads) : loads[k] \in Load
  BY LenProperties, ElementOfSeq DEF TypeOK
<1>2. \A k \in 1..Len(loads) : loads[k].query \in Queries
  BY <1>1 DEF Load
<1>3. Len(acts) \in Nat /\ DOMAIN acts = 1..Len(acts)
  BY LenProperties DEF TypeOK
<1>4. view \in View /\ view.query \in Queries /\ view.rows \in Queries
  BY DEF TypeOK, View
<1>5. loads # <<>> => Len(loads) \in 1..Len(loads)
  BY <1>1, EmptySeq
<1>6. QED BY <1>1, <1>2, <1>3, <1>4, <1>5

(* A step that changes neither what is shown nor what is under way.        *)
LEMMA AccountedKept ==
  ASSUME RowsAccounted, TotalAccounted, UNCHANGED <<state, loads>>, Pending => Pending',
         view'.query = view.query, view'.rows = view.rows, view'.items = view.items,
         view'.total = view.total, view'.excused = view.excused
  PROVE  RowsAccounted' /\ TotalAccounted'
<1>1. /\ Matching(view.query)' = Matching(view.query)
      /\ PageOf(view.query, PageSize)' = PageOf(view.query, PageSize)
  BY DEF Matching, Visible, PageOf, Ordered
<1>2. \A k \in 1..Len(loads) : Ready(loads[k]) => Ready(loads[k])'
  BY <1>1 DEF Ready, WillDo
<1>3. Ready(loads[Len(loads)]) => Ready(loads[Len(loads)])'
  BY <1>1 DEF Ready, WillDo
<1>4. /\ ItemsAreCurrent => ItemsAreCurrent'
      /\ TotalIsCurrent => TotalIsCurrent'
  BY <1>1 DEF ItemsAreCurrent, TotalIsCurrent
<1>5. QED BY <1>2, <1>3, <1>4 DEF RowsAccounted, TotalAccounted

(* A load of the page's query that is added last.                          *)
LEMMA AddedAccounts ==
  ASSUME loads' # <<>>, loads'[Len(loads')].pc = "meta",
         \/ loads'[Len(loads')].excused
         \/ Filled(loads'[Len(loads')].query) = Filled(view'.query)
  PROVE  RowsAccounted' /\ TotalAccounted'
BY DEF RowsAccounted, TotalAccounted, Ready, WillDo

LEMMA ShownProperties ==
  ASSUME TypeOK, NEW q \in Queries
  PROVE  /\ Shown(q) \in View
         /\ Shown(q).query = IF SamePart(q, view.query) THEN q ELSE [q EXCEPT !.page = 1]
         /\ Shown(q).rows = view.rows /\ Shown(q).items = view.items
         /\ Shown(q).total = view.total /\ Shown(q).excused = view.excused
         /\ IF SamePart(q, view.query)
              THEN /\ Shown(q).origins = view.origins /\ Shown(q).selected = view.selected
                   /\ Shown(q).all = view.all /\ Shown(q).foreign = view.foreign
              ELSE Shown(q).origins = {} /\ Shown(q).all = FALSE
<1>1. view \in View
  BY DEF TypeOK
<1>2. [q EXCEPT !.page = 1] \in Queries
  BY DEF Queries
<1>3. CASE SamePart(q, view.query)
  <2>1. Shown(q) = [view EXCEPT !.query = q]
    BY <1>3 DEF Shown
  <2>2. QED BY <2>1, <1>1, <1>3 DEF View
<1>4. CASE ~SamePart(q, view.query)
  <2>1. Shown(q) = [view EXCEPT !.selected = {}, !.all = FALSE, !.foreign = FALSE,
                                !.origins = {}, !.query = [q EXCEPT !.page = 1]]
    BY <1>1, <1>4 DEF Shown, Unselected
  <2> DEFINE r == [q EXCEPT !.page = 1]
  <2>2. r \in Queries
    BY <1>2
  <2> HIDE DEF r
  <2>3. Shown(q) = [view EXCEPT !.selected = {}, !.all = FALSE, !.foreign = FALSE,
                                !.origins = {}, !.query = r]
    BY <2>1 DEF r
  <2>4. /\ Shown(q) \in View /\ Shown(q).query = r
        /\ Shown(q).rows = view.rows /\ Shown(q).items = view.items
        /\ Shown(q).total = view.total /\ Shown(q).excused = view.excused
        /\ Shown(q).origins = {} /\ Shown(q).all = FALSE
    BY <2>2, <2>3, <1>1 DEF View
  <2>5. QED BY <2>4, <1>4 DEF r
<1>5. QED BY <1>3, <1>4

LEMMA SamePartWhole ==
  ASSUME NEW q \in Queries, NEW r \in Queries
  PROVE  SamePart(q, r) => Whole(q) = Whole(r) /\ Matching(q) = Matching(r)
<1>1. ASSUME SamePart(q, r) PROVE Whole(q) = Whole(r)
  <2>1. q.filter = r.filter /\ q.search = r.search /\ q.order = r.order
    BY <1>1 DEF SamePart, Queries
  <2>2. QED BY <2>1 DEF Whole, Queries
<1>2. QED BY <1>1, SameAnswer

(* A new query clears the selection, or is the same but for the page.      *)
LEMMA SelectionShown ==
  ASSUME TypeOK, Selection, NEW q \in Queries, UNCHANGED <<state, acts>>,
         view'.query = Shown(q).query, view'.selected = Shown(q).selected,
         view'.all = Shown(q).all, view'.foreign = Shown(q).foreign,
         view'.origins = Shown(q).origins
  PROVE  Selection'
<1>1. Matching(q)' = Matching(q) /\ Pending' = Pending
  BY DEF Matching, Visible, Pending
<1>2. CASE SamePart(q, view.query)
  <2>1. /\ view'.query = q /\ view'.origins = view.origins /\ view'.selected = view.selected
        /\ view'.all = view.all /\ view'.foreign = view.foreign
    BY <1>2, ShownProperties
  <2>2. Whole(q) = Whole(view.query) /\ Matching(q) = Matching(view.query)
    BY <1>2, SamePartWhole, Elements
  <2>3. Matching(view.query)' = Matching(q)
    BY <2>1 DEF Matching, Visible
  <2>4. QED BY <2>1, <2>2, <2>3, <1>1 DEF Selection
<1>3. CASE ~SamePart(q, view.query)
  <2>1. view'.origins = {} /\ view'.all = FALSE
    BY <1>3, ShownProperties
  <2>2. QED BY <2>1 DEF Selection
<1>4. QED BY <1>2, <1>3

LEMMA StartedProperties ==
  ASSUME TypeOK, NEW q \in Queries
  PROVE  /\ Started(q) \in Seq(Load)
         /\ q = view.query => Started(q) = <<>>
         /\ q # view.query =>
              /\ Started(q) # <<>>
              /\ Started(q)[Len(Started(q))].pc = "meta"
              /\ Started(q)[Len(Started(q))].query = Shown(q).query
<1> DEFINE again == [q EXCEPT !.page = 1]
           a == LoadOf(q, FALSE)
           b == LoadOf(again, FALSE)
<1>1. again \in Queries /\ (q.page = 1 => again = q)
  BY DEF Queries
<1>2. a \in Load /\ b \in Load /\ a.pc = "meta" /\ b.pc = "meta" /\ a.query = q /\ b.query = again
  <2>1. <<>> \in Seq(Ids) /\ 0 \in 0..Cardinality(Ids)
    BY EmptySeq, IdsAssumption, FS_CardinalityType
  <2>2. QED BY <1>1, <2>1 DEF LoadOf, Load
<1>3. Shown(q).query = IF SamePart(q, view.query) THEN q ELSE again
  BY ShownProperties
<1> HIDE DEF a, b, again
<1>4. <<a>> \in Seq(Load) /\ <<b>> \in Seq(Load) /\ <<>> \in Seq(Load)
      /\ <<a>> # <<>> /\ <<b>> # <<>> /\ Len(<<a>>) = 1 /\ <<a>>[1] = a
      /\ Len(<<b>>) = 1 /\ <<b>>[1] = b
  BY <1>2, OneElement, EmptySeq
<1>5. CASE q = view.query
  BY <1>4, <1>5 DEF Started
<1>6. CASE q # view.query /\ (SamePart(q, view.query) \/ q.page = 1)
  <2>1. Started(q) = <<a>> \o <<>>
    BY <1>6 DEF Started, a
  <2>2. Started(q) = <<a>>
    BY <2>1, <1>4, ConcatEmptySeq
  <2>3. QED BY <2>2, <1>1, <1>2, <1>3, <1>4, <1>6
<1>7. CASE q # view.query /\ ~(SamePart(q, view.query) \/ q.page = 1)
  <2>1. Started(q) = <<a>> \o <<b>>
    BY <1>7 DEF Started, a, b, again
  <2>2. /\ Started(q) \in Seq(Load) /\ Started(q) # <<>>
        /\ Started(q)[Len(Started(q))] = b
    BY <2>1, <1>4, LastOfConcat
  <2>3. QED BY <2>2, <1>2, <1>3, <1>7
<1>8. QED BY <1>5, <1>6, <1>7

(* When the query changes, the last load is of the new one.                *)
LEMMA ShowAccounts ==
  ASSUME TypeOK, NEW base \in Seq(Load), NEW q \in Queries, q # view.query,
         loads' = base \o Started(q), view'.query = Shown(q).query
  PROVE  loads' \in Seq(Load) /\ RowsAccounted' /\ TotalAccounted'
<1> DEFINE new == Started(q)
<1>1. /\ new \in Seq(Load) /\ new # <<>>
      /\ new[Len(new)].pc = "meta" /\ new[Len(new)].query = Shown(q).query
  BY StartedProperties
<1> HIDE DEF new
<1>2. loads' = base \o new
  BY DEF new
<1>3. loads' \in Seq(Load) /\ loads' # <<>> /\ loads'[Len(loads')] = new[Len(new)]
  BY <1>1, <1>2, LastOfConcat
<1>4. QED BY <1>1, <1>3, AddedAccounts

(* A step of a load, before its answer is shown.                           *)
LEMMA LoadSteps ==
  ASSUME Inv, NEW i \in 1..Len(loads), NEW load \in Load, loads' = [loads EXCEPT ![i] = load],
         loads[i].pc # "total", load.pc # "total", load.excused = loads[i].excused,
         WillDo(loads[i]) => WillDo(load), UNCHANGED <<state, acts>>,
         view'.query = view.query, view'.rows = view.rows, view'.items = view.items,
         view'.total = view.total, view'.excused = view.excused
  PROVE  loads' \in Seq(Load) /\ RowsAccounted' /\ TotalAccounted'
<1>1. /\ loads \in Seq(Load) /\ Len(loads) \in Nat
      /\ (loads # <<>> => Len(loads) \in 1..Len(loads))
  BY Elements DEF Inv
<1>2. /\ loads' \in Seq(Load) /\ Len(loads') = Len(loads)
      /\ \A k \in 1..Len(loads) : loads'[k] = IF k = i THEN load ELSE loads[k]
  BY <1>1, ExceptSeq
<1>3. /\ Matching(view.query)' = Matching(view.query)
      /\ PageOf(view.query, PageSize)' = PageOf(view.query, PageSize)
      /\ Pending' = Pending
  BY DEF Matching, Visible, PageOf, Ordered, Pending
<1>4. loads # <<>> => loads' # <<>> /\ (Ready(loads[Len(loads)]) => Ready(loads[Len(loads)])')
  <2>1. SUFFICES ASSUME loads # <<>>
                 PROVE  loads' # <<>> /\ (Ready(loads[Len(loads)]) => Ready(loads[Len(loads)])')
    OBVIOUS
  <2>2. Len(loads) \in 1..Len(loads) /\ loads' # <<>>
    BY <2>1, <1>1, <1>2, EmptySeq
  <2>3. CASE i = Len(loads)
    <3>1. loads'[Len(loads')] = load
      BY <2>2, <2>3, <1>2
    <3>2. Ready(loads[Len(loads)]) => load.excused \/ WillDo(load)
      BY <2>3 DEF Ready
    <3>3. QED BY <2>2, <3>1, <3>2, <1>3 DEF Ready, WillDo
  <2>4. CASE i # Len(loads)
    <3>1. loads'[Len(loads')] = loads[Len(loads)]
      BY <2>2, <2>4, <1>2
    <3>2. QED BY <2>2, <3>1, <1>3 DEF Ready, WillDo
  <2>5. QED BY <2>3, <2>4
<1>5. ItemsAreCurrent' = ItemsAreCurrent /\ TotalIsCurrent' = TotalIsCurrent
  BY <1>3 DEF ItemsAreCurrent, TotalIsCurrent
<1>6. RowsAccounted'
  <2>1. CASE \A k \in 1..Len(loads) : loads[k].pc = "total" \/ loads[k].excused
    <3>1. \A k \in 1..Len(loads') : loads'[k].pc = "total" \/ loads'[k].excused
      BY <2>1, <1>2
    <3>2. CASE "items" \in view.excused \/ ItemsAreCurrent
      BY <3>1, <3>2, <1>5 DEF RowsAccounted
    <3>3. QED BY <3>2, <2>1, <1>1, <1>2, <1>4 DEF Inv, RowsAccounted
  <2>2. CASE loads # <<>> /\ loads[Len(loads)].pc # "total" /\ Ready(loads[Len(loads)])
    <3>1. loads'[Len(loads')].pc # "total"
      BY <2>2, <1>1, <1>2
    <3>2. QED BY <2>2, <3>1, <1>2, <1>4 DEF RowsAccounted
  <2>3. QED BY <2>1, <2>2 DEF Inv, RowsAccounted
<1>7. TotalAccounted'
  <2>1. CASE \A k \in 1..Len(loads) : loads[k].excused
    <3>1. \A k \in 1..Len(loads') : loads'[k].excused
      BY <2>1, <1>2
    <3>2. CASE "total" \in view.excused \/ TotalIsCurrent
      BY <3>1, <3>2, <1>5 DEF TotalAccounted
    <3>3. QED BY <3>2, <1>2, <1>4 DEF Inv, TotalAccounted
  <2>2. CASE loads # <<>> /\ Ready(loads[Len(loads)])
    BY <2>2, <1>2, <1>4 DEF TotalAccounted
  <2>3. QED BY <2>1, <2>2 DEF Inv, TotalAccounted
<1>8. QED BY <1>2, <1>6, <1>7

LEMMA PickKept ==
  ASSUME PickIsWhole, UNCHANGED <<state, pick, acts>>
  PROVE  PickIsWhole'
<1>1. Matching(pick.query)' = Matching(pick.query) /\ Pending' = Pending
  BY DEF Matching, Visible, Pending
<1>2. QED BY <1>1 DEF PickIsWhole

LEMMA SelectionKept ==
  ASSUME Selection, UNCHANGED <<state, acts>>, view'.query = view.query,
         view'.selected = view.selected, view'.all = view.all,
         view'.foreign = view.foreign, view'.origins = view.origins
  PROVE  Selection'
<1>1. Matching(view.query)' = Matching(view.query) /\ Pending' = Pending
  BY DEF Matching, Visible, Pending
<1>2. QED BY <1>1 DEF Selection

-----------------------------------------------------------------------------
(* The steps of a load.                                                    *)

LEMMA MetaArrivesInv ==
  ASSUME Inv, clicks' \in 0..MaxClicks, NEW i \in 1..Len(loads), MetaArrives(i)
  PROVE  Inv'
<1> DEFINE load    == loads[i]
           default == load.query.filter = "" /\ view.query.filter = ""
           q       == IF default THEN [view.query EXCEPT !.filter = "active"] ELSE view.query
           filled  == [load EXCEPT !.pc = "list", !.query = Filled(load.query)]
           base    == [loads EXCEPT ![i] = filled]
<1>1. /\ TypeOK /\ loads \in Seq(Load) /\ load \in Load /\ load.query \in Queries
      /\ view \in View /\ view.query \in Queries /\ load.pc = "meta"
  BY Elements DEF Inv, MetaArrives
<1>2. q \in Queries /\ (default => q # view.query)
  BY <1>1 DEF Queries, FilterValues
<1>3. /\ filled \in Load /\ filled.pc = "list" /\ filled.query = Filled(load.query)
      /\ filled.excused = load.excused
  <2>1. Filled(load.query) \in Queries
    BY <1>1, Fillings
  <2>2. QED BY <2>1, <1>1 DEF Load
<1>4. UNCHANGED <<state, pick, acts>>
  BY DEF MetaArrives
<1>5. loads' = base \o Started(q)
  <2>1. [loads EXCEPT ![i].pc = "list", ![i].query = Filled(loads[i].query)] = base
    BY <1>1, Elements
  <2>2. QED BY <2>1 DEF MetaArrives, Filled
<1>6. base \in Seq(Load)
  BY <1>1, <1>3, ExceptSeq
<1>7. view' = [Shown(q) EXCEPT !.screen = IF @ = "loading" THEN "list" ELSE @]
  BY DEF MetaArrives
<1>8. Shown(q) \in View
  BY <1>1, <1>2, ShownProperties
<1>9. /\ view' \in View /\ view'.query = Shown(q).query /\ view'.rows = Shown(q).rows
      /\ view'.items = Shown(q).items /\ view'.total = Shown(q).total
      /\ view'.excused = Shown(q).excused /\ view'.selected = Shown(q).selected
      /\ view'.all = Shown(q).all /\ view'.foreign = Shown(q).foreign
      /\ view'.origins = Shown(q).origins
  BY <1>7, <1>8 DEF View
<1> HIDE DEF q, base
<1>10. Selection' /\ PickIsWhole'
  BY <1>1, <1>2, <1>4, <1>9, SelectionShown, PickKept DEF Inv
<1>11. loads' \in Seq(Load) /\ RowsAccounted' /\ TotalAccounted'
  <2>1. CASE q # view.query
    BY <2>1, <1>1, <1>2, <1>5, <1>6, <1>9, ShowAccounts
  <2>2. CASE q = view.query
    <3>1. Started(q) = <<>>
      BY <2>2, <1>1, <1>2, StartedProperties
    <3>2. loads' = [loads EXCEPT ![i] = filled]
      BY <3>1, <1>5, <1>6, ConcatEmptySeq DEF base
    <3>3. SamePart(q, view.query)
      BY <2>2 DEF SamePart
    <3>4. /\ view'.query = view.query /\ view'.rows = view.rows /\ view'.items = view.items
          /\ view'.total = view.total /\ view'.excused = view.excused
      BY <2>2, <3>3, <1>1, <1>2, <1>9, ShownProperties
    <3>5. WillDo(load) => WillDo(filled)
      BY <1>1, <1>3, Fillings DEF WillDo
    <3> HIDE DEF filled
    <3>6. QED BY <3>2, <3>4, <3>5, <1>1, <1>3, <1>4, LoadSteps
  <2>3. QED BY <2>1, <2>2
<1>12. TypeOK'
  BY <1>1, <1>4, <1>9, <1>11 DEF TypeOK
<1>13. QED BY <1>10, <1>11, <1>12 DEF Inv

LEMMA ListReadsInv ==
  ASSUME Inv, clicks' \in 0..MaxClicks, NEW i \in 1..Len(loads), ListReads(i)
  PROVE  Inv'
<1> DEFINE load  == loads[i]
           items == PageOf(load.query, PageSize)
           total == Cardinality(Matching(load.query))
           read  == [load EXCEPT !.pc = "items", !.items = items, !.total = total]
<1>1. /\ TypeOK /\ loads \in Seq(Load) /\ load \in Load /\ load.query \in Queries
      /\ view.query \in Queries /\ load.pc = "list"
  BY Elements DEF Inv, ListReads
<1>2. items \in Seq(Ids) /\ total \in 0..Cardinality(Ids)
  <2>1. PageSize \in Nat
    BY BoundAssumption
  <2>2. QED BY <2>1, <1>1, PageOfProperties, MatchingType
<1>3. loads' = [loads EXCEPT ![i] = read]
  BY <1>1, Elements DEF ListReads
<1>4. WillDo(load) => items = PageOf(view.query, PageSize)
                      /\ total = Cardinality(Matching(view.query))
  <2>1. PageSize \in Nat
    BY BoundAssumption
  <2>2. QED BY <2>1, <1>1, SameAnswer DEF WillDo
<1> HIDE DEF items, total
<1>5. /\ read \in Load /\ read.pc = "items" /\ read.query = load.query
      /\ read.excused = load.excused /\ read.items = items /\ read.total = total
  BY <1>1, <1>2 DEF Load
<1>6. WillDo(load) => WillDo(read)
  BY <1>1, <1>4, <1>5 DEF WillDo
<1>7. UNCHANGED <<state, view, pick, acts>>
  BY DEF ListReads
<1> HIDE DEF read
<1>8. loads' \in Seq(Load) /\ RowsAccounted' /\ TotalAccounted'
  BY <1>1, <1>3, <1>5, <1>6, <1>7, LoadSteps
<1>9. Selection' /\ PickIsWhole'
  BY <1>7, SelectionKept, PickKept DEF Inv
<1>10. TypeOK'
  BY <1>1, <1>7, <1>8 DEF TypeOK
<1>11. QED BY <1>8, <1>9, <1>10 DEF Inv

LEMMA OvertakenProperties ==
  ASSUME TypeOK, NEW i \in 1..Len(loads)
  PROVE  /\ Overtaken(i) \in Seq(Load) /\ Len(Overtaken(i)) = Len(loads)
         /\ \A k \in 1..Len(loads) :
              /\ k < i => Overtaken(i)[k] = [loads[k] EXCEPT !.excused = TRUE]
              /\ k < i => Overtaken(i)[k].excused
              /\ ~(k < i) => Overtaken(i)[k] = loads[k]
<1>1. /\ Len(loads) \in Nat /\ DOMAIN loads = 1..Len(loads)
      /\ \A k \in 1..Len(loads) : loads[k] \in Load
  BY Elements
<1>2. \A k \in 1..Len(loads) :
        [loads[k] EXCEPT !.excused = TRUE] \in Load /\ [loads[k] EXCEPT !.excused = TRUE].excused
  <2>1. ASSUME NEW k \in 1..Len(loads)
        PROVE  [loads[k] EXCEPT !.excused = TRUE] \in Load /\ [loads[k] EXCEPT !.excused = TRUE].excused
    BY <1>1 DEF Load
  <2>2. QED BY <2>1
<1>3. \A k \in 1..Len(loads) :
        Overtaken(i)[k] = IF k < i THEN [loads[k] EXCEPT !.excused = TRUE] ELSE loads[k]
  BY <1>1 DEF Overtaken
<1>4. Overtaken(i) \in [1..Len(loads) -> Load]
  BY <1>1, <1>2 DEF Overtaken
<1>5. Overtaken(i) \in Seq(Load) /\ Len(Overtaken(i)) = Len(loads)
  BY <1>1, <1>4
<1>6. QED BY <1>2, <1>3, <1>5

(* A load that ends leaves the last one the last, or nothing but loads     *)
(* that are excused.                                                       *)
LEMMA LoadEnds ==
  ASSUME TypeOK, NEW i \in 1..Len(loads), loads' = RemoveAt(Overtaken(i), i)
  PROVE  /\ loads' \in Seq(Load)
         /\ i = Len(loads) => \A k \in 1..Len(loads') : loads'[k].excused
         /\ i # Len(loads) => loads' # <<>> /\ loads'[Len(loads')] = loads[Len(loads)]
         /\ \A k \in 1..Len(loads') : \E j \in 1..Len(loads) :
              loads'[k].excused \/ loads'[k] = loads[j]
<1> DEFINE marked == Overtaken(i)
<1>1. Len(loads) \in Nat /\ i >= 1 /\ i <= Len(loads) /\ i \in Nat
  BY Elements
<1>2. /\ marked \in Seq(Load) /\ Len(marked) = Len(loads)
      /\ \A k \in 1..Len(loads) :
           /\ k < i => marked[k].excused
           /\ ~(k < i) => marked[k] = loads[k]
  BY OvertakenProperties
<1>3. loads' = RemoveAt(marked, i)
  OBVIOUS
<1> HIDE DEF marked
<1>4. /\ loads' \in Seq(Load) /\ Len(loads') = Len(loads) - 1
      /\ \A k \in 1..(Len(loads) - 1) :
           loads'[k] = IF k < i THEN marked[k] ELSE marked[k + 1]
  <2>1. i \in 1..Len(marked)
    BY <1>2
  <2>2. /\ RemoveAt(marked, i) \in Seq(Load)
        /\ Len(RemoveAt(marked, i)) = Len(marked) - 1
        /\ \A k \in 1..(Len(marked) - 1) :
             RemoveAt(marked, i)[k] = IF k < i THEN marked[k] ELSE marked[k + 1]
    BY <2>1, <1>2, RemoveAtProperties
  <2>3. QED BY <2>2, <1>2, <1>3
<1>5. ASSUME i = Len(loads), NEW k \in 1..Len(loads')
      PROVE  loads'[k].excused
  <2>1. k \in 1..(Len(loads) - 1) /\ k < i /\ k \in 1..Len(loads)
    BY <1>1, <1>4, <1>5
  <2>2. QED BY <2>1, <1>2, <1>4
<1>6. ASSUME i # Len(loads)
      PROVE  loads' # <<>> /\ loads'[Len(loads')] = loads[Len(loads)]
  <2> DEFINE last == Len(loads) - 1
  <2>1. /\ last \in 1..(Len(loads) - 1) /\ ~(last < i) /\ last + 1 = Len(loads) /\ last > 0
        /\ ~(Len(loads) < i) /\ Len(loads) \in 1..Len(loads)
    BY <1>1, <1>6
  <2>2. Len(loads') = last
    BY <1>4
  <2> HIDE DEF last
  <2>3. loads'[last] = loads[Len(loads)]
    BY <2>1, <1>2, <1>4
  <2>4. QED BY <2>1, <2>2, <2>3, EmptySeq
<1>7. ASSUME NEW k \in 1..Len(loads')
      PROVE  \E j \in 1..Len(loads) : loads'[k].excused \/ loads'[k] = loads[j]
  <2>1. k \in 1..(Len(loads) - 1) /\ k \in 1..Len(loads) /\ k + 1 \in 1..Len(loads)
    BY <1>1, <1>4
  <2>2. CASE k < i
    BY <2>1, <2>2, <1>2, <1>4
  <2>3. CASE ~(k < i)
    <3>1. ~(k + 1 < i)
      BY <2>1, <2>3, <1>1
    <3>2. QED BY <2>1, <2>3, <3>1, <1>2, <1>4
  <2>4. QED BY <2>2, <2>3
<1>8. QED BY <1>4, <1>5, <1>6, <1>7

LEMMA ItemsArriveInv ==
  ASSUME Inv, clicks' \in 0..MaxClicks, NEW i \in 1..Len(loads), ItemsArrive(i)
  PROVE  Inv'
<1> DEFINE load == loads[i]
           ended == [load EXCEPT !.pc = "total"]
           marked == Overtaken(i)
<1>1. /\ TypeOK /\ loads \in Seq(Load) /\ load \in Load /\ load.query \in Queries
      /\ view \in View /\ load.pc = "items" /\ Len(loads) \in 1..Len(loads)
      /\ Len(loads) \in Nat /\ loads # <<>>
  BY Elements, EmptySeq DEF Inv, ItemsArrive
<1>2. /\ marked \in Seq(Load) /\ Len(marked) = Len(loads)
      /\ \A k \in 1..Len(loads) :
           (k < i => marked[k].excused) /\ (~(k < i) => marked[k] = loads[k])
  BY <1>1, OvertakenProperties
<1>3. /\ ended \in Load /\ ended.pc = "total" /\ ended.excused = load.excused
      /\ ended.query = load.query /\ ended.total = load.total
  BY <1>1 DEF Load
<1>4. loads' = [marked EXCEPT ![i] = ended]
  <2>1. marked[i] = load /\ i \in DOMAIN marked
    BY <1>1, <1>2, LenProperties
  <2>2. loads' = [marked EXCEPT ![i].pc = "total"]
    BY DEF ItemsArrive
  <2> HIDE DEF marked
  <2>3. QED BY <2>1, <2>2
<1> HIDE DEF marked, ended
<1>5. /\ loads' \in Seq(Load) /\ Len(loads') = Len(loads)
      /\ \A k \in 1..Len(loads) : loads'[k] = IF k = i THEN ended ELSE marked[k]
  BY <1>2, <1>3, <1>4, ExceptSeq
<1>6. \A k \in 1..Len(loads) :
        k # i => loads'[k].excused \/ (k > i /\ loads'[k] = loads[k])
  <2>1. \A k \in 1..Len(loads) : k # i /\ ~(k < i) => k > i
    BY <1>1
  <2>2. QED BY <2>1, <1>2, <1>5
<1>7. view' = [view EXCEPT !.items = load.items, !.rows = load.query,
                 !.excused = IF load.excused THEN @ \cup {"items"} ELSE @ \ {"items"}]
  BY DEF ItemsArrive
<1>8. /\ view' \in View /\ view'.query = view.query /\ view'.rows = load.query
      /\ view'.items = load.items /\ view'.total = view.total
      /\ "items" \in view'.excused <=> load.excused
      /\ "total" \in view'.excused <=> "total" \in view.excused
      /\ view'.selected = view.selected /\ view'.all = view.all
      /\ view'.foreign = view.foreign /\ view'.origins = view.origins
  BY <1>1, <1>7 DEF View, Load, Parts
<1>9. UNCHANGED <<state, pick, acts>>
  BY DEF ItemsArrive
<1>10. Selection' /\ PickIsWhole'
  BY <1>8, <1>9, SelectionKept, PickKept DEF Inv
<1>11. /\ Matching(view.query)' = Matching(view.query)
       /\ PageOf(view.query, PageSize)' = PageOf(view.query, PageSize)
       /\ Pending' = Pending
  BY <1>8, <1>9 DEF Matching, Visible, PageOf, Ordered, Pending
<1>12. loads' # <<>> /\ Len(loads') \in 1..Len(loads')
  BY <1>1, <1>5, EmptySeq
<1>13. i # Len(loads) => loads'[Len(loads')].excused \/ loads'[Len(loads')] = loads[Len(loads)]
  BY <1>1, <1>5, <1>6
<1>14. RowsAccounted'
  <2>1. CASE \A k \in 1..Len(loads) : loads[k].pc = "total" \/ loads[k].excused
    <3>1. load.excused
      BY <2>1, <1>1
    <3>2. \A k \in 1..Len(loads') : loads'[k].pc = "total" \/ loads'[k].excused
      BY <2>1, <1>3, <1>5, <1>6
    <3>3. QED BY <3>1, <3>2, <1>8 DEF RowsAccounted
  <2>2. CASE loads[Len(loads)].pc # "total" /\ Ready(loads[Len(loads)]) /\ i = Len(loads)
    <3>1. \A k \in 1..Len(loads') : loads'[k].pc = "total" \/ loads'[k].excused
      BY <2>2, <1>1, <1>3, <1>5, <1>6
    <3>2. load.excused \/ ItemsAreCurrent'
      BY <2>2, <1>1, <1>8, <1>11 DEF Ready, WillDo, ItemsAreCurrent
    <3>3. QED BY <3>1, <3>2, <1>8 DEF RowsAccounted
  <2>3. CASE loads[Len(loads)].pc # "total" /\ Ready(loads[Len(loads)]) /\ i # Len(loads)
    <3>1. loads'[Len(loads')] = loads[Len(loads)]
      <4>1. ~(Len(loads) < i)
        BY <1>1
      <4>2. QED BY <2>3, <4>1, <1>1, <1>2, <1>5
    <3>2. Ready(loads[Len(loads)])'
      BY <2>3, <3>1, <1>8, <1>11 DEF Ready, WillDo
    <3>3. QED BY <2>3, <3>1, <3>2, <1>12 DEF RowsAccounted
  <2>4. QED BY <2>1, <2>2, <2>3 DEF Inv, RowsAccounted
<1>15. TotalAccounted'
  <2>1. CASE ("total" \in view.excused \/ TotalIsCurrent) /\ \A k \in 1..Len(loads) : loads[k].excused
    <3>1. \A k \in 1..Len(loads') : loads'[k].excused
      BY <2>1, <1>3, <1>5, <1>6
    <3>2. QED BY <2>1, <3>1, <1>8, <1>11 DEF TotalAccounted, TotalIsCurrent
  <2>2. CASE Ready(loads[Len(loads)]) /\ i = Len(loads)
    <3>1. Ready(loads[Len(loads)])'
      BY <2>2, <1>1, <1>3, <1>5, <1>8, <1>11 DEF Ready, WillDo
    <3>2. QED BY <3>1, <1>12 DEF TotalAccounted
  <2>3. CASE Ready(loads[Len(loads)]) /\ i # Len(loads)
    <3>1. Ready(loads[Len(loads)])'
      BY <2>3, <1>8, <1>11, <1>13 DEF Ready, WillDo
    <3>2. QED BY <3>1, <1>12 DEF TotalAccounted
  <2>4. QED BY <2>1, <2>2, <2>3 DEF Inv, TotalAccounted
<1>16. TypeOK'
  BY <1>1, <1>5, <1>8, <1>9 DEF TypeOK
<1>17. QED BY <1>10, <1>14, <1>15, <1>16 DEF Inv

LEMMA TotalArrivesInv ==
  ASSUME Inv, clicks' \in 0..MaxClicks, NEW i \in 1..Len(loads), TotalArrives(i)
  PROVE  Inv'
<1> DEFINE load == loads[i]
<1>1. /\ TypeOK /\ load \in Load /\ view \in View /\ load.pc = "total"
  BY Elements DEF Inv, TotalArrives
<1>2. /\ loads' \in Seq(Load)
      /\ i = Len(loads) => \A k \in 1..Len(loads') : loads'[k].excused
      /\ i # Len(loads) => loads' # <<>> /\ loads'[Len(loads')] = loads[Len(loads)]
      /\ \A k \in 1..Len(loads') : \E j \in 1..Len(loads) :
           loads'[k].excused \/ loads'[k] = loads[j]
  BY <1>1, LoadEnds DEF TotalArrives
<1>3. view' = [view EXCEPT !.total = load.total, !.screen = "list",
                 !.excused = IF load.excused THEN @ \cup {"total"} ELSE @ \ {"total"}]
  BY DEF TotalArrives
<1>4. /\ view' \in View /\ view'.query = view.query /\ view'.rows = view.rows
      /\ view'.items = view.items /\ view'.total = load.total
      /\ "total" \in view'.excused <=> load.excused
      /\ "items" \in view'.excused <=> "items" \in view.excused
      /\ view'.selected = view.selected /\ view'.all = view.all
      /\ view'.foreign = view.foreign /\ view'.origins = view.origins
  BY <1>1, <1>3 DEF View, Load, Parts
<1>5. UNCHANGED <<state, pick, acts>>
  BY DEF TotalArrives
<1>6. Selection' /\ PickIsWhole'
  BY <1>4, <1>5, SelectionKept, PickKept DEF Inv
<1>7. /\ Matching(view.query)' = Matching(view.query)
      /\ PageOf(view.query, PageSize)' = PageOf(view.query, PageSize)
      /\ Pending' = Pending
  BY <1>4, <1>5 DEF Matching, Visible, PageOf, Ordered, Pending
<1>8. i # Len(loads) => (Ready(loads[Len(loads)]) => Ready(loads[Len(loads)])')
  BY <1>2, <1>4, <1>7 DEF Ready, WillDo
<1>9. RowsAccounted'
  <2>1. CASE /\ "items" \in view.excused \/ ItemsAreCurrent
             /\ \A k \in 1..Len(loads) : loads[k].pc = "total" \/ loads[k].excused
    <3>1. \A k \in 1..Len(loads') : loads'[k].pc = "total" \/ loads'[k].excused
      BY <2>1, <1>2
    <3>2. QED BY <2>1, <3>1, <1>4, <1>7 DEF RowsAccounted, ItemsAreCurrent
  <2>2. CASE loads[Len(loads)].pc # "total" /\ Ready(loads[Len(loads)])
    BY <2>2, <1>1, <1>2, <1>8 DEF RowsAccounted
  <2>3. QED BY <2>1, <2>2 DEF Inv, RowsAccounted
<1>10. TotalAccounted'
  <2>1. CASE \A k \in 1..Len(loads) : loads[k].excused
    <3>1. \A k \in 1..Len(loads') : loads'[k].excused
      BY <2>1, <1>2
    <3>2. QED BY <2>1, <3>1, <1>4 DEF TotalAccounted
  <2>2. CASE Ready(loads[Len(loads)]) /\ i = Len(loads)
    <3>1. load.excused \/ TotalIsCurrent'
      BY <2>2, <1>1, <1>4, <1>7 DEF Ready, WillDo, TotalIsCurrent
    <3>2. QED BY <2>2, <3>1, <1>2, <1>4 DEF TotalAccounted
  <2>3. CASE Ready(loads[Len(loads)]) /\ i # Len(loads)
    BY <2>3, <1>2, <1>8 DEF TotalAccounted
  <2>4. QED BY <2>1, <2>2, <2>3 DEF Inv, TotalAccounted
<1>11. TypeOK'
  BY <1>1, <1>2, <1>4, <1>5 DEF TypeOK
<1>12. QED BY <1>6, <1>9, <1>10, <1>11 DEF Inv

LEMMA LoadFailsInv ==
  ASSUME Inv, clicks' \in 0..MaxClicks, NEW i \in 1..Len(loads), LoadFails(i)
  PROVE  Inv'
<1>1. TypeOK /\ view \in View
  BY DEF Inv, TypeOK
<1>2. /\ loads' \in Seq(Load)
      /\ i = Len(loads) => \A k \in 1..Len(loads') : loads'[k].excused
      /\ i # Len(loads) => loads' # <<>> /\ loads'[Len(loads')] = loads[Len(loads)]
      /\ \A k \in 1..Len(loads') : \E j \in 1..Len(loads) :
           loads'[k].excused \/ loads'[k] = loads[j]
  BY <1>1, LoadEnds DEF LoadFails
<1>3. view' = [view EXCEPT !.screen = "error", !.excused = Parts]
  BY DEF LoadFails
<1>4. /\ view' \in View /\ view'.query = view.query
      /\ "total" \in view'.excused /\ "items" \in view'.excused
      /\ view'.selected = view.selected /\ view'.all = view.all
      /\ view'.foreign = view.foreign /\ view'.origins = view.origins
  BY <1>1, <1>3 DEF View, Parts
<1>5. UNCHANGED <<state, pick, acts>>
  BY DEF LoadFails
<1>6. Selection' /\ PickIsWhole'
  BY <1>4, <1>5, SelectionKept, PickKept DEF Inv
<1>7. /\ Matching(view.query)' = Matching(view.query)
      /\ PageOf(view.query, PageSize)' = PageOf(view.query, PageSize)
      /\ Pending' = Pending
  BY <1>4, <1>5 DEF Matching, Visible, PageOf, Ordered, Pending
<1>8. i # Len(loads) => (Ready(loads[Len(loads)]) => Ready(loads[Len(loads)])')
  BY <1>2, <1>4, <1>7 DEF Ready, WillDo
<1>9. RowsAccounted'
  <2>1. CASE \A k \in 1..Len(loads) : loads[k].pc = "total" \/ loads[k].excused
    <3>1. \A k \in 1..Len(loads') : loads'[k].pc = "total" \/ loads'[k].excused
      BY <2>1, <1>2
    <3>2. QED BY <3>1, <1>4 DEF RowsAccounted
  <2>2. CASE i = Len(loads)
    BY <2>2, <1>2, <1>4 DEF RowsAccounted
  <2>3. CASE loads[Len(loads)].pc # "total" /\ Ready(loads[Len(loads)]) /\ i # Len(loads)
    BY <2>3, <1>2, <1>8 DEF RowsAccounted
  <2>4. QED BY <2>1, <2>2, <2>3 DEF Inv, RowsAccounted
<1>10. TotalAccounted'
  <2>1. CASE \A k \in 1..Len(loads) : loads[k].excused
    <3>1. \A k \in 1..Len(loads') : loads'[k].excused
      BY <2>1, <1>2
    <3>2. QED BY <3>1, <1>4 DEF TotalAccounted
  <2>2. CASE i = Len(loads)
    BY <2>2, <1>2, <1>4 DEF TotalAccounted
  <2>3. CASE Ready(loads[Len(loads)]) /\ i # Len(loads)
    BY <2>3, <1>2, <1>8 DEF TotalAccounted
  <2>4. QED BY <2>1, <2>2, <2>3 DEF Inv, TotalAccounted
<1>11. TypeOK'
  BY <1>1, <1>2, <1>4, <1>5 DEF TypeOK
<1>12. QED BY <1>6, <1>9, <1>10, <1>11 DEF Inv
-----------------------------------------------------------------------------
(* A query that the page gets.                                             *)

LEMMA QueryInv ==
  ASSUME Inv, clicks' \in 0..MaxClicks, NEW q \in Queries, UNCHANGED <<state, pick, acts>>,
         loads' = loads \o Started(q), view' \in View,
         view'.query = Shown(q).query, view'.rows = Shown(q).rows, view'.items = Shown(q).items,
         view'.total = Shown(q).total, view'.excused = Shown(q).excused,
         view'.selected = Shown(q).selected, view'.all = Shown(q).all,
         view'.foreign = Shown(q).foreign, view'.origins = Shown(q).origins
  PROVE  Inv'
<1>1. TypeOK /\ loads \in Seq(Load)
  BY Elements DEF Inv
<1>2. Selection' /\ PickIsWhole'
  BY <1>1, SelectionShown, PickKept DEF Inv
<1>3. loads' \in Seq(Load) /\ RowsAccounted' /\ TotalAccounted'
  <2>1. CASE q # view.query
    BY <2>1, <1>1, ShowAccounts
  <2>2. CASE q = view.query
    <3>1. loads' = loads
      BY <2>2, <1>1, StartedProperties, ConcatEmptySeq
    <3>2. SamePart(q, view.query)
      BY <2>2 DEF SamePart
    <3>3. /\ view'.query = view.query /\ view'.rows = view.rows /\ view'.items = view.items
          /\ view'.total = view.total /\ view'.excused = view.excused
      BY <2>2, <3>2, <1>1, ShownProperties
    <3>4. Pending' = Pending
      BY DEF Pending
    <3>5. RowsAccounted' /\ TotalAccounted'
      BY <3>1, <3>3, <3>4, AccountedKept DEF Inv
    <3>6. QED BY <3>1, <3>5, <1>1
  <2>3. QED BY <2>1, <2>2
<1>4. TypeOK'
  BY <1>1, <1>3 DEF TypeOK
<1>5. QED BY <1>2, <1>3, <1>4 DEF Inv

LEMMA ShowInv ==
  ASSUME Inv, clicks' \in 0..MaxClicks, NEW q \in Queries, NEW input \in Texts, Show(q, input)
  PROVE  Inv'
<1>1. Shown(q) \in View
  BY ShownProperties DEF Inv
<1>2. /\ view' = [Shown(q) EXCEPT !.input = input] /\ loads' = loads \o Started(q)
      /\ UNCHANGED <<state, pick, acts>>
  BY DEF Show
<1>3. /\ view' \in View
      /\ view'.query = Shown(q).query /\ view'.rows = Shown(q).rows
      /\ view'.items = Shown(q).items /\ view'.total = Shown(q).total
      /\ view'.excused = Shown(q).excused /\ view'.selected = Shown(q).selected
      /\ view'.all = Shown(q).all /\ view'.foreign = Shown(q).foreign
      /\ view'.origins = Shown(q).origins
  BY <1>1, <1>2 DEF View
<1>4. QED BY <1>2, <1>3, QueryInv

LEMMA QueryClicksInv ==
  ASSUME Inv, clicks' \in 0..MaxClicks,
         (\E f \in Filters : PickFilter(f)) \/ ToggleOrder \/ NextPage \/ PreviousPage
  PROVE  Inv'
<1>1. view.query \in Queries /\ view.input \in Texts
  BY DEF Inv, TypeOK, View
<1>2. ASSUME NEW f \in Filters, PickFilter(f)
      PROVE  Inv'
  <2>1. [view.query EXCEPT !.filter = f] \in Queries
    BY <1>1, FiltersAssumption DEF Queries
  <2>2. QED BY <2>1, <1>1, <1>2, ShowInv DEF PickFilter
<1>3. CASE ToggleOrder
  <2>1. [view.query EXCEPT !.order = IF @ = "asc" THEN "desc" ELSE "asc"] \in Queries
    BY <1>1 DEF Queries
  <2>2. QED BY <2>1, <1>1, <1>3, ShowInv DEF ToggleOrder
<1>4. CASE NextPage
  <2>1. [view.query EXCEPT !.page = @ + 1] \in Queries
    BY <1>1 DEF Queries
  <2>2. QED BY <2>1, <1>1, <1>4, ShowInv DEF NextPage
<1>5. CASE PreviousPage
  <2>1. [view.query EXCEPT !.page = @ - 1] \in Queries
    <3>1. view.query.page \in Nat \ {0} /\ view.query.page > 1
      BY <1>1, <1>5 DEF Queries, PreviousPage
    <3>2. view.query.page - 1 \in Nat \ {0}
      BY <3>1
    <3>3. QED BY <3>2, <1>1 DEF Queries
  <2>2. QED BY <2>1, <1>1, <1>5, ShowInv DEF PreviousPage
<1>6. QED BY <1>2, <1>3, <1>4, <1>5

LEMMA DebounceInv ==
  ASSUME Inv, Debounce
  PROVE  Inv'
<1> DEFINE q == [view.query EXCEPT !.search = view.input]
<1>1. q \in Queries /\ clicks' \in 0..MaxClicks
  BY DEF Inv, TypeOK, View, Queries, Debounce
<1>2. view' = Shown(q) /\ loads' = loads \o Started(q) /\ UNCHANGED <<state, pick, acts>>
  BY DEF Debounce
<1> HIDE DEF q
<1>3. Shown(q) \in View
  BY <1>1, ShownProperties DEF Inv
<1>4. QED BY <1>1, <1>2, <1>3, QueryInv

-----------------------------------------------------------------------------
(* The selection.                                                          *)

(* A click that leaves the query, the rows and what is under way.          *)
LEMMA StillInv ==
  ASSUME Inv, clicks' \in 0..MaxClicks, UNCHANGED <<state, loads, pick, acts>>, view' \in View,
         view'.query = view.query, view'.rows = view.rows, view'.items = view.items,
         view'.total = view.total, view'.excused = view.excused, Selection'
  PROVE  Inv'
<1>1. Pending' = Pending
  BY DEF Pending
<1>2. RowsAccounted' /\ TotalAccounted' /\ PickIsWhole'
  BY <1>1, AccountedKept, PickKept DEF Inv
<1>3. TypeOK'
  BY DEF Inv, TypeOK
<1>4. QED BY <1>2, <1>3 DEF Inv

(* With nothing under way, and nothing lost, what is shown is the server's.*)
LEMMA SettledProperties ==
  ASSUME Inv, ~Unsettled
  PROVE  /\ ~Pending
         /\ view.rows = Filled(view.query) /\ view.items = PageOf(view.query, PageSize)
         /\ view.total = Cardinality(Matching(view.query))
<1>1. acts = <<>> /\ loads = <<>> /\ view.excused = {}
  BY DEF Unsettled
<1>2. ~Pending
  BY <1>1, EmptySeq DEF Pending
<1>3. ItemsAreCurrent /\ TotalIsCurrent
  BY <1>1 DEF Inv, RowsAccounted, TotalAccounted
<1>4. QED BY <1>2, <1>3 DEF ItemsAreCurrent, TotalIsCurrent

LEMMA PartOfRows ==
  ASSUME TypeOK, view.rows = Filled(view.query)
  PROVE  [view.rows EXCEPT !.page = 1] = Whole(view.query)
BY Elements DEF Filled, Whole, Queries

(* A selection that changes by hand is of the list shown, when that is the *)
(* server's; what completes the selection of all is none of it.            *)
LEMMA SelectInv ==
  ASSUME Inv, clicks' \in 0..MaxClicks, NEW ids \in SUBSET Ids, Select(ids),
         view.selected \subseteq ids =>
           \E i \in ToSet(view.items) : ids = view.selected \cup {i}
  PROVE  Inv'
<1>1. TypeOK /\ view \in View /\ view.query \in Queries /\ view.rows \in Queries
  BY Elements DEF Inv
<1>2. [view.rows EXCEPT !.page = 1] \in Queries
  BY <1>1 DEF Queries
<1>3. /\ UNCHANGED <<state, loads, pick, acts>>
      /\ view' = [view EXCEPT !.selected = ids, !.all = view.all /\ view.selected \subseteq ids,
           !.foreign = @ \/ Unsettled,
           !.origins = IF ids = {} THEN {} ELSE @ \cup {[view.rows EXCEPT !.page = 1]}]
  BY DEF Select
<1>4. Unsettled \in BOOLEAN /\ (view.all /\ view.selected \subseteq ids) \in BOOLEAN
  BY <1>1 DEF Unsettled, View
<1>5. view' \in View
  BY <1>1, <1>2, <1>3, <1>4 DEF View
<1>6. /\ view'.query = view.query /\ view'.rows = view.rows /\ view'.items = view.items
      /\ view'.total = view.total /\ view'.excused = view.excused /\ view'.selected = ids
      /\ view'.all <=> view.all /\ view.selected \subseteq ids
      /\ view'.foreign <=> view.foreign \/ Unsettled
      /\ view'.origins \subseteq view.origins \cup {[view.rows EXCEPT !.page = 1]}
  BY <1>1, <1>3 DEF View
<1>7. Selection'
  <2>1. SUFFICES ASSUME ~view.foreign, ~Unsettled PROVE Selection'
    BY <1>6 DEF Selection
  <2>2. ~Pending' /\ Matching(view.query)' = Matching(view.query)
    BY <2>1, <1>3, <1>6, SettledProperties DEF Pending, Matching, Visible
  <2>3. view'.origins \subseteq {Whole(view.query)}
    BY <2>1, <1>1, <1>6, SettledProperties, PartOfRows DEF Inv, Selection
  <2>4. ASSUME view.all, view.selected \subseteq ids
        PROVE  ids = Matching(view.query)
    <3>1. PICK i \in ToSet(view.items) : ids = view.selected \cup {i}
      BY <2>4
    <3>2. view.selected = Matching(view.query)
      BY <2>1, <2>4 DEF Inv, Selection
    <3>3. PageSize \in Nat
      BY BoundAssumption
    <3>4. i \in Matching(view.query)
      BY <3>1, <3>3, <2>1, <1>1, SettledProperties, PageOfProperties
    <3>5. QED BY <3>1, <3>2, <3>4
  <2>5. QED BY <2>2, <2>3, <2>4, <1>6 DEF Selection
<1>8. QED BY <1>3, <1>5, <1>6, <1>7, StillInv

LEMMA UnselectedProperties ==
  ASSUME TypeOK
  PROVE  /\ Unselected(view) \in View /\ Unselected(view).query = view.query
         /\ Unselected(view).rows = view.rows /\ Unselected(view).items = view.items
         /\ Unselected(view).total = view.total /\ Unselected(view).excused = view.excused
         /\ Unselected(view).origins = {} /\ Unselected(view).all = FALSE
<1>1. view \in View
  BY DEF TypeOK
<1>2. Unselected(view) = [view EXCEPT !.selected = {}, !.all = FALSE, !.foreign = FALSE, !.origins = {}]
  BY DEF Unselected
<1>3. QED BY <1>1, <1>2 DEF View

LEMMA ItemsType ==
  ASSUME TypeOK
  PROVE  ToSet(view.items) \subseteq Ids /\ view.selected \subseteq Ids
<1>1. view.items \in Seq(Ids) /\ view.selected \subseteq Ids
  BY DEF TypeOK, View
<1>2. DOMAIN view.items = 1..Len(view.items) /\ \A k \in 1..Len(view.items) : view.items[k] \in Ids
  BY <1>1, LenProperties, ElementOfSeq
<1>3. QED BY <1>1, <1>2 DEF ToSet

LEMMA ToggleRowInv ==
  ASSUME Inv, clicks' \in 0..MaxClicks, ToggleRow
  PROVE  Inv'
<1>1. ToSet(view.items) \subseteq Ids /\ view.selected \subseteq Ids
  BY ItemsType DEF Inv
<1>2. PICK i \in ToSet(view.items) :
        Select(IF i \in view.selected THEN view.selected \ {i} ELSE view.selected \cup {i})
  BY DEF ToggleRow
<1>3. CASE i \in view.selected
  BY <1>1, <1>2, <1>3, SelectInv
<1>4. CASE i \notin view.selected
  BY <1>1, <1>2, <1>4, SelectInv
<1>5. QED BY <1>3, <1>4

LEMMA TogglePageInv ==
  ASSUME Inv, clicks' \in 0..MaxClicks, TogglePage
  PROVE  Inv'
<1>1. TypeOK /\ view \in View /\ view.query \in Queries /\ view.rows \in Queries
  BY Elements DEF Inv
<1>2. UNCHANGED <<state, loads, pick, acts>>
  BY DEF TogglePage
<1>3. CASE AllVisible
  <2>1. view' = Unselected(view)
    BY <1>3 DEF TogglePage
  <2>2. Selection'
    BY <2>1, <1>1, UnselectedProperties DEF Selection
  <2>3. QED BY <2>1, <2>2, <1>1, <1>2, UnselectedProperties, StillInv
<1>4. CASE ~AllVisible
  <2> DEFINE part == [view.rows EXCEPT !.page = 1]
             shown == ToSet(view.items)
  <2>1. part \in Queries /\ shown \subseteq Ids /\ Unsettled \in BOOLEAN
    BY <1>1, ItemsType DEF Queries, Unsettled
  <2>2. view' = [view EXCEPT !.selected = shown, !.all = FALSE,
                   !.foreign = Unsettled, !.origins = {part}]
    BY <1>4 DEF TogglePage
  <2> HIDE DEF shown, part
  <2>3. /\ view' \in View /\ view'.query = view.query /\ view'.rows = view.rows
        /\ view'.items = view.items /\ view'.total = view.total
        /\ view'.excused = view.excused /\ view'.all = FALSE
        /\ view'.foreign = Unsettled /\ view'.origins = {part}
    BY <2>1, <2>2, <1>1 DEF View
  <2>4. ~Unsettled => part = Whole(view.query)
    BY <1>1, SettledProperties, PartOfRows DEF part
  <2>5. Selection'
    BY <2>3, <2>4 DEF Selection
  <2>6. QED BY <2>3, <2>5, <1>2, StillInv
<1>5. QED BY <1>3, <1>4

LEMMA OtherClicksInv ==
  ASSUME Inv, clicks' \in 0..MaxClicks,
         (\E text \in Texts : TypeSearch(text)) \/ ClearSelection \/ DeleteSelected
  PROVE  Inv'
<1>1. TypeOK /\ view \in View
  BY Elements DEF Inv
<1>2. ASSUME NEW text \in Texts, TypeSearch(text)
      PROVE  Inv'
  <2>1. view' = [view EXCEPT !.input = text] /\ UNCHANGED <<state, loads, pick, acts>>
    BY <1>2 DEF TypeSearch
  <2>2. /\ view' \in View /\ view'.query = view.query /\ view'.rows = view.rows
        /\ view'.items = view.items /\ view'.total = view.total
        /\ view'.excused = view.excused /\ view'.selected = view.selected
        /\ view'.all = view.all /\ view'.foreign = view.foreign /\ view'.origins = view.origins
    BY <2>1, <1>1, <1>2 DEF View
  <2>3. QED BY <2>1, <2>2, SelectionKept, StillInv DEF Inv
<1>3. CASE DeleteSelected
  <2>1. view' = [view EXCEPT !.left = TRUE] /\ UNCHANGED <<state, loads, pick, acts>>
    BY <1>3 DEF DeleteSelected
  <2>2. /\ view' \in View /\ view'.query = view.query /\ view'.rows = view.rows
        /\ view'.items = view.items /\ view'.total = view.total
        /\ view'.excused = view.excused /\ view'.selected = view.selected
        /\ view'.all = view.all /\ view'.foreign = view.foreign /\ view'.origins = view.origins
    BY <2>1, <1>1 DEF View
  <2>3. QED BY <2>1, <2>2, SelectionKept, StillInv DEF Inv
<1>4. CASE ClearSelection
  <2>1. view' = Unselected(view) /\ UNCHANGED <<state, loads, pick, acts>>
    BY <1>4 DEF ClearSelection
  <2>2. Selection'
    BY <2>1, <1>1, UnselectedProperties DEF Selection
  <2>3. QED BY <2>1, <2>2, <1>1, UnselectedProperties, StillInv
<1>5. QED BY <1>2, <1>3, <1>4

-----------------------------------------------------------------------------
(* Select all.                                                             *)

LEMMA PickType ==
  ASSUME TypeOK, pick # Idle
  PROVE  /\ pick \in [pc : {"sent", "read"}, query : Queries, size : 0..Cardinality(Ids),
                      ids : SUBSET Ids, foreign : BOOLEAN]
         /\ pick.query \in Queries /\ pick.size \in Nat /\ pick.pc \in {"sent", "read"}
         /\ pick.ids \subseteq Ids
<1>1. pick \in [pc : {"sent", "read"}, query : Queries, size : 0..Cardinality(Ids),
                ids : SUBSET Ids, foreign : BOOLEAN]
  BY DEF TypeOK
<1>2. Cardinality(Ids) \in Nat
  BY IdsAssumption, FS_CardinalityType
<1>3. QED BY <1>1, <1>2

(* A step of the request of Select all.                                    *)
LEMMA PickInv ==
  ASSUME Inv, clicks' \in 0..MaxClicks, UNCHANGED <<state, view, loads, acts>>,
         pick' \in {Idle} \cup [pc : {"sent", "read"}, query : Queries, size : 0..Cardinality(Ids),
                                ids : SUBSET Ids, foreign : BOOLEAN],
         PickIsWhole'
  PROVE  Inv'
<1>1. Pending' = Pending
  BY DEF Pending
<1>2. RowsAccounted' /\ TotalAccounted' /\ Selection'
  BY <1>1, AccountedKept, SelectionKept DEF Inv
<1>3. TypeOK'
  BY DEF Inv, TypeOK
<1>4. QED BY <1>2, <1>3 DEF Inv

LEMMA SelectAllMatchingInv ==
  ASSUME Inv, clicks' \in 0..MaxClicks, SelectAllMatching
  PROVE  Inv'
<1> DEFINE q == [view.query EXCEPT !.page = 1]
<1>1. TypeOK /\ view.query \in Queries /\ view.total \in 0..Cardinality(Ids)
  BY DEF Inv, TypeOK, View
<1>2. q \in Queries /\ q.page = 1 /\ SamePart(q, view.query)
  <2>1. q \in Queries /\ q.page = 1
    BY <1>1 DEF Queries
  <2>2. [q EXCEPT !.page = 1] = q
    BY <1>1 DEF Queries
  <2>3. QED BY <2>1, <2>2 DEF SamePart
<1>3. Unsettled \in BOOLEAN
  BY DEF Unsettled
<1>4. /\ UNCHANGED <<state, view, loads, acts>>
      /\ pick' = [pc |-> "sent", query |-> q, size |-> view.total, ids |-> {}, foreign |-> Unsettled]
  BY DEF SelectAllMatching
<1> HIDE DEF q
<1>5. pick' \in [pc : {"sent", "read"}, query : Queries, size : 0..Cardinality(Ids),
                 ids : SUBSET Ids, foreign : BOOLEAN]
  BY <1>1, <1>2, <1>3, <1>4
<1>6. PickIsWhole'
  <2>1. pick'.query = q /\ pick'.pc = "sent" /\ pick'.size = view.total /\ pick'.foreign = Unsettled
    BY <1>4
  <2>2. Matching(q) = Matching(view.query)
    BY <1>1, <1>2, SamePartWhole
  <2>3. Matching(pick.query)' = Matching(q)
    BY <2>1, <1>4 DEF Matching, Visible
  <2>4. ~Unsettled => ~Pending' /\ view.total = Cardinality(Matching(view.query))
    BY <1>4, SettledProperties DEF Pending
  <2>5. QED BY <2>1, <2>2, <2>3, <2>4, <1>2 DEF PickIsWhole
<1>7. QED BY <1>4, <1>5, <1>6, PickInv

LEMMA PickReadsInv ==
  ASSUME Inv, clicks' \in 0..MaxClicks, PickReads
  PROVE  Inv'
<1> DEFINE answer == ToSet(PageOf(pick.query, pick.size))
<1>1. /\ TypeOK /\ pick # Idle /\ pick.pc = "sent" /\ UNCHANGED <<state, view, loads, acts>>
  BY DEF Inv, PickReads, Idle
<1>2. /\ pick \in [pc : {"sent", "read"}, query : Queries, size : 0..Cardinality(Ids),
                   ids : SUBSET Ids, foreign : BOOLEAN]
      /\ pick.query \in Queries /\ pick.size \in Nat
  BY <1>1, PickType
<1>3. /\ answer \subseteq Matching(pick.query)
      /\ pick.query.page = 1 /\ pick.size = Cardinality(Matching(pick.query)) =>
           answer = Matching(pick.query)
  BY <1>2, PageOfProperties
<1>4. Matching(pick.query) \subseteq Ids
  BY <1>2, MatchingType
<1>5. pick' = [pick EXCEPT !.pc = "read", !.ids = answer]
  BY DEF PickReads
<1> HIDE DEF answer
<1>6. /\ pick' \in [pc : {"sent", "read"}, query : Queries, size : 0..Cardinality(Ids),
                    ids : SUBSET Ids, foreign : BOOLEAN]
      /\ pick'.query = pick.query /\ pick'.foreign = pick.foreign
      /\ pick'.pc = "read" /\ pick'.ids = answer
  BY <1>2, <1>3, <1>4, <1>5
<1>7. Matching(pick.query)' = Matching(pick.query) /\ Pending' = Pending
  BY <1>1, <1>6 DEF Matching, Visible, Pending
<1>8. PickIsWhole'
  BY <1>1, <1>3, <1>6, <1>7 DEF Inv, PickIsWhole
<1>9. QED BY <1>1, <1>6, <1>8, PickInv

LEMMA PickFailsInv ==
  ASSUME Inv, clicks' \in 0..MaxClicks, PickFails
  PROVE  Inv'
<1>1. pick' = Idle /\ UNCHANGED <<state, view, loads, acts>>
  BY DEF PickFails
<1>2. PickIsWhole'
  BY <1>1 DEF PickIsWhole
<1>3. QED BY <1>1, <1>2, PickInv

LEMMA PickArrivesInv ==
  ASSUME Inv, clicks' \in 0..MaxClicks, PickArrives
  PROVE  Inv'
<1> DEFINE part == [pick.query EXCEPT !.filter = Effective(@)]
<1>1. /\ TypeOK /\ pick # Idle /\ pick.pc = "read" /\ view \in View /\ view.query \in Queries
      /\ UNCHANGED <<state, loads, acts>> /\ pick' = Idle
  BY Elements DEF Inv, PickArrives, Idle
<1>2. pick.query \in Queries /\ pick.ids \subseteq Ids
  BY <1>1, PickType
<1>3. pick.foreign \in BOOLEAN
  BY <1>1, PickType
<1>4. part \in Queries /\ (pick.query.page = 1 => part = Whole(pick.query))
  <2>1. part = Filled(pick.query)
    BY DEF Filled
  <2>2. part \in Queries
    BY <2>1, <1>2, Fillings
  <2>3. pick.query.page = 1 => part = Whole(pick.query)
    BY <1>2 DEF Queries, Whole
  <2>4. QED BY <2>2, <2>3
<1>5. view' = [view EXCEPT !.selected = pick.ids, !.all = TRUE,
                 !.foreign = pick.foreign \/ ~SamePart(pick.query, view.query),
                 !.origins = {part}]
  BY DEF PickArrives
<1>6. (pick.foreign \/ ~SamePart(pick.query, view.query)) \in BOOLEAN
  BY <1>3 DEF SamePart
<1> HIDE DEF part
<1>7. /\ view' \in View /\ view'.query = view.query /\ view'.rows = view.rows
      /\ view'.items = view.items /\ view'.total = view.total
      /\ view'.excused = view.excused /\ view'.selected = pick.ids /\ view'.origins = {part}
      /\ view'.foreign <=> pick.foreign \/ ~SamePart(pick.query, view.query)
  BY <1>1, <1>2, <1>4, <1>5, <1>6 DEF View
<1>8. Pending' = Pending /\ Matching(view.query)' = Matching(view.query)
  BY <1>1, <1>7 DEF Pending, Matching, Visible
<1>9. Selection'
  <2>1. SUFFICES ASSUME ~pick.foreign, SamePart(pick.query, view.query) PROVE Selection'
    BY <1>7 DEF Selection
  <2>2. Whole(pick.query) = Whole(view.query) /\ Matching(pick.query) = Matching(view.query)
    BY <2>1, <1>1, <1>2, SamePartWhole
  <2>3. /\ pick.query.page = 1 /\ ~Pending /\ pick.ids = Matching(pick.query)
    BY <2>1, <1>1 DEF Inv, PickIsWhole
  <2>4. view'.origins = {Whole(view.query)}
    BY <2>2, <2>3, <1>4, <1>7
  <2>5. QED BY <2>2, <2>3, <2>4, <1>7, <1>8 DEF Selection
<1>10. PickIsWhole'
  BY <1>1 DEF PickIsWhole
<1>11. RowsAccounted' /\ TotalAccounted'
  BY <1>1, <1>7, <1>8, AccountedKept DEF Inv
<1>12. TypeOK'
  BY <1>1, <1>7 DEF TypeOK
<1>13. QED BY <1>9, <1>10, <1>11, <1>12 DEF Inv

-----------------------------------------------------------------------------
(* The bulk actions.                                                       *)

Action == [ids : SUBSET Ids, query : Queries, status : {"sent", "done", "refused"}]

LEMMA ActionElements ==
  ASSUME TypeOK
  PROVE  /\ acts \in Seq(Action) /\ Len(acts) \in Nat
         /\ \A i \in 1..Len(acts) : acts[i] \in Action /\ acts[i].query \in Queries
<1>1. acts \in Seq(Action)
  BY DEF TypeOK, Action
<1>2. Len(acts) \in Nat /\ \A i \in 1..Len(acts) : acts[i] \in Action
  BY <1>1, LenProperties, ElementOfSeq
<1>3. QED BY <1>1, <1>2 DEF Action

LEMMA RunBulkActionInv ==
  ASSUME Inv, clicks' \in 0..MaxClicks, RunBulkAction
  PROVE  Inv'
<1> DEFINE act == [ids |-> view.selected, query |-> view.query, status |-> "sent"]
<1>1. /\ TypeOK /\ UNCHANGED <<state, view, loads, pick>>
      /\ view.query \in Queries /\ view.selected \subseteq Ids
  BY Elements, ItemsType DEF Inv, RunBulkAction
<1>2. act \in Action /\ act.status = "sent"
  BY <1>1 DEF Action
<1>3. acts' = Append(acts, act)
  BY DEF RunBulkAction
<1> HIDE DEF act
<1>4. /\ acts' \in Seq(Action) /\ Len(acts') = Len(acts) + 1 /\ Len(acts) \in Nat
      /\ \A k \in 1..Len(acts) : acts'[k] = acts[k]
      /\ acts'[Len(acts) + 1] = act
  BY <1>1, <1>2, <1>3, ActionElements, AppendProperties
<1>5. Pending' = Pending
  <2>1. Pending => Pending'
    BY <1>4 DEF Pending
  <2>2. ASSUME NEW k \in 1..Len(acts'), acts'[k].status = "done"
        PROVE  Pending
    <3>1. k \in 1..Len(acts) \/ k = Len(acts) + 1
      BY <1>4
    <3>2. k # Len(acts) + 1
      BY <2>2, <1>2, <1>4
    <3>3. QED BY <2>2, <3>1, <3>2, <1>4 DEF Pending
  <2>3. QED BY <2>1, <2>2 DEF Pending
<1>6. RowsAccounted' /\ TotalAccounted'
  BY <1>1, <1>5, AccountedKept DEF Inv
<1>7. Matching(view.query)' = Matching(view.query) /\ Matching(pick.query)' = Matching(pick.query)
  BY <1>1 DEF Matching, Visible
<1>8. Selection' /\ PickIsWhole'
  BY <1>1, <1>5, <1>7 DEF Inv, Selection, PickIsWhole
<1>9. TypeOK'
  BY <1>1, <1>4 DEF TypeOK, Action
<1>10. QED BY <1>6, <1>8, <1>9 DEF Inv

(* Blame keeps the types, and marks the selection and what it asks for.    *)
LEMMA BlameProperties ==
  ASSUME TypeOK, NEW excuse \in BOOLEAN, Blame(excuse)
  PROVE  /\ view' \in View /\ view'.query = view.query /\ view'.rows = view.rows
         /\ view'.items = view.items /\ view'.total = view.total
         /\ view'.excused = (IF excuse THEN Parts ELSE view.excused)
         /\ loads' \in Seq(Load) /\ Len(loads') = Len(loads)
         /\ \A k \in 1..Len(loads) :
              /\ loads'[k].pc = loads[k].pc /\ loads'[k].query = loads[k].query
              /\ loads[k].excused => loads'[k].excused
              /\ excuse /\ loads[k].pc \in {"items", "total"} => loads'[k].excused
              /\ ~excuse => loads'[k] = loads[k]
         /\ Selection'
         /\ pick' \in {Idle} \cup [pc : {"sent", "read"}, query : Queries,
                      size : 0..Cardinality(Ids), ids : SUBSET Ids, foreign : BOOLEAN]
         /\ PickIsWhole => PickIsWhole'
<1>1. /\ view \in View /\ loads \in Seq(Load) /\ Len(loads) \in Nat /\ DOMAIN loads = 1..Len(loads)
      /\ \A k \in 1..Len(loads) : loads[k] \in Load
  BY Elements
<1>2. view' = [view EXCEPT !.excused = IF excuse THEN Parts ELSE @, !.foreign = TRUE]
  BY DEF Blame
<1>3. /\ view' \in View /\ view'.query = view.query /\ view'.rows = view.rows
      /\ view'.items = view.items /\ view'.total = view.total /\ view'.foreign = TRUE
      /\ view'.excused = (IF excuse THEN Parts ELSE view.excused)
  BY <1>1, <1>2 DEF View, Parts
<1>4. ASSUME NEW k \in 1..Len(loads)
      PROVE  /\ loads'[k] \in Load
             /\ loads'[k].pc = loads[k].pc /\ loads'[k].query = loads[k].query
             /\ loads[k].excused => loads'[k].excused
             /\ excuse /\ loads[k].pc \in {"items", "total"} => loads'[k].excused
             /\ ~excuse => loads'[k] = loads[k]
  <2> DEFINE marked == loads[k].excused \/ (excuse /\ loads[k].pc \in {"items", "total"})
  <2>1. loads[k] \in Load
    BY <1>1
  <2>2. loads'[k] = [loads[k] EXCEPT !.excused = marked]
    BY <1>1 DEF Blame
  <2>3. marked \in BOOLEAN
    BY <2>1 DEF Load
  <2>4. ~excuse => marked = loads[k].excused
    BY <2>1 DEF Load
  <2>5. loads[k].excused \/ (excuse /\ loads[k].pc \in {"items", "total"}) => marked
    OBVIOUS
  <2> HIDE DEF marked
  <2>6. /\ loads'[k] \in Load /\ loads'[k].excused = marked
        /\ loads'[k].pc = loads[k].pc /\ loads'[k].query = loads[k].query
    BY <2>1, <2>2, <2>3 DEF Load
  <2>7. ~excuse => loads'[k] = loads[k]
    BY <2>1, <2>2, <2>4 DEF Load
  <2>8. QED BY <2>5, <2>6, <2>7
<1>5. loads' \in Seq(Load) /\ Len(loads') = Len(loads)
  <2>1. loads' = [k \in DOMAIN loads |-> loads'[k]]
    BY DEF Blame
  <2>2. \A k \in 1..Len(loads) : loads'[k] \in Load
    BY <1>4
  <2>3. QED BY <2>1, <2>2, <1>1, MapProperties
<1>6. Selection'
  BY <1>3 DEF Selection
<1>7. /\ pick' \in {Idle} \cup [pc : {"sent", "read"}, query : Queries,
               size : 0..Cardinality(Ids), ids : SUBSET Ids, foreign : BOOLEAN]
      /\ PickIsWhole => PickIsWhole'
  <2>1. CASE pick = Idle
    BY <2>1 DEF Blame, PickIsWhole
  <2>2. CASE pick # Idle
    <3>1. pick' = [pick EXCEPT !.foreign = TRUE]
      BY <2>2 DEF Blame
    <3>2. pick \in [pc : {"sent", "read"}, query : Queries, size : 0..Cardinality(Ids),
                    ids : SUBSET Ids, foreign : BOOLEAN]
      BY <2>2, PickType
    <3>3. /\ pick' \in [pc : {"sent", "read"}, query : Queries, size : 0..Cardinality(Ids),
                        ids : SUBSET Ids, foreign : BOOLEAN]
          /\ pick'.query = pick.query /\ pick'.foreign = TRUE
      BY <3>1, <3>2
    <3>4. QED BY <3>3, <2>2 DEF PickIsWhole
  <2>3. QED BY <2>1, <2>2
<1>8. QED BY <1>3, <1>4, <1>5, <1>6, <1>7

(* The server has changed: the action that changed it will load the list.  *)
LEMMA ActionAppliesInv ==
  ASSUME Inv, clicks' \in 0..MaxClicks, NEW i \in 1..Len(acts), ActionApplies(i)
  PROVE  Inv'
<1>1. /\ TypeOK /\ acts \in Seq(Action) /\ acts[i] \in Action /\ acts[i].status = "sent"
      /\ Len(acts) \in Nat
  BY ActionElements DEF Inv, ActionApplies
<1>2. CASE /\ state' = [r \in Ids |-> IF r \in acts[i].ids /\ state[r] = "active"
                                      THEN "deleted" ELSE state[r]]
           /\ acts' = [acts EXCEPT ![i].status = "done"]
           /\ Blame(FALSE)
  <2> DEFINE act == [acts[i] EXCEPT !.status = "done"]
  <2>1. act \in Action /\ act.status = "done" /\ acts' = [acts EXCEPT ![i] = act]
    BY <1>1, <1>2 DEF Action
  <2> HIDE DEF act
  <2>2. /\ acts' \in Seq(Action) /\ Len(acts') = Len(acts)
        /\ \A k \in 1..Len(acts) : acts'[k] = IF k = i THEN act ELSE acts[k]
    BY <2>1, <1>1, ExceptSeq
  <2>3. Pending'
    BY <2>1, <2>2 DEF Pending
  <2>4. /\ view' \in View /\ view'.query = view.query /\ view'.rows = view.rows
        /\ view'.excused = view.excused
        /\ loads' \in Seq(Load) /\ Len(loads') = Len(loads)
        /\ \A k \in 1..Len(loads) : loads'[k] = loads[k]
        /\ Selection' /\ PickIsWhole'
        /\ pick' \in {Idle} \cup [pc : {"sent", "read"}, query : Queries,
                      size : 0..Cardinality(Ids), ids : SUBSET Ids, foreign : BOOLEAN]
    <3>1. FALSE \in BOOLEAN
      OBVIOUS
    <3>2. QED BY <3>1, <1>1, <1>2, BlameProperties DEF Inv
  <2>5. loads # <<>> => Len(loads) \in 1..Len(loads) /\ loads' # <<>>
    <3>1. loads # <<>> => Len(loads) \in 1..Len(loads)
      BY <1>1, Elements
    <3>2. loads' = <<>> => Len(loads) = 0
      BY <2>4, EmptySeq
    <3>3. QED BY <3>1, <3>2
  <2>6. loads # <<>> => (Ready(loads[Len(loads)]) => Ready(loads[Len(loads)])')
    BY <2>3, <2>4, <2>5 DEF Ready, WillDo
  <2>7. RowsAccounted'
    <3>1. CASE /\ "items" \in view.excused \/ ItemsAreCurrent
               /\ \A k \in 1..Len(loads) : loads[k].pc = "total" \/ loads[k].excused
      BY <3>1, <2>3, <2>4 DEF RowsAccounted, ItemsAreCurrent
    <3>2. CASE loads # <<>> /\ loads[Len(loads)].pc # "total" /\ Ready(loads[Len(loads)])
      BY <3>2, <2>4, <2>5, <2>6 DEF RowsAccounted
    <3>3. QED BY <3>1, <3>2 DEF Inv, RowsAccounted
  <2>8. TotalAccounted'
    <3>1. CASE \A k \in 1..Len(loads) : loads[k].excused
      BY <3>1, <2>3, <2>4 DEF TotalAccounted, TotalIsCurrent
    <3>2. CASE loads # <<>> /\ Ready(loads[Len(loads)])
      BY <3>2, <2>4, <2>5, <2>6 DEF TotalAccounted
    <3>3. QED BY <3>1, <3>2 DEF Inv, TotalAccounted
  <2>9. state' \in [Ids -> {"active", "deleted"}]
    BY <1>1, <1>2 DEF TypeOK
  <2>10. TypeOK'
    BY <2>2, <2>4, <2>9 DEF TypeOK, Action
  <2>11. QED BY <2>4, <2>7, <2>8, <2>10 DEF Inv
<1>3. CASE /\ acts' = [acts EXCEPT ![i].status = "refused"]
           /\ UNCHANGED <<state, view, loads, pick>>
  <2> DEFINE act == [acts[i] EXCEPT !.status = "refused"]
  <2>1. act \in Action /\ act.status = "refused" /\ acts' = [acts EXCEPT ![i] = act]
    BY <1>1, <1>3 DEF Action
  <2> HIDE DEF act
  <2>2. /\ acts' \in Seq(Action) /\ Len(acts') = Len(acts)
        /\ \A k \in 1..Len(acts) : acts'[k] = IF k = i THEN act ELSE acts[k]
    BY <2>1, <1>1, ExceptSeq
  <2>3. \A k \in 1..Len(acts) : acts'[k].status = "done" <=> acts[k].status = "done"
    BY <2>1, <2>2, <1>1
  <2>4. Pending' = Pending
    BY <2>2, <2>3 DEF Pending
  <2>5. RowsAccounted' /\ TotalAccounted'
    BY <1>3, <2>4, AccountedKept DEF Inv
  <2>6. Matching(view.query)' = Matching(view.query) /\ Matching(pick.query)' = Matching(pick.query)
    BY <1>3 DEF Matching, Visible
  <2>7. Selection' /\ PickIsWhole'
    BY <1>3, <2>4, <2>6 DEF Inv, Selection, PickIsWhole
  <2>8. TypeOK'
    BY <1>1, <1>3, <2>2 DEF TypeOK, Action
  <2>9. QED BY <2>5, <2>7, <2>8 DEF Inv
<1>4. QED BY <1>2, <1>3 DEF ActionApplies

LEMMA RemainingActions ==
  ASSUME TypeOK, NEW i \in 1..Len(acts), acts' = RemoveAt(acts, i)
  PROVE  /\ acts' \in Seq(Action) /\ (Pending' => Pending)
         /\ acts[i].status # "done" => (Pending => Pending')
<1>1. acts \in Seq(Action) /\ Len(acts) \in Nat
  BY ActionElements
<1>2. acts' \in Seq(Action)
  BY <1>1, RemoveAtProperties
<1>3. ASSUME NEW k \in 1..Len(acts'), acts'[k].status = "done"
      PROVE  Pending
  <2>1. \E j \in 1..Len(acts) : j # i /\ acts'[k] = acts[j]
    BY <1>1, RemoveAtOrigin
  <2>2. QED BY <2>1, <1>3 DEF Pending
<1>4. ASSUME acts[i].status # "done", NEW j \in 1..Len(acts), acts[j].status = "done"
      PROVE  Pending'
  <2>1. j # i
    BY <1>4
  <2>2. \E k \in 1..Len(acts') : acts'[k] = acts[j]
    BY <2>1, <1>1, RemoveAtRest
  <2>3. QED BY <2>2, <1>4 DEF Pending
<1>5. QED BY <1>2, <1>3, <1>4 DEF Pending

(* The closing load: of the query that is set, or excused.                 *)
LEMMA ActionEndsInv ==
  ASSUME Inv, clicks' \in 0..MaxClicks, NEW i \in 1..Len(acts), ActionEnds(i)
  PROVE  Inv'
<1> DEFINE late == acts[i].query # view.query
           load == LoadOf(acts[i].query, late)
<1>1. /\ TypeOK /\ loads \in Seq(Load) /\ Len(loads) \in Nat /\ acts[i].query \in Queries
      /\ UNCHANGED <<state, view, pick>>
  BY Elements, ActionElements DEF Inv, ActionEnds
<1>2. acts' \in Seq(Action) /\ (Pending' => Pending)
  BY <1>1, RemainingActions DEF ActionEnds
<1>3. /\ load \in Load /\ load.pc = "meta" /\ load.query = acts[i].query
      /\ load.excused = late
  <2>1. late \in BOOLEAN /\ <<>> \in Seq(Ids) /\ 0 \in 0..Cardinality(Ids)
    BY EmptySeq, IdsAssumption, FS_CardinalityType
  <2> HIDE DEF late
  <2>2. QED BY <2>1, <1>1 DEF LoadOf, Load
<1>4. load.excused \/ load.query = view.query
  BY <1>3
<1>5. loads' = Append(loads, load)
  BY DEF ActionEnds
<1> HIDE DEF load
<1>6. /\ loads' \in Seq(Load) /\ loads' # <<>> /\ loads'[Len(loads')] = load
  <2>1. /\ loads' \in Seq(Load) /\ Len(loads') = Len(loads) + 1
        /\ loads'[Len(loads) + 1] = load
    BY <1>1, <1>3, <1>5, AppendProperties
  <2>2. QED BY <2>1, <1>1, EmptySeq
<1>7. RowsAccounted' /\ TotalAccounted'
  BY <1>1, <1>3, <1>4, <1>6, AddedAccounts
<1>8. Matching(view.query)' = Matching(view.query) /\ Matching(pick.query)' = Matching(pick.query)
  BY <1>1 DEF Matching, Visible
<1>9. Selection' /\ PickIsWhole'
  BY <1>1, <1>2, <1>8 DEF Inv, Selection, PickIsWhole
<1>10. TypeOK'
  BY <1>1, <1>2, <1>6 DEF TypeOK, Action
<1>11. QED BY <1>7, <1>9, <1>10 DEF Inv

(* An action that changed the server and whose answer is lost loads        *)
(* nothing: what is shown, and what has been read, may stay out of date.   *)
LEMMA ActionFailsInv ==
  ASSUME Inv, clicks' \in 0..MaxClicks, NEW i \in 1..Len(acts), ActionFails(i)
  PROVE  Inv'
<1>1. TypeOK /\ UNCHANGED state /\ acts' = RemoveAt(acts, i)
  BY DEF Inv, ActionFails
<1>2. /\ acts' \in Seq(Action) /\ (Pending' => Pending)
      /\ acts[i].status # "done" => (Pending => Pending')
  BY <1>1, RemainingActions
<1>3. CASE acts[i].status = "done"
  <2>1. /\ view' \in View /\ view'.query = view.query
        /\ "items" \in view'.excused /\ "total" \in view'.excused
        /\ loads' \in Seq(Load) /\ Len(loads') = Len(loads)
        /\ \A k \in 1..Len(loads) :
             /\ loads'[k].pc = loads[k].pc /\ loads'[k].query = loads[k].query
             /\ loads[k].excused => loads'[k].excused
             /\ loads[k].pc \in {"items", "total"} => loads'[k].excused
        /\ Selection' /\ PickIsWhole'
        /\ pick' \in {Idle} \cup [pc : {"sent", "read"}, query : Queries,
                      size : 0..Cardinality(Ids), ids : SUBSET Ids, foreign : BOOLEAN]
    <3>1. TRUE \in BOOLEAN /\ Blame(TRUE)
      BY <1>3 DEF ActionFails
    <3>2. QED BY <3>1, <1>1, BlameProperties DEF Inv, Parts
  <2>2. loads # <<>> => Len(loads) \in 1..Len(loads) /\ loads' # <<>>
    <3>1. loads # <<>> => Len(loads) \in 1..Len(loads)
      BY <1>1, Elements
    <3>2. loads' = <<>> => Len(loads) = 0
      BY <2>1, EmptySeq
    <3>3. QED BY <3>1, <3>2
  <2>3. loads # <<>> => (Ready(loads[Len(loads)]) => Ready(loads[Len(loads)])')
    BY <2>1, <2>2 DEF Ready, WillDo
  <2>4. RowsAccounted'
    <3>1. CASE \A k \in 1..Len(loads) : loads[k].pc = "total" \/ loads[k].excused
      BY <3>1, <2>1 DEF RowsAccounted
    <3>2. CASE loads # <<>> /\ loads[Len(loads)].pc # "total" /\ Ready(loads[Len(loads)])
      BY <3>2, <2>1, <2>2, <2>3 DEF RowsAccounted
    <3>3. QED BY <3>1, <3>2 DEF Inv, RowsAccounted
  <2>5. TotalAccounted'
    <3>1. CASE \A k \in 1..Len(loads) : loads[k].excused
      BY <3>1, <2>1 DEF TotalAccounted
    <3>2. CASE loads # <<>> /\ Ready(loads[Len(loads)])
      BY <3>2, <2>1, <2>2, <2>3 DEF TotalAccounted
    <3>3. QED BY <3>1, <3>2 DEF Inv, TotalAccounted
  <2>6. TypeOK'
    BY <1>1, <1>2, <2>1 DEF TypeOK, Action
  <2>7. QED BY <2>1, <2>4, <2>5, <2>6 DEF Inv
<1>4. CASE acts[i].status # "done"
  <2>1. UNCHANGED <<state, view, loads, pick>> /\ Pending' = Pending
    BY <1>1, <1>2, <1>4 DEF ActionFails, Pending
  <2>2. RowsAccounted' /\ TotalAccounted'
    BY <2>1, AccountedKept DEF Inv
  <2>3. Matching(view.query)' = Matching(view.query) /\ Matching(pick.query)' = Matching(pick.query)
    BY <2>1 DEF Matching, Visible
  <2>4. Selection' /\ PickIsWhole'
    BY <2>1, <2>3 DEF Inv, Selection, PickIsWhole
  <2>5. TypeOK'
    BY <1>1, <1>2, <2>1 DEF TypeOK, Action
  <2>6. QED BY <2>2, <2>4, <2>5 DEF Inv
<1>5. QED BY <1>3, <1>4

-----------------------------------------------------------------------------

LEMMA InitInv ==
  ASSUME Init
  PROVE  Inv
<1> DEFINE load == LoadOf(FirstQuery, FALSE)
<1>1. FirstQuery \in Queries
  BY DEF FirstQuery, Queries, Texts, FilterValues
<1>2. <<>> \in Seq(Ids) /\ 0 \in 0..Cardinality(Ids)
  BY EmptySeq, IdsAssumption, FS_CardinalityType
<1>3. load \in Load /\ load.pc = "meta" /\ load.query = FirstQuery
  BY <1>1, <1>2 DEF LoadOf, Load
<1>4. loads = <<load>>
  BY DEF Init
<1>5. view = [ query |-> FirstQuery, input |-> "", screen |-> "loading", rows |-> FirstQuery,
               items |-> <<>>, total |-> 0, selected |-> {}, all |-> FALSE, left |-> FALSE,
               excused |-> {}, foreign |-> FALSE, origins |-> {} ]
  BY DEF Init
<1> HIDE DEF load
<1>6. loads \in Seq(Load) /\ loads # <<>> /\ Len(loads) = 1 /\ loads[1] = load
  BY <1>3, <1>4, OneElement
<1>7. acts = <<>> /\ pick = Idle /\ clicks = 0
      /\ state = [i \in Ids |-> IF i \in Archived THEN "deleted" ELSE "active"]
  BY DEF Init
<1>8. ~Pending
  BY <1>7, EmptySeq DEF Pending
<1>9. view.query = FirstQuery /\ view.origins = {} /\ view.all = FALSE
  BY <1>5
<1>10. Ready(load)
  BY <1>3, <1>9 DEF Ready, WillDo
<1>11. RowsAccounted /\ TotalAccounted
  BY <1>3, <1>6, <1>10 DEF RowsAccounted, TotalAccounted
<1>12. Selection /\ PickIsWhole
  BY <1>7, <1>9 DEF Selection, PickIsWhole
<1>13. view \in View
  <2>1. "" \in Texts /\ {} \subseteq Parts /\ {} \subseteq Queries /\ {} \subseteq Ids
    BY DEF Texts
  <2>2. QED BY <2>1, <1>1, <1>2, <1>5 DEF View
<1>14. TypeOK
  <2>1. acts \in Seq([ids : SUBSET Ids, query : Queries, status : {"sent", "done", "refused"}])
    BY <1>7, EmptySeq
  <2>2. clicks \in 0..MaxClicks
    BY <1>7, BoundAssumption
  <2>3. state \in [Ids -> {"active", "deleted"}]
    BY <1>7
  <2>4. QED BY <2>1, <2>2, <2>3, <1>6, <1>7, <1>13 DEF TypeOK
<1>15. QED BY <1>11, <1>12, <1>14 DEF Inv

LEMMA NextInv ==
  ASSUME Inv, [Next]_vars
  PROVE  Inv'
<1>1. DOMAIN loads = 1..Len(loads) /\ DOMAIN acts = 1..Len(acts) /\ clicks \in 0..MaxClicks
  BY Elements DEF Inv, TypeOK
<1>2. CASE Answers
  <2>1. clicks' \in 0..MaxClicks
    BY <1>1, <1>2 DEF Answers
  <2>2. ASSUME NEW i \in DOMAIN loads,
               MetaArrives(i) \/ ListReads(i) \/ ItemsArrive(i) \/ TotalArrives(i) \/ LoadFails(i)
        PROVE  Inv'
    BY <2>1, <2>2, <1>1, MetaArrivesInv, ListReadsInv, ItemsArriveInv, TotalArrivesInv, LoadFailsInv
  <2>3. ASSUME NEW i \in DOMAIN acts, ActionApplies(i) \/ ActionEnds(i) \/ ActionFails(i)
        PROVE  Inv'
    BY <2>1, <2>3, <1>1, ActionAppliesInv, ActionEndsInv, ActionFailsInv
  <2>4. CASE PickReads \/ PickArrives \/ PickFails
    BY <2>1, <2>4, PickReadsInv, PickArrivesInv, PickFailsInv
  <2>5. QED BY <2>2, <2>3, <2>4, <1>2 DEF Answers
<1>3. CASE Operator
  <2>1. clicks' \in 0..MaxClicks
    BY <1>1, <1>3, BoundAssumption DEF Operator
  <2>2. CASE (\E f \in Filters : PickFilter(f)) \/ ToggleOrder \/ NextPage \/ PreviousPage
    BY <2>1, <2>2, QueryClicksInv
  <2>3. CASE (\E text \in Texts : TypeSearch(text)) \/ ClearSelection \/ DeleteSelected
    BY <2>1, <2>3, OtherClicksInv
  <2>4. CASE ToggleRow \/ TogglePage
    BY <2>1, <2>4, ToggleRowInv, TogglePageInv
  <2>5. CASE SelectAllMatching \/ RunBulkAction
    BY <2>1, <2>5, SelectAllMatchingInv, RunBulkActionInv
  <2>6. QED BY <2>2, <2>3, <2>4, <2>5, <1>3 DEF Operator, Click
<1>4. CASE Debounce
  BY <1>4, DebounceInv
<1>5. CASE UNCHANGED vars
  <2>1. UNCHANGED <<state, view, loads, pick, acts, clicks>>
    BY <1>5 DEF vars
  <2>2. Pending' = Pending
    BY <2>1 DEF Pending
  <2>3. RowsAccounted' /\ TotalAccounted' /\ Selection' /\ PickIsWhole'
    BY <2>1, <2>2, AccountedKept, SelectionKept, PickKept DEF Inv
  <2>4. TypeOK'
    BY <2>1 DEF Inv, TypeOK
  <2>5. QED BY <2>3, <2>4 DEF Inv
<1>6. QED BY <1>2, <1>3, <1>4, <1>5 DEF Next

THEOREM Invariance == Spec => []Inv
<1>1. Init => Inv
  BY InitInv
<1>2. Inv /\ [Next]_vars => Inv'
  BY NextInv
<1>3. QED BY <1>1, <1>2, PTL DEF Spec

(* The page, the loads, Select all and the bulk actions stay of their      *)
(* types, for any number of each.                                          *)
THEOREM TypeCorrect == Spec => []TypeOK
<1>1. Inv => TypeOK
  BY DEF Inv
<1>2. QED BY <1>1, Invariance, PTL

(* ListPage.tsx, load: answers come in any order, and still the rows and   *)
(* the total end as those of the search, filter, order and page that are   *)
(* set, when no load failed or was overtaken and no action was lost.       *)
THEOREM RowsEndCurrent == Spec => []RowsAreCurrent
<1>1. ASSUME Inv
      PROVE  RowsAreCurrent
  <2>1. SUFFICES ASSUME AtRest, view.excused = {}
                 PROVE  /\ view.rows = Filled(view.query)
                        /\ view.items = PageOf(view.query, PageSize)
                        /\ view.total = Cardinality(Matching(view.query))
    BY DEF RowsAreCurrent, Filled
  <2>2. ~Unsettled
    BY <2>1 DEF AtRest, Unsettled
  <2>3. QED BY <2>2, <1>1, SettledProperties
<1>2. QED BY <1>1, Invariance, PTL

(* ListPage.tsx, the selection: what a bulk action or a delete goes to was *)
(* selected under the search, filter and order that are set.               *)
THEOREM SelectionsFollowTheQuery == Spec => []SelectionIsOfTheQuery
<1>1. Inv => SelectionIsOfTheQuery
  BY DEF Inv, Selection, SelectionIsOfTheQuery, Whole
<1>2. QED BY <1>1, Invariance, PTL

(* ListPage.tsx, selectAllMatching: all that the banner calls all is       *)
(* every record that the query matches, for any number of pages.           *)
THEOREM AllIsEveryMatch == Spec => []AllMeansAll
<1>1. ASSUME Inv
      PROVE  AllMeansAll
  <2>1. SUFFICES ASSUME view.all, ~view.foreign
                 PROVE  /\ view.selected = Matching(view.query)
                        /\ loads = <<>> /\ view.excused = {} =>
                             Cardinality(view.selected) = view.total
    BY DEF AllMeansAll
  <2>2. view.selected = Matching(view.query) /\ ~Pending
    BY <2>1, <1>1 DEF Inv, Selection
  <2>3. ASSUME loads = <<>>, view.excused = {}
        PROVE  view.total = Cardinality(Matching(view.query))
    BY <2>2, <2>3, <1>1 DEF Inv, TotalAccounted, TotalIsCurrent
  <2>4. QED BY <2>2, <2>3
<1>2. QED BY <1>1, Invariance, PTL
=============================================================================
