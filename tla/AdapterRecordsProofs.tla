------------------------ MODULE AdapterRecordsProofs ------------------------
(***************************************************************************)
(* Theorems about AdapterRecords, for any payloads and queries and any     *)
(* number of writers and readers.                                          *)
(***************************************************************************)
EXTENDS AdapterRecords, SequenceTheorems, FiniteSetTheorems, FunctionTheorems, TLAPS

(* A record, whatever its id.                                              *)
Shape == [id : Nat, name : Values, owner : Values, tags : SUBSET Tags, deleted : BOOLEAN]

WriteShape ==
  [ pc     : {"load", "write", "save", "sync", "link", "reload", "ok", "error"},
    do     : {"create", "update", "delete"},
    id     : Nat,
    data   : Payloads \cup {<<>>},
    loaded : SUBSET Shape,
    stored : SUBSET Shape,
    result : SUBSET Shape,
    quiet  : BOOLEAN,
    before : SUBSET Shape ]

Shaped ==
  /\ adapter \in Adapters
  /\ rows \in Seq(Shape)
  /\ clock \in Nat
  /\ write \in [Writers -> WriteShape \cup {Idle}]

(* An entity is loaded for the record that the request names, before it is *)
(* written, and links are added only where some are sent.                  *)
EntityIsLoaded(q) ==
  /\ \A row \in q.loaded \cup q.stored : row.id = q.id
  /\ q.do = "create" => q.pc \notin {"load", "save"} /\ q.loaded = {} /\ q.stored = {}
  /\ Orm /\ q.do = "update" /\ q.pc = "write" => q.loaded # {}
  /\ q.pc = "save" => adapter = "typeorm" /\ q.loaded # {}
  /\ q.pc = "link" => "tags" \in DOMAIN q.data

Inv == Shaped /\ \A w \in Writers : write[w] # Idle => EntityIsLoaded(write[w])

(* An id that is not there twice.                                          *)
Unique(s, id) == \A i, k \in DOMAIN s : s[i].id = id /\ s[k].id = id => i = k

Of(T, id)     == {row \in T : row.id = id}
Others(T, id) == {row \in T : row.id # id}
Sent(data)    == [f \in DOMAIN data \cap Scalars |-> data[f]]

(* What is written of the data in each step.                               *)
Written(old, q) ==
  CASE q.pc = "sync" -> Merged(old, Sent(q.data))
    [] q.pc = "link" -> [Merged(old, Sent(q.data)) EXCEPT !.tags = old.tags \cap q.data.tags]
    [] OTHER         -> Merged(old, q.data)

(* What a request has done in each of its steps to a table s that no other *)
(* has written to: nothing to others, and to the record it names what the  *)
(* adapter of this kind does by then.                                      *)
Stage(q, s, kind) ==
  /\ q.pc \in {"load", "write", "save"} =>
       /\ ToSet(s) = q.before
       /\ q.do = "update" => Of(q.before, q.id) # {}
       /\ q.do = "update" /\ kind \in {"typeorm", "mikroorm"} /\ q.pc \in {"write", "save"} =>
            q.loaded = Of(q.before, q.id)
       /\ q.pc = "save" => q.do = "update" /\ q.stored = Of(q.before, q.id)
  /\ q.do = "delete" =>
       /\ q.pc \notin {"sync", "link", "reload"}
       /\ q.pc = "ok" => Others(ToSet(s), q.id) = Others(q.before, q.id)
  /\ q.pc \in {"sync", "link", "reload", "ok"} /\ q.do # "delete" /\ Unique(s, q.id) =>
       /\ Others(ToSet(s), q.id) = Others(q.before, q.id)
       /\ q.pc = "ok" => q.result = Of(ToSet(s), q.id)
       /\ q.do = "update" => \E old \in Shape :
            /\ Of(q.before, q.id) = {old}
            /\ q.pc \in {"sync", "link"} => q.loaded = {old}
            /\ Of(ToSet(s), q.id) = {Written(old, q)}
       /\ q.do = "create" => \E new \in Shape :
            /\ Of(q.before, q.id) = {} /\ Of(ToSet(s), q.id) = {new}
            /\ q.pc \in {"sync", "link"} => q.loaded = {} /\ new.tags = {}
            /\ \A f \in DOMAIN q.data :
                 f \in Scalars \/ q.pc \notin {"sync", "link"} => new[f] = q.data[f]

QuietInv ==
  \A w \in Writers : write[w] # Idle /\ write[w].quiet => Stage(write[w], rows, adapter)

LEMMA ShapeFields ==
  ASSUME NEW row \in Shape
  PROVE  /\ DOMAIN row = {"id"} \cup Fields \cup {"deleted"}
         /\ row.id \in Nat /\ row.name \in Values /\ row.owner \in Values
         /\ row.tags \subseteq Tags /\ row.deleted \in BOOLEAN
BY DEF Shape, Fields, Scalars

(* Data over a record changes the fields that are sent.                    *)
LEMMA MergedProperties ==
  ASSUME NEW row \in Shape, NEW data, Data(data)
  PROVE  /\ Merged(row, data) \in Shape
         /\ Merged(row, data).id = row.id /\ Merged(row, data).deleted = row.deleted
         /\ DOMAIN Merged(row, data) = DOMAIN row
         /\ \A f \in DOMAIN row :
              Merged(row, data)[f] = IF f \in DOMAIN data THEN data[f] ELSE row[f]
<1> DEFINE m == Merged(row, data)
<1>1. /\ DOMAIN m = DOMAIN row
      /\ \A f \in DOMAIN row : m[f] = IF f \in DOMAIN data THEN data[f] ELSE row[f]
  BY DEF Merged
<1>2. DOMAIN row = {"id", "name", "owner", "tags", "deleted"}
  BY ShapeFields DEF Fields, Scalars
<1>3. "id" \notin DOMAIN data /\ "deleted" \notin DOMAIN data
  BY DEF Data, Fields, Scalars
<1>4. m.id \in Nat /\ m.deleted \in BOOLEAN /\ m.id = row.id /\ m.deleted = row.deleted
  BY <1>1, <1>2, <1>3, ShapeFields
<1>5. m.name \in Values /\ m.owner \in Values
  BY <1>1, <1>2, ShapeFields DEF Data, Fields, Scalars
<1>6. m.tags \subseteq Tags
  BY <1>1, <1>2, ShapeFields DEF Data, Fields, Scalars
<1>7. m = [id |-> m.id, name |-> m.name, owner |-> m.owner, tags |-> m.tags, deleted |-> m.deleted]
  <2>1. m = [f \in DOMAIN row |-> IF f \in DOMAIN data THEN data[f] ELSE row[f]]
    BY DEF Merged
  <2> HIDE DEF m
  <2>2. QED BY <2>1, <1>2
<1> HIDE DEF m
<1>8. m \in Shape
  BY <1>4, <1>5, <1>6, <1>7 DEF Shape
<1>9. QED BY <1>1, <1>4, <1>8 DEF m

-----------------------------------------------------------------------------
(* The table.                                                              *)

LEMMA Places ==
  ASSUME Shaped
  PROVE  /\ Len(rows) \in Nat /\ DOMAIN rows = 1..Len(rows)
         /\ \A i \in 1..Len(rows) : rows[i] \in Shape /\ rows[i] \in ToSet(rows)
         /\ \A row \in ToSet(rows) : row \in Shape /\ \E i \in 1..Len(rows) : row = rows[i]
BY LenProperties, ElementOfSeq DEF Shaped, ToSet

(* An id that is there once is in one place.                               *)
LEMMA OnePlace ==
  ASSUME NEW s, NEW S, s \in Seq(S), NEW id,
         Cardinality({i \in DOMAIN s : s[i].id = id}) = 1,
         NEW i \in 1..Len(s), NEW k \in 1..Len(s), s[i].id = id, s[k].id = id
  PROVE  i = k
<1> DEFINE P == {h \in DOMAIN s : s[h].id = id}
<1>1. Len(s) \in Nat /\ DOMAIN s = 1..Len(s)
  BY LenProperties
<1>2. IsFiniteSet(1..Len(s))
  BY <1>1, FS_Interval
<1>3. P \subseteq 1..Len(s) /\ i \in P /\ k \in P /\ Cardinality(P) = 1
  BY <1>1
<1> HIDE DEF P
<1>4. IsFiniteSet(P)
  BY <1>2, <1>3, FS_Subset
<1>5. QED BY <1>3, <1>4, FS_Singleton

LEMMA OldRow ==
  ASSUME Shaped, NEW row \in ToSet(rows), NEW new \in ToSet(rows), row.id = new.id,
         Cardinality(WithId(row.id)) = 1
  PROVE  row = new
<1>1. PICK i, k \in 1..Len(rows) : row = rows[i] /\ new = rows[k]
  BY Places
<1>2. i = k
  BY <1>1, OnePlace DEF WithId, Shaped
<1>3. QED BY <1>1, <1>2

LEMMA SamePlace ==
  ASSUME Shaped, rows' \in Seq(Shape), Len(rows') = Len(rows),
         \A i \in 1..Len(rows) : rows'[i].id = rows[i].id,
         NEW row \in ToSet(rows), NEW new \in ToSet(rows'), row.id = new.id,
         Cardinality(WithId(row.id)) = 1
  PROVE  \E i \in 1..Len(rows) : row = rows[i] /\ new = rows'[i]
<1>1. PICK i \in 1..Len(rows) : row = rows[i]
  BY Places
<1>2. PICK k \in 1..Len(rows) : new = rows'[k]
  BY LenProperties DEF ToSet
<1>3. i = k
  BY <1>1, <1>2, OnePlace DEF WithId, Shaped
<1>4. QED BY <1>1, <1>2, <1>3

(* A row that is added has an id of its own, or its id is there twice.     *)
LEMMA AddedRow ==
  ASSUME Shaped, NEW x \in Shape, rows' = Append(rows, x) \/ rows' = <<x>> \o rows
  PROVE  /\ rows' \in Seq(Shape)
         /\ ToSet(rows') = ToSet(rows) \cup {x}
         /\ \A row \in ToSet(rows), new \in ToSet(rows') :
              row.id = new.id /\ Cardinality(WithId(row.id)) = 1
                /\ Cardinality(WithId(row.id)') = 1 => row = new
         /\ Unique(rows', x.id) => \A row \in ToSet(rows) : row.id # x.id
<1>1. rows \in Seq(Shape) /\ Len(rows) \in Nat
  BY Places DEF Shaped
<1> DEFINE m == Len(rows) + 1
<1>2. \E at \in 1..m, d \in {0, 1} :
        /\ rows' \in Seq(Shape) /\ Len(rows') = m /\ rows'[at] = x
        /\ \A i \in 1..Len(rows) : i + d \in 1..m /\ i + d # at /\ rows'[i + d] = rows[i]
        /\ \A k \in 1..m : k = at \/ k - d \in 1..Len(rows)
  <2>1. CASE rows' = Append(rows, x)
    <3>1. /\ rows' \in Seq(Shape) /\ Len(rows') = m
          /\ \A i \in 1..Len(rows) : rows'[i] = rows[i]
          /\ rows'[m] = x
      BY <1>1, <2>1, AppendProperties
    <3>2. m \in 1..m /\ 0 \in {0, 1}
      BY <1>1
    <3>3. \A i \in 1..Len(rows) : i + 0 \in 1..m /\ i + 0 # m /\ rows'[i + 0] = rows[i]
      BY <1>1, <3>1
    <3>4. \A k \in 1..m : k = m \/ k - 0 \in 1..Len(rows)
      BY <1>1
    <3> HIDE DEF m
    <3>5. QED BY <3>1, <3>2, <3>3, <3>4
  <2>2. CASE rows' = <<x>> \o rows
    <3>1. <<x>> \in Seq(Shape) /\ Len(<<x>>) = 1 /\ <<x>>[1] = x
      OBVIOUS
    <3>2. /\ rows' \in Seq(Shape) /\ Len(rows') = 1 + Len(rows)
          /\ \A i \in 1..(1 + Len(rows)) :
               rows'[i] = IF i <= 1 THEN <<x>>[i] ELSE rows[i - 1]
      BY <1>1, <2>2, <3>1, ConcatProperties
    <3>3. 1 \in 1..m /\ 1 \in {0, 1} /\ Len(rows') = m /\ rows'[1] = x
      BY <1>1, <3>1, <3>2
    <3>4. ASSUME NEW i \in 1..Len(rows)
          PROVE  i + 1 \in 1..m /\ i + 1 # 1 /\ rows'[i + 1] = rows[i]
      <4>1. i + 1 \in 1..(1 + Len(rows)) /\ ~(i + 1 <= 1) /\ (i + 1) - 1 = i /\ i + 1 # 1
        BY <1>1
      <4>2. rows'[i + 1] = rows[i]
        BY <4>1, <3>2
      <4>3. QED BY <4>1, <4>2, <1>1
    <3>5. \A k \in 1..m : k = 1 \/ k - 1 \in 1..Len(rows)
      BY <1>1
    <3> HIDE DEF m
    <3>6. QED BY <3>2, <3>3, <3>4, <3>5
  <2>3. QED BY <2>1, <2>2
<1>3. PICK at \in 1..m, d \in {0, 1} :
        /\ rows' \in Seq(Shape) /\ Len(rows') = m /\ rows'[at] = x
        /\ \A i \in 1..Len(rows) : i + d \in 1..m /\ i + d # at /\ rows'[i + d] = rows[i]
        /\ \A k \in 1..m : k = at \/ k - d \in 1..Len(rows)
  BY <1>2
<1>4. DOMAIN rows' = 1..m
  BY <1>3
<1> HIDE DEF m
<1>5. ASSUME NEW new \in ToSet(rows')
      PROVE  new \in ToSet(rows) \/ new = x
  <2>1. PICK k \in 1..m : new = rows'[k]
    BY <1>4 DEF ToSet
  <2>2. CASE k = at
    BY <2>1, <2>2, <1>3
  <2>3. CASE k # at
    <3>1. k - d \in 1..Len(rows) /\ (k - d) + d = k
      BY <2>1, <2>3, <1>1, <1>3
    <3>2. new = rows[k - d]
      BY <3>1, <2>1, <1>3
    <3>3. QED BY <3>1, <3>2, Places
  <2>4. QED BY <2>2, <2>3
<1>6. ASSUME NEW row \in ToSet(rows)
      PROVE  /\ row \in ToSet(rows')
             /\ row.id = x.id => Cardinality(WithId(row.id)') # 1 /\ ~Unique(rows', x.id)
  <2>1. PICK i \in 1..Len(rows) : row = rows[i]
    BY Places
  <2>2. i + d \in 1..m /\ i + d # at /\ rows'[i + d] = row
    BY <2>1, <1>3
  <2>3. row \in ToSet(rows')
    BY <2>2, <1>4 DEF ToSet
  <2>4. row.id = x.id => Cardinality({h \in DOMAIN rows' : rows'[h].id = row.id}) # 1
    BY <2>2, <1>3, OnePlace
  <2>5. row.id = x.id => ~Unique(rows', x.id)
    BY <2>2, <1>3, <1>4 DEF Unique
  <2>6. QED BY <2>3, <2>4, <2>5 DEF WithId
<1>7. x \in ToSet(rows')
  BY <1>3, <1>4 DEF ToSet
<1>8. QED BY <1>3, <1>5, <1>6, <1>7, OldRow

(* The fields that a request accounts for.                                 *)
By(q, f, row, new) ==
  \/ f \in Scalars \cap DOMAIN q.data /\ new[f] = q.data[f]
  \/ f = "deleted" /\ q.do = "delete" /\ new.deleted
  \/ f = "tags" /\ "tags" \in DOMAIN q.data /\ Towards(row, new, q.data.tags)
  \/ /\ adapter = "typeorm"
     /\ \E old \in q.loaded : IF f = "tags" THEN Towards(row, new, old.tags) ELSE new[f] = old[f]

ChangesAccounted ==
  \A row \in ToSet(rows), new \in ToSet(rows') :
    row.id = new.id /\ Cardinality(WithId(row.id)) = 1 /\ Cardinality(WithId(row.id)') = 1 =>
      \A f \in DOMAIN row : new[f] # row[f] => Accounted(f, row, new)

(* Rows that are changed where they are.                                   *)
LEMMA RowsInPlace ==
  ASSUME Shaped, rows' \in [1..Len(rows) -> Shape], NEW w \in Writers, write[w] # Idle,
         write[w].pc \notin {"ok", "error"},
         \A i \in 1..Len(rows) :
           /\ rows'[i].id = rows[i].id
           /\ \/ rows'[i] = rows[i]
              \/ /\ rows[i].id = write[w].id
                 /\ \A f \in DOMAIN rows[i] :
                      rows'[i][f] # rows[i][f] => By(write[w], f, rows[i], rows'[i])
  PROVE  rows' \in Seq(Shape) /\ Len(rows') = Len(rows) /\ ChangesAccounted
<1>1. rows' \in Seq(Shape) /\ Len(rows') = Len(rows)
  BY Places
<1>2. ASSUME NEW row \in ToSet(rows), NEW new \in ToSet(rows'), row.id = new.id,
             Cardinality(WithId(row.id)) = 1, NEW f \in DOMAIN row, new[f] # row[f]
      PROVE  Accounted(f, row, new)
  <2>1. PICK i \in 1..Len(rows) : row = rows[i] /\ new = rows'[i]
    BY <1>1, <1>2, SamePlace
  <2>2. write[w].id = row.id /\ By(write[w], f, row, new)
    BY <1>2, <2>1
  <2>3. QED BY <2>2 DEF By, Accounted, Answered
<1>3. QED BY <1>1, <1>2 DEF ChangesAccounted

LEMMA RowsAsTheyAre ==
  ASSUME Shaped, rows' = rows
  PROVE  rows' \in Seq(Shape) /\ ChangesAccounted
BY OldRow DEF Shaped, ChangesAccounted

(* Places are numbered in their order.                                     *)
LEMMA PlacesAreNumbered ==
  ASSUME NEW m \in Nat, NEW P \in SUBSET (1..m)
  PROVE  /\ Cardinality(P) \in Nat /\ Cardinality(P) <= m
         /\ \A i \in P : /\ Cardinality({h \in P : h <= i}) \in 1..Cardinality(P)
                         /\ Cardinality({h \in P : h <= i}) <= i
         /\ \A i, j \in P :
              Cardinality({h \in P : h <= i}) = Cardinality({h \in P : h <= j}) => i = j
         /\ \A k \in 1..Cardinality(P) : \E i \in P : Cardinality({h \in P : h <= i}) = k
<1> DEFINE upto(i) == {h \in P : h <= i}
           n == Cardinality(P)
<1>1. ASSUME NEW k \in Nat
      PROVE  IsFiniteSet(1..k) /\ Cardinality(1..k) = k
  <2>1. IsFiniteSet(1..k) /\ Cardinality(1..k) = IF 1 > k THEN 0 ELSE k - 1 + 1
    BY FS_Interval
  <2>2. QED BY <2>1
<1>2. IsFiniteSet(P) /\ n \in Nat /\ n <= m
  <2>1. IsFiniteSet(1..m) /\ Cardinality(1..m) = m
    BY <1>1
  <2>2. IsFiniteSet(P) /\ n <= m
    BY <2>1, FS_Subset
  <2>3. QED BY <2>2, FS_CardinalityType
<1>3. ASSUME NEW i \in P
      PROVE  /\ IsFiniteSet(upto(i)) /\ Cardinality(upto(i)) \in 1..n
             /\ Cardinality(upto(i)) <= i /\ i \in Nat
  <2>1. /\ i \in Nat /\ upto(i) \subseteq P /\ upto(i) \subseteq 1..i /\ i \in upto(i)
    <3>1. \A h \in P : h \in Int /\ h >= 1
      OBVIOUS
    <3>2. i \in Nat /\ i <= i
      OBVIOUS
    <3>3. upto(i) \subseteq P
      OBVIOUS
    <3>4. i \in upto(i)
      BY <3>2
    <3>5. \A h \in upto(i) : h \in 1..i
      BY <3>1
    <3>6. QED BY <3>2, <3>3, <3>4, <3>5
  <2> HIDE DEF upto
  <2>2. /\ IsFiniteSet(upto(i)) /\ Cardinality(upto(i)) \in Nat
        /\ Cardinality(upto(i)) <= n /\ Cardinality(upto(i)) <= i
    BY <2>1, <1>1, <1>2, FS_Subset, FS_CardinalityType
  <2>3. Cardinality(upto(i)) # 0
    BY <2>1, <2>2, FS_EmptySet
  <2>4. QED BY <2>1, <2>2, <2>3, <1>2
<1>4. ASSUME NEW i \in P, NEW j \in P, i < j
      PROVE  Cardinality(upto(i)) # Cardinality(upto(j))
  <2>1. upto(i) \subseteq upto(j) /\ j \in upto(j) /\ j \notin upto(i)
    <3>1. i \in Nat /\ j \in Nat /\ \A h \in P : h \in Nat
      OBVIOUS
    <3>2. \A h \in upto(i) : h \in upto(j)
      BY <3>1, <1>4
    <3>3. j \in upto(j) /\ j \notin upto(i)
      BY <3>1, <1>4
    <3>4. QED BY <3>2, <3>3
  <2> HIDE DEF upto
  <2>2. QED BY <2>1, <1>3, FS_Subset
<1>5. \A i, j \in P : Cardinality(upto(i)) = Cardinality(upto(j)) => i = j
  <2>1. SUFFICES ASSUME NEW i \in P, NEW j \in P, i # j
                 PROVE  Cardinality(upto(i)) # Cardinality(upto(j))
    OBVIOUS
  <2>2. i < j \/ j < i
    BY <2>1
  <2> HIDE DEF upto
  <2>3. QED BY <2>2, <1>4
<1>6. \A k \in 1..n : \E i \in P : Cardinality(upto(i)) = k
  <2> DEFINE rank == [i \in P |-> Cardinality(upto(i))]
  <2> HIDE DEF upto
  <2>1. rank \in [P -> 1..n] /\ \A i \in P : rank[i] = Cardinality(upto(i))
    BY <1>3
  <2> HIDE DEF rank
  <2>2. rank \in Injection(P, 1..n)
    BY <2>1, <1>5 DEF Injection, IsInjective
  <2>3. rank \in Surjection(P, 1..n)
    BY <2>2, <1>1, <1>2, FS_Injection
  <2>4. QED BY <2>1, <2>3 DEF Surjection
<1>7. QED BY <1>2, <1>3, <1>5, <1>6

(* A hard delete leaves the rows with other ids.                           *)
LEMMA RowsLeft ==
  ASSUME Shaped, NEW id
  PROVE  /\ Without(id) \in Seq(Shape)
         /\ ToSet(Without(id)) = {row \in ToSet(rows) : row.id # id}
<1> DEFINE js == {row \in ToSet(rows) : row.id # id}
           P == {i \in DOMAIN rows : rows[i] \in js}
           rank(i) == Cardinality({h \in P : h <= i})
           n == Cardinality(P)
           place(k) == CHOOSE i \in P : rank(i) = k
           t == Without(id)
<1>1. t = [k \in 1..n |-> rows[place(k)]]
  BY DEF Without, Kept
<1>2. /\ n \in Nat
      /\ \A i \in P : rank(i) \in 1..n
      /\ \A i, j \in P : rank(i) = rank(j) => i = j
      /\ \A k \in 1..n : \E i \in P : rank(i) = k
  <2>1. Len(rows) \in Nat /\ P \in SUBSET (1..Len(rows))
    BY Places
  <2> HIDE DEF P
  <2>2. QED BY <2>1, PlacesAreNumbered
<1>3. \A i \in P : i \in 1..Len(rows) /\ rows[i] \in js /\ rows[i] \in Shape
  BY Places
<1>4. \A row \in js : \E i \in P : row = rows[i]
  BY Places
<1> HIDE DEF P, rank, n, t, js
<1>5. \A k \in 1..n : place(k) \in P /\ rank(place(k)) = k
  BY <1>2
<1>6. \A i \in P : place(rank(i)) = i
  BY <1>2, <1>5
<1> HIDE DEF place
<1>7. /\ t \in [1..n -> Shape] /\ DOMAIN t = 1..n
      /\ \A k \in 1..n : t[k] = rows[place(k)]
  BY <1>1, <1>3, <1>5
<1>8. t \in Seq(Shape)
  BY <1>2, <1>7
<1>9. ASSUME NEW row \in ToSet(t)
      PROVE  row \in js
  <2>1. PICK k \in 1..n : row = t[k]
    BY <1>7 DEF ToSet
  <2>2. QED BY <2>1, <1>3, <1>5, <1>7
<1>10. ASSUME NEW row \in js
       PROVE  row \in ToSet(t)
  <2>1. PICK i \in P : row = rows[i]
    BY <1>4
  <2>2. rank(i) \in 1..n /\ t[rank(i)] = row
    BY <2>1, <1>2, <1>6, <1>7
  <2>3. QED BY <2>2, <1>7 DEF ToSet
<1>11. ToSet(t) = js
  BY <1>9, <1>10
<1>12. QED BY <1>8, <1>11 DEF t, js

-----------------------------------------------------------------------------
(* The requests.                                                           *)

LEMMA InFlight ==
  ASSUME Inv, NEW w \in Writers, write[w] # Idle
  PROVE  write[w] \in WriteShape /\ EntityIsLoaded(write[w])
BY DEF Inv, Shaped

(* To make the others overlap changes nothing but their history.           *)
LEMMA NoisyWrites ==
  ASSUME Inv, NEW w
  PROVE  /\ Noisy(write, w) \in [Writers -> WriteShape \cup {Idle}]
         /\ \A v \in Writers :
              /\ Noisy(write, w)[v] = Idle <=> write[v] = Idle
              /\ write[v] # Idle => EntityIsLoaded(Noisy(write, w)[v])
<1>1. DOMAIN write = Writers
  BY DEF Inv, Shaped
<1>2. ASSUME NEW v \in Writers
      PROVE  /\ Noisy(write, w)[v] \in WriteShape \cup {Idle}
             /\ Noisy(write, w)[v] = Idle <=> write[v] = Idle
             /\ write[v] # Idle => EntityIsLoaded(Noisy(write, w)[v])
  <2>1. CASE write[v] = Idle \/ v = w
    <3>1. Noisy(write, w)[v] = write[v]
      BY <1>1, <2>1 DEF Noisy
    <3>2. QED BY <3>1, InFlight DEF Inv, Shaped
  <2>2. CASE write[v] # Idle /\ v # w
    <3> DEFINE q == write[v]
    <3>1. q \in WriteShape /\ EntityIsLoaded(q)
      BY <2>2, InFlight
    <3>2. "before" \in DOMAIN q
      BY <3>1 DEF WriteShape
    <3>3. Noisy(write, w)[v] = [q EXCEPT !.quiet = FALSE, !.before = {}]
      BY <1>1, <2>2, <3>2 DEF Noisy
    <3> HIDE DEF q
    <3>4. [q EXCEPT !.quiet = FALSE, !.before = {}] \in WriteShape
      BY <3>1 DEF WriteShape
    <3>5. EntityIsLoaded([q EXCEPT !.quiet = FALSE, !.before = {}])
      BY <3>1 DEF WriteShape, EntityIsLoaded
    <3>6. [q EXCEPT !.quiet = FALSE, !.before = {}] # Idle
      BY <3>4 DEF WriteShape, Idle
    <3>7. QED BY <2>2, <3>3, <3>4, <3>5, <3>6
  <2>3. QED BY <2>1, <2>2
<1>3. Noisy(write, w) = [v \in Writers |-> Noisy(write, w)[v]]
  BY <1>1 DEF Noisy
<1>4. QED BY <1>2, <1>3

(* A request goes on.                                                      *)
LEMMA WriteGoesOn ==
  ASSUME Inv, NEW w \in Writers, NEW q \in WriteShape, EntityIsLoaded(q),
         \/ write' = [write EXCEPT ![w] = q]
         \/ write' = [Noisy(write, w) EXCEPT ![w] = q],
         UNCHANGED adapter, rows' \in Seq(Shape), clock' \in Nat
  PROVE  Inv'
<1>1. PICK slots \in [Writers -> WriteShape \cup {Idle}] :
        /\ write' = [slots EXCEPT ![w] = q]
        /\ \A v \in Writers : slots[v] # Idle => EntityIsLoaded(slots[v])
  BY NoisyWrites DEF Inv, Shaped
<1>2. write' \in [Writers -> WriteShape \cup {Idle}]
  BY <1>1
<1>3. ASSUME NEW v \in Writers, write'[v] # Idle
      PROVE  EntityIsLoaded(write'[v])
  BY <1>1, <1>3
<1>4. Shaped'
  BY <1>2 DEF Inv, Shaped, Idle, WriteShape, Shape
<1>5. \A v \in Writers : write'[v] # Idle => EntityIsLoaded(write[v])'
  BY <1>3 DEF EntityIsLoaded, Orm
<1>6. QED BY <1>4, <1>5 DEF Inv, Idle

LEMMA WriteFields ==
  ASSUME NEW q \in WriteShape
  PROVE  /\ Data(q.data) /\ q.id \in Nat /\ q.loaded \subseteq Shape /\ q.stored \subseteq Shape
         /\ DOMAIN q = {"pc", "do", "id", "data", "loaded", "stored", "result", "quiet", "before"}
<1>1. DOMAIN <<>> = {}
  OBVIOUS
<1>2. Data(<<>>)
  BY <1>1 DEF Data
<1>3. QED BY <1>2, PayloadAssumption DEF WriteShape

LEMMA RequestShape ==
  ASSUME Inv, NEW do \in {"create", "update", "delete"}, NEW id \in Nat,
         NEW data \in Payloads \cup {<<>>}
  PROVE  Request(do, id, data) \in WriteShape
<1>1. ToSet(rows) \subseteq Shape
  BY Places DEF Inv
<1>2. Alone \in BOOLEAN /\ (IF Alone THEN ToSet(rows) ELSE {}) \in SUBSET Shape
  BY <1>1 DEF Alone
<1>3. QED BY <1>2 DEF Request, WriteShape

LEMMA StartInv ==
  ASSUME Inv, NEW w \in Writers, StartCreate(w) \/ StartUpdate(w) \/ StartDelete(w)
  PROVE  Inv' /\ ChangesAccounted
<1>1. ASSUME NEW do \in {"create", "update", "delete"}, NEW id \in Nat,
             NEW data \in Payloads \cup {<<>>}, Become(w, Request(do, id, data))
      PROVE  Inv' /\ ChangesAccounted
  <2> DEFINE q == Request(do, id, data)
  <2>3. q \in WriteShape
    BY RequestShape
  <2>4. EntityIsLoaded(q)
    BY DEF Request, EntityIsLoaded
  <2>5. write' = [write EXCEPT ![w] = q] /\ UNCHANGED <<adapter, rows, clock>>
    BY <1>1 DEF Become
  <2> HIDE DEF q
  <2>6. Inv'
    BY <2>3, <2>4, <2>5, WriteGoesOn DEF Inv, Shaped
  <2>7. QED BY <2>5, <2>6, RowsAsTheyAre DEF Inv
<1>2. CASE StartCreate(w)
  BY <1>1, <1>2 DEF StartCreate
<1>3. CASE StartUpdate(w)
  <2>1. PICK id \in 1..MaxId, data \in Payloads : Become(w, Request("update", id, data))
    BY <1>3 DEF StartUpdate
  <2>2. id \in Nat
    BY SizeAssumption
  <2>3. QED BY <2>1, <2>2, <1>1
<1>4. CASE StartDelete(w)
  <2>1. PICK id \in 1..MaxId : Become(w, Request("delete", id, <<>>))
    BY <1>4 DEF StartDelete
  <2>2. id \in Nat
    BY SizeAssumption
  <2>3. QED BY <2>1, <2>2, <1>1
<1>5. QED BY <1>2, <1>3, <1>4

(* A request goes on without a write: it ends, or has read its record.     *)
LEMMA BecomeInv ==
  ASSUME Inv, NEW w \in Writers, NEW q \in WriteShape, EntityIsLoaded(q), Become(w, q)
  PROVE  Inv' /\ ChangesAccounted
<1>1. write' = [write EXCEPT ![w] = q] /\ UNCHANGED <<adapter, rows, clock>>
  BY DEF Become
<1>2. QED BY <1>1, WriteGoesOn, RowsAsTheyAre DEF Inv, Shaped

LEMMA NextPc ==
  ASSUME Inv, NEW w \in Writers, write[w] # Idle, NEW pc \in {"sync", "reload", "ok", "error"}
  PROVE  /\ [write[w] EXCEPT !.pc = pc] \in WriteShape
         /\ EntityIsLoaded([write[w] EXCEPT !.pc = pc])
BY InFlight DEF WriteShape, EntityIsLoaded

LEMMA LinkPc ==
  ASSUME Inv, NEW w \in Writers, write[w] # Idle, NEW pc \in {"link", "reload"},
         "tags" \in DOMAIN write[w].data, write[w].pc \in {"sync", "link"}
  PROVE  /\ [write[w] EXCEPT !.pc = pc] \in WriteShape
         /\ EntityIsLoaded([write[w] EXCEPT !.pc = pc])
<1> DEFINE q == write[w]
           n == [q EXCEPT !.pc = pc]
<1>1. q \in WriteShape /\ EntityIsLoaded(q)
  BY InFlight
<1> HIDE DEF q
<1>2. /\ n \in WriteShape /\ n.pc = pc /\ n.do = q.do /\ n.id = q.id /\ n.data = q.data
      /\ n.loaded = q.loaded /\ n.stored = q.stored
  BY <1>1 DEF WriteShape
<1> HIDE DEF n
<1>3. EntityIsLoaded(n)
  BY <1>1, <1>2 DEF EntityIsLoaded, q
<1>4. QED BY <1>2, <1>3 DEF n, q

LEMMA LoadInv ==
  ASSUME Inv, NEW w \in Writers, Load(w)
  PROVE  Inv' /\ ChangesAccounted
<1> DEFINE q == write[w]
           l == [q EXCEPT !.pc = "write", !.loaded = RowsOf(q.id)]
<1>1. q # Idle /\ q.pc = "load"
  BY DEF Load, Idle
<1>2. q \in WriteShape /\ EntityIsLoaded(q)
  BY <1>1, InFlight
<1>3. CASE WithId(q.id) # {}
  <2>1. Become(w, l)
    BY <1>3 DEF Load
  <2>2. RowsOf(q.id) \subseteq Shape /\ RowsOf(q.id) # {} /\ \A old \in RowsOf(q.id) : old.id = q.id
    BY <1>3, Places DEF Inv, RowsOf, WithId
  <2> HIDE DEF q
  <2>3. l \in WriteShape
    BY <1>2, <2>2 DEF WriteShape
  <2>4. /\ l.loaded = RowsOf(q.id) /\ l.pc = "write" /\ l.do = q.do /\ l.id = q.id
    BY <1>2 DEF WriteShape
  <2>5. EntityIsLoaded(l)
    BY <1>1, <1>2, <2>2, <2>4 DEF EntityIsLoaded
  <2> HIDE DEF l
  <2>6. QED BY <2>1, <2>3, <2>5, BecomeInv
<1>4. CASE WithId(q.id) = {}
  <2>1. PICK pc \in {"ok", "error"} : Become(w, [q EXCEPT !.pc = pc])
    BY <1>4 DEF Load
  <2>2. QED BY <1>1, <2>1, NextPc, BecomeInv
<1>5. QED BY <1>3, <1>4

LEMMA CreateInv ==
  ASSUME Inv, NEW w \in Writers, Create(w)
  PROVE  Inv' /\ ChangesAccounted
<1> DEFINE q   == write[w]
           row == NewRow(q.data, clock)
           pc  == CASE adapter = "typeorm" -> "sync" [] adapter = "mikroorm" -> "reload" [] OTHER -> "ok"
           done == [q EXCEPT !.id = clock, !.result = IF Orm THEN {} ELSE {row}, !.pc = pc]
<1>1. q # Idle /\ q.pc = "write" /\ q.do = "create"
  BY DEF Create, Idle
<1>2. q \in WriteShape /\ EntityIsLoaded(q) /\ Data(q.data) /\ clock \in Nat
  BY <1>1, InFlight, WriteFields DEF Inv, Shaped
<1>3. row \in Shape
  <2> DEFINE d == IF adapter = "typeorm" THEN [f \in DOMAIN q.data \cap Scalars |-> q.data[f]] ELSE q.data
             empty == [id |-> clock, name |-> 1, owner |-> 1, tags |-> {}, deleted |-> FALSE]
  <2>1. Data(d)
    BY <1>2 DEF Data, Scalars, Fields
  <2>2. empty \in Shape
    BY <1>2 DEF Shape, Values
  <2>3. row = Merged(empty, d)
    BY DEF NewRow
  <2> HIDE DEF d, empty, row
  <2>4. QED BY <2>1, <2>2, <2>3, MergedProperties
<1>4. pc \in {"sync", "reload", "ok"}
  OBVIOUS
<1>5. /\ rows' = <<row>> \o rows \/ rows' = Append(rows, row)
      /\ write' = [Noisy(write, w) EXCEPT ![w] = done]
      /\ UNCHANGED adapter /\ clock' \in {clock, clock + 1}
  BY DEF Create, Commit
<1> HIDE DEF row, pc, q
<1>6. done \in WriteShape
  <2>1. (IF Orm THEN {} ELSE {row}) \in SUBSET Shape
    BY <1>3
  <2>2. QED BY <1>2, <1>4, <2>1 DEF WriteShape
<1>7. done.loaded = {} /\ done.do = "create" /\ done.pc = pc /\ done.stored = {}
  BY <1>1, <1>2 DEF WriteShape, EntityIsLoaded
<1>8. EntityIsLoaded(done)
  BY <1>4, <1>7 DEF EntityIsLoaded
<1>9. rows' \in Seq(Shape) /\ ChangesAccounted
  BY <1>3, <1>5, AddedRow DEF Inv, ChangesAccounted
<1> HIDE DEF done
<1>10. clock' \in Nat
  BY <1>2, <1>5
<1>11. QED BY <1>5, <1>6, <1>8, <1>9, <1>10, WriteGoesOn

(* A request goes on with a write to rows where they are.                  *)
LEMMA CommitInPlace ==
  ASSUME Inv, NEW w \in Writers, write[w] # Idle, write[w].pc \notin {"ok", "error"},
         NEW next \in [1..Len(rows) -> Shape], NEW q \in WriteShape, EntityIsLoaded(q),
         Commit(w, next, q), UNCHANGED clock,
         \A i \in 1..Len(rows) :
           /\ next[i].id = rows[i].id
           /\ \/ next[i] = rows[i]
              \/ /\ rows[i].id = write[w].id
                 /\ \A f \in DOMAIN rows[i] :
                      next[i][f] # rows[i][f] => By(write[w], f, rows[i], next[i])
  PROVE  Inv' /\ ChangesAccounted
<1>1. /\ rows' = next /\ UNCHANGED adapter
      /\ write' = [Noisy(write, w) EXCEPT ![w] = q]
  BY DEF Commit
<1>2. rows' \in Seq(Shape) /\ ChangesAccounted
  BY <1>1, RowsInPlace DEF Inv
<1>3. clock' \in Nat
  BY DEF Inv, Shaped
<1>4. QED BY <1>1, <1>2, <1>3, WriteGoesOn

LEMMA EarliestPlace ==
  ASSUME Inv, NEW id, WithId(id) # {}
  PROVE  Earliest(WithId(id)) \in 1..Len(rows) /\ rows[Earliest(WithId(id))].id = id
<1> DEFINE P == WithId(id)
<1>1. P \subseteq Nat /\ P # {} /\ \A i \in P : i \in 1..Len(rows) /\ rows[i].id = id
  BY Places DEF Inv, WithId
<1> HIDE DEF P
<1> DEFINE upto(i) == {h \in P : h <= i}
<1>2. /\ \A i \in P : Cardinality(upto(i)) \in 1..Cardinality(P)
      /\ \A k \in 1..Cardinality(P) : \E i \in P : Cardinality(upto(i)) = k
      /\ Cardinality(P) \in Nat
  <2>1. Len(rows) \in Nat /\ P \in SUBSET (1..Len(rows))
    BY <1>1, Places DEF Inv
  <2>2. QED BY <2>1, PlacesAreNumbered
<1>3. PICK i \in P : Cardinality(upto(i)) = 1
  <2> HIDE DEF upto
  <2>1. PICK k \in P : Cardinality(upto(k)) \in 1..Cardinality(P)
    BY <1>1, <1>2
  <2>2. 1 \in 1..Cardinality(P)
    BY <1>2, <2>1
  <2>3. QED BY <1>2, <2>2
<1>4. ASSUME NEW k \in P
      PROVE  i <= k
  <2>1. SUFFICES ASSUME k < i PROVE FALSE
    BY <1>1
  <2>2. k \in upto(i) /\ i \in upto(i) /\ k # i
    BY <1>1, <2>1
  <2>3. upto(i) \subseteq 1..Len(rows) /\ IsFiniteSet(1..Len(rows))
    <3>1. Len(rows) \in Nat
      BY Places DEF Inv
    <3>2. IsFiniteSet(1..Len(rows))
      BY <3>1, FS_Interval
    <3>3. QED BY <1>1, <3>2
  <2> HIDE DEF upto
  <2>4. IsFiniteSet(upto(i))
    BY <2>3, FS_Subset
  <2>5. QED BY <1>3, <2>2, <2>4, FS_Singleton
<1>5. Earliest(P) \in P
  BY <1>4 DEF Earliest
<1>6. QED BY <1>1, <1>5 DEF P

LEMMA UpdateAtOnceInv ==
  ASSUME Inv, NEW w \in Writers, UpdateAtOnce(w)
  PROVE  Inv' /\ ChangesAccounted
<1> DEFINE q == write[w]
           i == Earliest(WithId(q.id))
           m == Merged(rows[i], q.data)
           done == [q EXCEPT !.pc = "ok", !.result = {m}]
<1>1. q # Idle /\ q.pc = "write"
  BY DEF UpdateAtOnce, Idle
<1>2. q \in WriteShape /\ EntityIsLoaded(q) /\ Data(q.data)
  BY <1>1, InFlight, WriteFields
<1>3. CASE WithId(q.id) = {}
  <2>1. Become(w, [q EXCEPT !.pc = "error"])
    BY <1>3 DEF UpdateAtOnce
  <2>2. QED BY <1>1, <2>1, NextPc, BecomeInv
<1>4. CASE WithId(q.id) # {}
  <2>1. i \in 1..Len(rows) /\ rows[i].id = q.id /\ rows[i] \in Shape
    BY <1>4, EarliestPlace, Places DEF Inv
  <2>2. Commit(w, [rows EXCEPT ![i] = m], done) /\ UNCHANGED clock
    BY <1>4 DEF UpdateAtOnce, Replace
  <2> HIDE DEF q, i
  <2>3. /\ m \in Shape /\ m.id = rows[i].id
        /\ \A f \in DOMAIN rows[i] : m[f] # rows[i][f] => f \in DOMAIN q.data /\ m[f] = q.data[f]
    BY <1>2, <2>1, MergedProperties
  <2>4. done \in WriteShape /\ EntityIsLoaded(done)
    BY <1>2, <2>3 DEF WriteShape, EntityIsLoaded
  <2>5. \A f \in DOMAIN rows[i] : m[f] # rows[i][f] => By(q, f, rows[i], m)
    <3>1. SUFFICES ASSUME NEW f \in DOMAIN rows[i], m[f] # rows[i][f]
                   PROVE  By(q, f, rows[i], m)
      OBVIOUS
    <3>2. f \in DOMAIN q.data /\ m[f] = q.data[f] /\ f \in Scalars \cup {"tags"}
      BY <1>2, <2>3, <3>1 DEF Data, Fields
    <3>3. QED BY <3>2 DEF By, Towards
  <2> DEFINE next == [rows EXCEPT ![i] = m]
  <2> HIDE DEF m, done
  <2>6. next \in [1..Len(rows) -> Shape] /\ \A k \in 1..Len(rows) : next[k] = IF k = i THEN m ELSE rows[k]
    BY <2>1, <2>3, Places DEF Inv, Shaped
  <2>7. Commit(w, next, done)
    BY <2>2
  <2> HIDE DEF next
  <2>8. QED BY <1>1, <2>1, <2>2, <2>3, <2>4, <2>5, <2>6, <2>7, CommitInPlace DEF q
<1>5. QED BY <1>3, <1>4

(* The rows with an id, brought from what one row is to what another is.   *)
BroughtRows(id, from, to) ==
  [i \in DOMAIN rows |-> IF rows[i].id = id THEN Brought(rows[i], from, to) ELSE rows[i]]

LEMMA BroughtProperties ==
  ASSUME NEW row \in Shape, NEW from \in Shape, NEW to \in Shape, from.id = to.id,
         NEW new, new = Brought(row, from, to)
  PROVE  /\ new \in Shape /\ new.id = row.id
         /\ \A f \in DOMAIN row : f # "tags" /\ new[f] # row[f] => new[f] = to[f] /\ to[f] # from[f]
         /\ Towards(row, new, to.tags) /\ (new.tags # row.tags => to.tags # from.tags)
         /\ row = from => new = to
<1>1. \A x \in Shape : /\ DOMAIN x = {"id", "name", "owner", "tags", "deleted"}
                       /\ x.id \in Nat /\ x.name \in Values /\ x.owner \in Values
                       /\ x.tags \subseteq Tags /\ x.deleted \in BOOLEAN
  BY ShapeFields DEF Fields, Scalars
<1> DEFINE tags == (row.tags \ (from.tags \ to.tags)) \cup (to.tags \ from.tags)
<1>2. /\ DOMAIN new = DOMAIN row /\ new.tags = tags
      /\ \A f \in DOMAIN row : f # "tags" => new[f] = IF to[f] # from[f] THEN to[f] ELSE row[f]
  BY <1>1 DEF Brought
<1>3. new = [id |-> new.id, name |-> new.name, owner |-> new.owner,
             tags |-> new.tags, deleted |-> new.deleted]
  <2>1. new = [f \in DOMAIN row |-> new[f]]
    BY DEF Brought
  <2>2. QED BY <1>1, <1>2, <2>1
<1>4. /\ new.id = row.id
      /\ new.name \in Values /\ new.owner \in Values /\ new.deleted \in BOOLEAN
  BY <1>1, <1>2
<1>5. tags \subseteq Tags
  BY <1>1
<1>6. new \in Shape
  BY <1>1, <1>2, <1>3, <1>4, <1>5 DEF Shape
<1>7. Towards(row, new, to.tags) /\ (new.tags # row.tags => to.tags # from.tags)
  BY <1>2 DEF Towards
<1>8. ASSUME row = from
      PROVE  new = to
  <2>1. tags = to.tags
    BY <1>8
  <2>2. \A f \in DOMAIN row : new[f] = to[f]
    BY <1>2, <1>8, <2>1
  <2>3. to = [id |-> to.id, name |-> to.name, owner |-> to.owner,
              tags |-> to.tags, deleted |-> to.deleted]
    BY DEF Shape
  <2>4. QED BY <1>1, <1>3, <2>2, <2>3
<1>9. QED BY <1>2, <1>4, <1>6, <1>7, <1>8

LEMMA BroughtPlaces ==
  ASSUME Shaped, NEW from \in Shape, NEW to \in Shape, NEW id, from.id = id, to.id = id,
         NEW next, next = BroughtRows(id, from, to)
  PROVE  /\ next \in [1..Len(rows) -> Shape]
         /\ \A i \in 1..Len(rows) :
              /\ next[i] = IF rows[i].id = id THEN Brought(rows[i], from, to) ELSE rows[i]
              /\ rows[i] \in Shape /\ next[i].id = rows[i].id
<1>1. DOMAIN rows = 1..Len(rows) /\ \A i \in 1..Len(rows) : rows[i] \in Shape
  BY Places
<1>2. \A row \in Shape : Brought(row, from, to) \in Shape /\ Brought(row, from, to).id = row.id
  BY BroughtProperties
<1>3. next = [i \in 1..Len(rows) |-> IF rows[i].id = id THEN Brought(rows[i], from, to) ELSE rows[i]]
  BY <1>1 DEF BroughtRows
<1>4. QED BY <1>1, <1>2, <1>3

LEMMA FlushInv ==
  ASSUME Inv, NEW w \in Writers, Flush(w)
  PROVE  Inv' /\ ChangesAccounted
<1> DEFINE q      == write[w]
           old    == CHOOSE row \in q.loaded : TRUE
           entity == Merged(old, q.data)
           next   == BroughtRows(q.id, old, entity)
<1>1. q # Idle /\ q.pc = "write" /\ q.do = "update" /\ adapter = "mikroorm"
  BY DEF Flush, Idle, Changed
<1>2. q \in WriteShape /\ EntityIsLoaded(q) /\ Data(q.data)
  BY <1>1, InFlight, WriteFields
<1>3. \/ Become(w, [q EXCEPT !.pc = "error"])
      \/ Commit(w, next, [q EXCEPT !.pc = "reload"]) /\ UNCHANGED clock
  BY DEF Flush, Changed, BroughtRows
<1>4. CASE Become(w, [q EXCEPT !.pc = "error"])
  BY <1>1, <1>4, NextPc, BecomeInv
<1>5. CASE Commit(w, next, [q EXCEPT !.pc = "reload"]) /\ UNCHANGED clock
  <2>1. old \in Shape /\ old.id = q.id
    BY <1>1, <1>2, WriteFields DEF EntityIsLoaded, Orm
  <2> HIDE DEF old
  <2>2. /\ entity \in Shape /\ entity.id = q.id
        /\ \A f \in DOMAIN old : entity[f] # old[f] => f \in DOMAIN q.data /\ entity[f] = q.data[f]
    BY <1>2, <2>1, MergedProperties
  <2> HIDE DEF entity
  <2>3. \A row \in Shape : DOMAIN row = {"id", "name", "owner", "tags", "deleted"}
    BY ShapeFields DEF Fields, Scalars
  <2>4. DOMAIN q.data \subseteq {"name", "owner", "tags"} /\ Scalars = {"name", "owner"}
    BY <1>2 DEF Data, Fields, Scalars
  <2>5. ASSUME NEW row \in Shape, NEW new, new = Brought(row, old, entity),
               NEW f \in DOMAIN row, new[f] # row[f]
        PROVE  By(q, f, row, new)
    <3>1. /\ f # "tags" => new[f] = entity[f] /\ entity[f] # old[f]
          /\ f = "tags" => Towards(row, new, entity.tags) /\ entity.tags # old.tags
      BY <2>1, <2>2, <2>5, BroughtProperties
    <3>2. f \in DOMAIN q.data /\ entity[f] = q.data[f]
      BY <2>1, <2>2, <2>3, <2>5, <3>1
    <3>3. QED BY <2>4, <3>1, <3>2 DEF By
  <2> HIDE DEF next
  <2>6. /\ next \in [1..Len(rows) -> Shape]
        /\ \A i \in 1..Len(rows) :
             /\ next[i] = IF rows[i].id = q.id THEN Brought(rows[i], old, entity) ELSE rows[i]
             /\ rows[i] \in Shape /\ next[i].id = rows[i].id
    BY <2>1, <2>2, BroughtPlaces DEF next, Inv
  <2>7. [q EXCEPT !.pc = "reload"] \in WriteShape /\ EntityIsLoaded([q EXCEPT !.pc = "reload"])
    BY <1>1, NextPc
  <2>8. QED BY <1>1, <1>5, <2>5, <2>6, <2>7, CommitInPlace
<1>6. QED BY <1>3, <1>4, <1>5

LEMMA ReadStoredInv ==
  ASSUME Inv, NEW w \in Writers, ReadStored(w)
  PROVE  Inv' /\ ChangesAccounted
<1> DEFINE q == write[w]
           l == [q EXCEPT !.pc = "save", !.stored = RowsOf(q.id)]
<1>1. q # Idle /\ q.pc = "write" /\ q.do = "update" /\ adapter = "typeorm" /\ Become(w, l)
  BY DEF ReadStored, Idle
<1>2. q \in WriteShape /\ EntityIsLoaded(q)
  BY <1>1, InFlight
<1>3. RowsOf(q.id) \subseteq Shape /\ \A row \in RowsOf(q.id) : row.id = q.id
  BY Places DEF Inv, RowsOf, WithId
<1> HIDE DEF q
<1>4. /\ l \in WriteShape /\ l.pc = "save" /\ l.do = q.do /\ l.id = q.id
      /\ l.loaded = q.loaded /\ l.stored = RowsOf(q.id)
  BY <1>2, <1>3 DEF WriteShape
<1> HIDE DEF l
<1>5. EntityIsLoaded(l)
  BY <1>1, <1>2, <1>3, <1>4 DEF EntityIsLoaded, Orm
<1>6. QED BY <1>1, <1>4, <1>5, BecomeInv

(* The scalar fields first, and then the links.                            *)
LEMMA LinksLast ==
  ASSUME NEW old \in Shape, NEW data, Data(data)
  PROVE  /\ Data(Sent(data))
         /\ Merged(old, Sent(data)).tags = old.tags
         /\ "tags" \in DOMAIN data =>
              Merged(old, data) = [Merged(old, Sent(data)) EXCEPT !.tags = data.tags]
         /\ "tags" \notin DOMAIN data => Merged(old, data) = Merged(old, Sent(data))
<1>1. /\ DOMAIN Sent(data) = DOMAIN data \cap {"name", "owner"}
      /\ \A f \in DOMAIN data \cap {"name", "owner"} : Sent(data)[f] = data[f]
  BY DEF Sent, Scalars
<1>2. DOMAIN old = {"id", "name", "owner", "tags", "deleted"}
  BY ShapeFields DEF Fields, Scalars
<1>3. DOMAIN data \subseteq {"name", "owner", "tags"}
  BY DEF Data, Fields, Scalars
<1>4. Data(Sent(data))
  BY <1>1 DEF Data, Fields, Scalars
<1> DEFINE m == Merged(old, Sent(data))
<1>5. /\ m = [f \in DOMAIN old |-> IF f \in DOMAIN Sent(data) THEN Sent(data)[f] ELSE old[f]]
      /\ DOMAIN m = DOMAIN old
      /\ \A f \in DOMAIN old : m[f] = IF f \in DOMAIN Sent(data) THEN Sent(data)[f] ELSE old[f]
  BY DEF Merged
<1>6. /\ Merged(old, data) = [f \in DOMAIN old |-> IF f \in DOMAIN data THEN data[f] ELSE old[f]]
  BY DEF Merged
<1> HIDE DEF m
<1>7. m.tags = old.tags
  BY <1>1, <1>2, <1>5
<1>8. ASSUME "tags" \in DOMAIN data
      PROVE  Merged(old, data) = [m EXCEPT !.tags = data.tags]
  <2>1. [m EXCEPT !.tags = data.tags] = [f \in DOMAIN old |-> IF f = "tags" THEN data.tags ELSE m[f]]
    BY <1>2, <1>5
  <2>2. \A f \in DOMAIN old :
          (IF f \in DOMAIN data THEN data[f] ELSE old[f]) = IF f = "tags" THEN data.tags ELSE m[f]
    BY <1>1, <1>2, <1>3, <1>5, <1>8
  <2>3. QED BY <1>6, <2>1, <2>2
<1>9. ASSUME "tags" \notin DOMAIN data
      PROVE  Merged(old, data) = m
  <2>1. \A f \in DOMAIN old : (IF f \in DOMAIN data THEN data[f] ELSE old[f]) = m[f]
    BY <1>1, <1>2, <1>3, <1>5, <1>9
  <2>2. m = [f \in DOMAIN old |-> m[f]]
    BY <1>5
  <2>3. QED BY <1>6, <2>1, <2>2
<1>10. QED BY <1>4, <1>7, <1>8, <1>9 DEF m

(* The entity that TypeORM saves.                                          *)
LEMMA SavedEntity ==
  ASSUME NEW q \in WriteShape, EntityIsLoaded(q), NEW old \in q.loaded,
         NEW entity, entity = Merged(old, Sent(q.data))
  PROVE  /\ old \in Shape /\ old.id = q.id
         /\ entity \in Shape /\ entity.id = q.id /\ entity.tags = old.tags
         /\ \A f \in DOMAIN old : \/ f \in Scalars \cap DOMAIN q.data /\ entity[f] = q.data[f]
                                  \/ entity[f] = old[f]
<1>1. old \in Shape /\ old.id = q.id
  BY WriteFields DEF EntityIsLoaded
<1>2. /\ DOMAIN Sent(q.data) = DOMAIN q.data \cap Scalars
      /\ \A f \in DOMAIN q.data \cap Scalars : Sent(q.data)[f] = q.data[f]
  BY DEF Sent
<1>3. Data(Sent(q.data)) /\ entity.tags = old.tags
  BY <1>1, WriteFields, LinksLast
<1> DEFINE sent == Sent(q.data)
<1> HIDE DEF sent
<1>4. /\ entity \in Shape /\ entity.id = old.id
      /\ \A f \in DOMAIN old : entity[f] = IF f \in DOMAIN sent THEN sent[f] ELSE old[f]
  <2>1. entity = Merged(old, sent) /\ Data(sent)
    BY <1>3 DEF sent
  <2> HIDE DEF sent
  <2>2. /\ Merged(old, sent) \in Shape /\ Merged(old, sent).id = old.id
        /\ \A f \in DOMAIN old :
             Merged(old, sent)[f] = IF f \in DOMAIN sent THEN sent[f] ELSE old[f]
    BY <1>1, <2>1, MergedProperties
  <2>3. QED BY <2>1, <2>2
<1>5. \A f \in DOMAIN old : \/ f \in Scalars \cap DOMAIN q.data /\ entity[f] = q.data[f]
                            \/ entity[f] = old[f]
  BY <1>2, <1>4 DEF sent
<1>6. QED BY <1>1, <1>3, <1>4, <1>5

LEMMA SaveInv ==
  ASSUME Inv, NEW w \in Writers, Save(w)
  PROVE  Inv' /\ ChangesAccounted
<1> DEFINE q      == write[w]
           old    == CHOOSE row \in q.loaded : TRUE
           entity == Merged(old, Sent(q.data))
           now    == CHOOSE row \in q.stored : TRUE
           done   == [q EXCEPT !.pc = "sync", !.stored = {}]
           failed == [q EXCEPT !.pc = "error", !.stored = {}]
           next   == BroughtRows(q.id, now, entity)
<1>1. q # Idle /\ q.pc = "save"
  BY DEF Save, Idle, Changed
<1>2. q \in WriteShape /\ EntityIsLoaded(q) /\ adapter = "typeorm"
  BY <1>1, InFlight DEF EntityIsLoaded
<1>3. \/ Become(w, failed)
      \/ /\ UNCHANGED clock
         /\ \/ Commit(w, Append(rows, entity), done)
            \/ q.stored # {} /\ Commit(w, next, done)
  BY DEF Save, Changed, Sent, BroughtRows
<1>4. old \in q.loaded
  BY <1>1, <1>2 DEF EntityIsLoaded
<1> HIDE DEF old, entity
<1>5. /\ old \in Shape /\ old.id = q.id
      /\ entity \in Shape /\ entity.id = q.id /\ entity.tags = old.tags
      /\ \A f \in DOMAIN old : \/ f \in Scalars \cap DOMAIN q.data /\ entity[f] = q.data[f]
                               \/ entity[f] = old[f]
  BY <1>2, <1>4, SavedEntity DEF entity
<1>6. /\ done \in WriteShape /\ EntityIsLoaded(done)
      /\ failed \in WriteShape /\ EntityIsLoaded(failed)
  <2> HIDE DEF q
  <2>1. /\ done \in WriteShape /\ done.pc = "sync" /\ done.do = q.do /\ done.id = q.id
        /\ done.loaded = q.loaded /\ done.stored = {}
    BY <1>2 DEF WriteShape
  <2>2. /\ failed \in WriteShape /\ failed.pc = "error" /\ failed.do = q.do /\ failed.id = q.id
        /\ failed.loaded = q.loaded /\ failed.stored = {}
    BY <1>2 DEF WriteShape
  <2> HIDE DEF done, failed
  <2>3. QED BY <1>2, <2>1, <2>2 DEF EntityIsLoaded
<1> HIDE DEF done, failed
<1>7. CASE Become(w, failed)
  BY <1>6, <1>7, BecomeInv
<1>8. CASE Commit(w, Append(rows, entity), done) /\ UNCHANGED clock
  <2>1. /\ rows' = Append(rows, entity) /\ UNCHANGED adapter
        /\ write' = [Noisy(write, w) EXCEPT ![w] = done]
    BY <1>8 DEF Commit
  <2>2. rows' \in Seq(Shape) /\ ChangesAccounted
    BY <1>5, <2>1, AddedRow DEF Inv, ChangesAccounted
  <2>3. clock' \in Nat
    BY <1>8 DEF Inv, Shaped
  <2>4. QED BY <1>6, <2>1, <2>2, <2>3, WriteGoesOn
<1>9. CASE q.stored # {} /\ Commit(w, next, done) /\ UNCHANGED clock
  <2>1. now \in Shape /\ now.id = q.id
    BY <1>2, <1>9, WriteFields DEF EntityIsLoaded
  <2> HIDE DEF now
  <2>2. \A row \in Shape : DOMAIN row = {"id", "name", "owner", "tags", "deleted"}
    BY ShapeFields DEF Fields, Scalars
  <2>3. ASSUME NEW row \in Shape, NEW new, new = Brought(row, now, entity),
               NEW f \in DOMAIN row, new[f] # row[f]
        PROVE  By(q, f, row, new)
    <3>1. /\ f # "tags" => new[f] = entity[f]
          /\ f = "tags" => Towards(row, new, entity.tags)
      BY <1>5, <2>1, <2>3, BroughtProperties
    <3>2. f \in DOMAIN old
      BY <1>5, <2>2
    <3>3. CASE f = "tags"
      BY <1>2, <1>4, <1>5, <3>1, <3>3 DEF By
    <3>4. CASE f # "tags"
      BY <1>2, <1>4, <1>5, <3>1, <3>2, <3>4 DEF By
    <3>5. QED BY <3>3, <3>4
  <2> HIDE DEF next
  <2>4. /\ next \in [1..Len(rows) -> Shape]
        /\ \A i \in 1..Len(rows) :
             /\ next[i] = IF rows[i].id = q.id THEN Brought(rows[i], now, entity) ELSE rows[i]
             /\ rows[i] \in Shape /\ next[i].id = rows[i].id
    BY <1>5, <2>1, BroughtPlaces DEF next, Inv
  <2>5. QED BY <1>1, <1>6, <1>9, <2>3, <2>4, CommitInPlace
<1>10. QED BY <1>3, <1>7, <1>8, <1>9

AreRelinked(next, id, add, remove) ==
  /\ next \in [1..Len(rows) -> Shape]
  /\ \A i \in 1..Len(rows) :
       /\ rows[i] \in Shape /\ next[i].id = rows[i].id
       /\ rows[i].id # id => next[i] = rows[i]
       /\ rows[i].id = id =>
            /\ next[i].tags = (rows[i].tags \cup add) \ remove
            /\ \A f \in DOMAIN rows[i] : f # "tags" => next[i][f] = rows[i][f]

LEMMA RelinkedPlaces ==
  ASSUME Shaped, NEW id, NEW add \in SUBSET Tags, NEW remove
  PROVE  AreRelinked(Relinked(id, add, remove), id, add, remove)
<1> DEFINE New(row) == [row EXCEPT !.tags = (@ \cup add) \ remove]
           next == Relinked(id, add, remove)
<1>1. DOMAIN rows = 1..Len(rows) /\ \A i \in 1..Len(rows) : rows[i] \in Shape
  BY Places
<1>2. ASSUME NEW row \in Shape
      PROVE  /\ New(row) \in Shape /\ New(row).id = row.id
             /\ New(row).tags = (row.tags \cup add) \ remove
             /\ \A f \in DOMAIN row : f # "tags" => New(row)[f] = row[f]
  <2>1. (row.tags \cup add) \ remove \in SUBSET Tags
    BY ShapeFields
  <2>2. New(row) \in Shape
    BY <2>1 DEF Shape
  <2>3. /\ New(row).id = row.id /\ New(row).tags = (row.tags \cup add) \ remove
        /\ \A f \in DOMAIN row : f # "tags" => New(row)[f] = row[f]
    BY ShapeFields
  <2>4. QED BY <2>2, <2>3
<1>3. next = [i \in 1..Len(rows) |-> IF rows[i].id = id THEN New(rows[i]) ELSE rows[i]]
  BY <1>1 DEF Relinked, Changed
<1> HIDE DEF New, next
<1>4. next \in [1..Len(rows) -> Shape]
  BY <1>1, <1>2, <1>3
<1>5. \A i \in 1..Len(rows) : next[i] = IF rows[i].id = id THEN New(rows[i]) ELSE rows[i]
  BY <1>3
<1>6. QED BY <1>1, <1>2, <1>4, <1>5 DEF AreRelinked, next

(* A query that adds links that are sent, or removes links that are not.   *)
LEMMA LinksInv ==
  ASSUME Inv, NEW w \in Writers, write[w] # Idle, write[w].pc \in {"sync", "link"},
         "tags" \in DOMAIN write[w].data, NEW pc \in {"link", "reload"},
         NEW add \in SUBSET write[w].data.tags, NEW remove, remove \cap write[w].data.tags = {},
         Commit(w, Relinked(write[w].id, add, remove), [write[w] EXCEPT !.pc = pc]), UNCHANGED clock
  PROVE  Inv' /\ ChangesAccounted
<1> DEFINE q    == write[w]
           id   == q.id
           next == Relinked(id, add, remove)
           done == [q EXCEPT !.pc = pc]
<1>1. q \in WriteShape /\ Data(q.data) /\ done \in WriteShape /\ EntityIsLoaded(done)
  BY InFlight, WriteFields, LinkPc
<1>2. add \in SUBSET Tags
  BY <1>1 DEF Data
<1>3. Commit(w, next, done)
  OBVIOUS
<1> HIDE DEF next, done, id
<1>4. AreRelinked(next, id, add, remove)
  BY <1>2, RelinkedPlaces DEF next, Inv
<1>5. ASSUME NEW i \in 1..Len(rows), rows[i].id = id,
             NEW f \in DOMAIN rows[i], next[i][f] # rows[i][f]
      PROVE  By(q, f, rows[i], next[i])
  <2>1. f = "tags" /\ next[i].tags = (rows[i].tags \cup add) \ remove
    BY <1>4, <1>5 DEF AreRelinked
  <2>2. Towards(rows[i], next[i], q.data.tags)
    BY <2>1 DEF Towards
  <2>3. QED BY <2>1, <2>2 DEF By
<1>6. id = write[w].id
  BY DEF id
<1>7. /\ next \in [1..Len(rows) -> Shape]
      /\ \A i \in 1..Len(rows) : /\ next[i].id = rows[i].id
                                 /\ rows[i].id # id => next[i] = rows[i]
  BY <1>4 DEF AreRelinked
<1>8. QED BY <1>1, <1>3, <1>5, <1>6, <1>7, CommitInPlace

LEMMA SyncInv ==
  ASSUME Inv, NEW w \in Writers, Sync(w)
  PROVE  Inv' /\ ChangesAccounted
<1> DEFINE q == write[w]
<1>1. q # Idle /\ q.pc = "sync"
  BY DEF Sync, Idle
<1>2. \/ Become(w, [q EXCEPT !.pc = "reload"])
      \/ /\ "tags" \in DOMAIN q.data /\ UNCHANGED clock
         /\ Commit(w, Relinked(q.id, {}, ToRemove(q)), [q EXCEPT !.pc = "link"])
  BY DEF Sync
<1>3. {} \in SUBSET q.data.tags /\ ToRemove(q) \cap q.data.tags = {}
  BY DEF ToRemove
<1> HIDE DEF q
<1>4. CASE Become(w, [q EXCEPT !.pc = "reload"])
  BY <1>1, <1>4, NextPc, BecomeInv DEF q
<1>5. CASE /\ "tags" \in DOMAIN q.data /\ UNCHANGED clock
           /\ Commit(w, Relinked(q.id, {}, ToRemove(q)), [q EXCEPT !.pc = "link"])
  BY <1>1, <1>3, <1>5, LinksInv DEF q
<1>6. QED BY <1>2, <1>4, <1>5

LEMMA LinkInv ==
  ASSUME Inv, NEW w \in Writers, Link(w)
  PROVE  Inv' /\ ChangesAccounted
<1> DEFINE q == write[w]
<1>1. q # Idle /\ q.pc = "link"
  BY DEF Link, Idle
<1>2. "tags" \in DOMAIN q.data
  BY <1>1, InFlight DEF EntityIsLoaded
<1>3. \/ Become(w, [q EXCEPT !.pc = "error"])
      \/ /\ Commit(w, Relinked(q.id, ToAdd(q), {}), [q EXCEPT !.pc = "reload"])
         /\ UNCHANGED clock
  BY DEF Link
<1>4. ToAdd(q) \in SUBSET q.data.tags /\ {} \cap q.data.tags = {}
  BY DEF ToAdd
<1> HIDE DEF q
<1>5. CASE Become(w, [q EXCEPT !.pc = "error"])
  BY <1>1, <1>5, NextPc, BecomeInv DEF q
<1>6. CASE /\ Commit(w, Relinked(q.id, ToAdd(q), {}), [q EXCEPT !.pc = "reload"])
           /\ UNCHANGED clock
  BY <1>1, <1>2, <1>4, <1>6, LinksInv DEF q
<1>7. QED BY <1>3, <1>5, <1>6

LEMMA ReloadInv ==
  ASSUME Inv, NEW w \in Writers, Reload(w)
  PROVE  Inv' /\ ChangesAccounted
<1> DEFINE q == write[w]
           pc == IF adapter = "typeorm" /\ WithId(q.id) = {} THEN "error" ELSE "ok"
           done == [q EXCEPT !.result = RowsOf(q.id), !.loaded = {}, !.pc = pc]
<1>1. q # Idle /\ q.pc = "reload" /\ Become(w, done)
  BY DEF Reload, Idle
<1>2. q \in WriteShape /\ EntityIsLoaded(q)
  BY <1>1, InFlight
<1>3. RowsOf(q.id) \in SUBSET Shape /\ pc \in {"ok", "error"}
  BY Places DEF Inv, RowsOf, WithId
<1> HIDE DEF q, pc
<1>4. /\ done \in WriteShape /\ done.pc = pc /\ done.id = q.id /\ done.do = q.do
      /\ done.loaded = {} /\ done.stored = q.stored
  BY <1>2, <1>3 DEF WriteShape
<1> HIDE DEF done
<1>5. EntityIsLoaded(done)
  BY <1>1, <1>2, <1>3, <1>4 DEF EntityIsLoaded
<1>6. QED BY <1>1, <1>4, <1>5, BecomeInv

LEMMA DeleteInv ==
  ASSUME Inv, NEW w \in Writers, Delete(w)
  PROVE  Inv' /\ ChangesAccounted
<1> DEFINE q    == write[w]
           done == [q EXCEPT !.pc = "ok"]
           i    == Earliest(WithId(q.id))
           next == [rows EXCEPT ![i].deleted = TRUE]
<1>1. q # Idle /\ q.pc = "write" /\ q.do = "delete"
  BY DEF Delete, Idle
<1>2. \/ \E pc \in {"ok", "error"} : Become(w, [q EXCEPT !.pc = pc])
      \/ Commit(w, Without(q.id), done) /\ UNCHANGED clock
      \/ WithId(q.id) # {} /\ Commit(w, next, done) /\ UNCHANGED clock
  BY DEF Delete, Inv, Shaped
<1>3. done \in WriteShape /\ EntityIsLoaded(done)
  BY <1>1, NextPc
<1>4. CASE \E pc \in {"ok", "error"} : Become(w, [q EXCEPT !.pc = pc])
  BY <1>1, <1>4, NextPc, BecomeInv
<1>5. CASE Commit(w, Without(q.id), done) /\ UNCHANGED clock
  <2>1. /\ rows' = Without(q.id) /\ UNCHANGED adapter /\ clock' \in Nat
        /\ write' = [Noisy(write, w) EXCEPT ![w] = done]
    BY <1>5 DEF Commit, Inv, Shaped
  <2>2. rows' \in Seq(Shape) /\ ToSet(rows') \subseteq ToSet(rows)
    BY <2>1, RowsLeft DEF Inv
  <2>3. ChangesAccounted
    BY <2>2, OldRow DEF Inv, ChangesAccounted
  <2> HIDE DEF done
  <2>4. QED BY <1>3, <2>1, <2>2, <2>3, WriteGoesOn
<1>6. CASE WithId(q.id) # {} /\ Commit(w, next, done) /\ UNCHANGED clock
  <2>1. i \in 1..Len(rows) /\ rows[i].id = q.id
    BY <1>6, EarliestPlace
  <2> DEFINE new == [rows[i] EXCEPT !.deleted = TRUE]
  <2>2. /\ \A k \in 1..Len(rows) : rows[k] \in Shape
        /\ DOMAIN rows = 1..Len(rows) /\ rows = [k \in 1..Len(rows) |-> rows[k]]
    BY Places DEF Inv, Shaped
  <2> HIDE DEF i, q
  <2>3. /\ new \in Shape /\ new.id = rows[i].id /\ new.deleted = TRUE
        /\ \A f \in DOMAIN rows[i] : f # "deleted" => new[f] = rows[i][f]
    BY <2>1, <2>2 DEF Shape
  <2>4. \A f \in DOMAIN rows[i] : new[f] # rows[i][f] => By(q, f, rows[i], new)
    BY <1>1, <2>3 DEF By
  <2>5. \A k \in 1..Len(rows) : next[k] = IF k = i THEN new ELSE rows[k]
    BY <2>1, <2>2
  <2> HIDE DEF new
  <2>6. next \in [1..Len(rows) -> Shape]
    BY <2>2, <2>3, <2>5
  <2> HIDE DEF next, done
  <2>7. \A k \in 1..Len(rows) :
          /\ next[k].id = rows[k].id
          /\ \/ next[k] = rows[k]
             \/ /\ rows[k].id = q.id
                /\ \A f \in DOMAIN rows[k] :
                     next[k][f] # rows[k][f] => By(q, f, rows[k], next[k])
    BY <2>1, <2>3, <2>4, <2>5
  <2>8. QED BY <1>1, <1>3, <1>6, <2>6, <2>7, CommitInPlace DEF q
<1>7. QED BY <1>2, <1>4, <1>5, <1>6

(* Listings, time and the labels of owners leave the table as it is.       *)
LEMMA OthersInv ==
  ASSUME Inv,
         \/ \E r \in Readers : StartList(r) \/ ReadHits(r) \/ ReadItems(r) \/ ReadTotal(r)
         \/ Tick \/ Rename \/ UNCHANGED vars
  PROVE  Inv' /\ ChangesAccounted
<1>1. UNCHANGED <<adapter, rows, write>> /\ clock' \in {clock, clock + 1}
  <2>1. ASSUME NEW r, NEW q, Answer(r, q)
        PROVE  UNCHANGED <<adapter, rows, write, clock>>
    BY <2>1 DEF Answer
  <2>2. ASSUME NEW r \in Readers, StartList(r) \/ ReadHits(r) \/ ReadItems(r) \/ ReadTotal(r)
        PROVE  \E q : Answer(r, q)
    BY <2>2, Zenon DEF StartList, ReadHits, ReadItems, ReadTotal
  <2>3. QED BY <2>1, <2>2 DEF Tick, Rename, vars
<1>2. clock' \in Nat
  BY <1>1 DEF Inv, Shaped
<1>3. Inv'
  BY <1>1, <1>2 DEF Inv, Shaped, EntityIsLoaded, Orm
<1>4. QED BY <1>1, <1>3, RowsAsTheyAre DEF Inv

LEMMA InitInv == Init => Inv
<1> SUFFICES ASSUME Init PROVE Inv
  OBVIOUS
<1>1. rows \in Seq(Shape)
  <2>1. Row \subseteq Shape
    BY SizeAssumption DEF Row, Shape
  <2>2. First \in Seq(Row) /\ rows = First
    BY FirstAssumption DEF Init
  <2>3. QED BY <2>1, <2>2
<1>2. clock \in Nat
  BY <1>1, LenProperties DEF Init
<1>3. QED BY <1>1, <1>2 DEF Init, Inv, Shaped

LEMMA NextInv == Inv /\ [Next]_vars => Inv' /\ ChangesAccounted
<1> SUFFICES ASSUME Inv, [Next]_vars PROVE Inv' /\ ChangesAccounted
  OBVIOUS
<1>1. ASSUME NEW w \in Writers, WriteStep(w)
      PROVE  Inv' /\ ChangesAccounted
  BY <1>1, CreateInv, LoadInv, UpdateAtOnceInv, FlushInv, ReadStoredInv, SaveInv, SyncInv,
     LinkInv, ReloadInv, DeleteInv
  DEF WriteStep
<1>2. QED BY <1>1, StartInv, OthersInv DEF Next

-----------------------------------------------------------------------------
(* Writes that nobody overlaps.                                            *)

(* What is said of a request that has gone on is said of the request that  *)
(* went on; the others are no longer quiet, if the table has changed.      *)
LEMMA QuietBecomes ==
  ASSUME Inv, QuietInv, NEW w \in Writers, NEW q \in WriteShape, Become(w, q),
         q.quiet => Stage(q, rows, adapter)
  PROVE  QuietInv'
<1>1. write' = [write EXCEPT ![w] = q] /\ UNCHANGED <<adapter, rows>>
  BY DEF Become
<1>2. ASSUME NEW v \in Writers, write'[v] # Idle, write'[v].quiet
      PROVE  Stage(write'[v], rows, adapter)
  <2>1. write'[v] = IF v = w THEN q ELSE write[v]
    BY <1>1 DEF Inv, Shaped
  <2>2. QED BY <1>2, <2>1 DEF QuietInv
<1>3. QED BY <1>1, <1>2 DEF QuietInv, Idle

LEMMA QuietCommits ==
  ASSUME Inv, QuietInv, NEW w \in Writers, NEW q \in WriteShape, NEW next, Commit(w, next, q),
         q.quiet => Stage(q, next, adapter)
  PROVE  QuietInv'
<1>1. write' = [Noisy(write, w) EXCEPT ![w] = q] /\ rows' = next /\ UNCHANGED adapter
  BY DEF Commit
<1>2. ASSUME NEW v \in Writers, write'[v] # Idle, write'[v].quiet
      PROVE  Stage(write'[v], next, adapter)
  <2>1. DOMAIN write = Writers /\ Noisy(write, w) \in [Writers -> WriteShape \cup {Idle}]
    BY NoisyWrites DEF Inv, Shaped
  <2>2. CASE v = w
    <3>1. write'[v] = q
      BY <1>1, <2>1, <2>2
    <3>2. QED BY <1>2, <3>1
  <2>3. CASE v # w
    <3> DEFINE q0 == write[v]
    <3>1. write'[v] = Noisy(write, w)[v] /\ q0 # Idle
      BY <1>1, <1>2, <2>1, <2>3, NoisyWrites
    <3>2. q0 \in WriteShape
      BY <3>1, InFlight
    <3>3. "before" \in DOMAIN q0
      BY <3>2 DEF WriteShape
    <3>4. Noisy(write, w)[v] = [q0 EXCEPT !.quiet = FALSE, !.before = {}]
      <4>1. DOMAIN write = Writers
        BY <2>1
      <4>2. QED BY <2>3, <3>1, <3>3, <4>1 DEF Noisy
    <3> HIDE DEF q0
    <3>5. ~write'[v].quiet
      BY <3>1, <3>2, <3>4 DEF WriteShape
    <3>6. QED BY <1>2, <3>5
  <2>4. QED BY <2>2, <2>3
<1>3. QED BY <1>1, <1>2 DEF QuietInv, Idle

(* A change of the rows with one id, where they are.                       *)
LEMMA OnlyThose ==
  ASSUME Shaped, NEW id, NEW next \in [1..Len(rows) -> Shape],
         \A i \in 1..Len(rows) :
           next[i].id = rows[i].id /\ (rows[i].id # id => next[i] = rows[i])
  PROVE  /\ Unique(next, id) => Unique(rows, id)
         /\ Others(ToSet(next), id) = Others(ToSet(rows), id)
         /\ \A i \in 1..Len(rows) : rows[i].id = id /\ Unique(rows, id) =>
              Of(ToSet(next), id) = {next[i]} /\ Of(ToSet(rows), id) = {rows[i]}
<1>1. DOMAIN rows = 1..Len(rows) /\ DOMAIN next = 1..Len(rows)
  BY Places
<1>2. Unique(next, id) => Unique(rows, id)
  BY <1>1 DEF Unique
<1>3. Others(ToSet(next), id) = Others(ToSet(rows), id)
  BY <1>1 DEF Others, ToSet
<1>4. ASSUME NEW i \in 1..Len(rows), rows[i].id = id, Unique(rows, id)
      PROVE  Of(ToSet(next), id) = {next[i]} /\ Of(ToSet(rows), id) = {rows[i]}
  <2>1. \A k \in 1..Len(rows) : rows[k].id = id <=> k = i
    BY <1>1, <1>4 DEF Unique
  <2>2. QED BY <1>1, <2>1 DEF Of, ToSet
<1>5. QED BY <1>2, <1>3, <1>4

LEMMA QuietStart ==
  ASSUME Inv, QuietInv, NEW w \in Writers, StartCreate(w) \/ StartUpdate(w) \/ StartDelete(w)
  PROVE  QuietInv'
<1>1. ASSUME NEW do \in {"create", "update", "delete"}, NEW id \in Nat,
             NEW data \in Payloads \cup {<<>>}, Become(w, Request(do, id, data)),
             do = "update" => WithId(id) # {}
      PROVE  QuietInv'
  <2> DEFINE q == Request(do, id, data)
  <2>1. /\ q.do = do /\ q.id = id /\ q.pc \in {"load", "write"} /\ q.quiet = Alone
        /\ q.before = (IF Alone THEN ToSet(rows) ELSE {})
        /\ q.do = "update" /\ adapter \in {"typeorm", "mikroorm"} => q.pc = "load"
    BY DEF Request, Orm
  <2> HIDE DEF q
  <2>2. do = "update" => Of(ToSet(rows), id) # {}
    BY <1>1, Places DEF Inv, WithId, Of, ToSet
  <2>3. q.quiet => Stage(q, rows, adapter)
    BY <1>1, <2>1, <2>2 DEF Stage
  <2>4. q \in WriteShape /\ Become(w, q)
    BY <1>1, RequestShape DEF q
  <2>5. QED BY <2>3, <2>4, QuietBecomes
<1>2. CASE StartCreate(w)
  BY <1>1, <1>2 DEF StartCreate
<1>3. CASE StartUpdate(w)
  <2>1. PICK id \in 1..MaxId, data \in Payloads :
          WithId(id) # {} /\ Become(w, Request("update", id, data))
    BY <1>3 DEF StartUpdate
  <2>2. id \in Nat
    BY SizeAssumption
  <2>3. QED BY <2>1, <2>2, <1>1
<1>4. CASE StartDelete(w)
  <2>1. PICK id \in 1..MaxId : Become(w, Request("delete", id, <<>>))
    BY <1>4 DEF StartDelete
  <2>2. id \in Nat
    BY SizeAssumption
  <2>3. QED BY <2>1, <2>2, <1>1
<1>5. QED BY <1>2, <1>3, <1>4

(* A request that fails.                                                   *)
LEMMA QuietFails ==
  ASSUME Inv, QuietInv, NEW w \in Writers, write[w] # Idle,
         Become(w, [write[w] EXCEPT !.pc = "error"])
  PROVE  QuietInv'
<1> DEFINE q == [write[w] EXCEPT !.pc = "error"]
<1>1. q \in WriteShape /\ q.pc = "error"
  BY InFlight DEF WriteShape
<1> HIDE DEF q
<1>2. Stage(q, rows, adapter)
  BY <1>1 DEF Stage
<1>3. QED BY <1>1, <1>2, QuietBecomes DEF q

(* A request that goes on, and what is written of it.                      *)
LEMMA GoesOn ==
  ASSUME Inv, NEW w \in Writers, write[w] # Idle, NEW pc \in {"sync", "link", "reload", "ok", "error"},
         NEW q, q = [write[w] EXCEPT !.pc = pc]
  PROVE  /\ q \in WriteShape /\ q.pc = pc
         /\ q.do = write[w].do /\ q.id = write[w].id /\ q.data = write[w].data
         /\ q.loaded = write[w].loaded /\ q.quiet = write[w].quiet
         /\ q.before = write[w].before /\ q.result = write[w].result
BY InFlight DEF WriteShape

LEMMA QuietLoad ==
  ASSUME Inv, QuietInv, NEW w \in Writers, Load(w)
  PROVE  QuietInv'
<1> DEFINE q == write[w]
           l == [q EXCEPT !.pc = "write", !.loaded = RowsOf(q.id)]
<1>1. q # Idle /\ q.pc = "load"
  BY DEF Load, Idle
<1>2. q \in WriteShape /\ (q.quiet => Stage(q, rows, adapter))
  BY <1>1, InFlight DEF QuietInv
<1>3. CASE WithId(q.id) # {}
  <2>1. Become(w, l)
    BY <1>3 DEF Load
  <2>2. RowsOf(q.id) = Of(ToSet(rows), q.id) /\ RowsOf(q.id) \subseteq Shape
    BY Places DEF Inv, RowsOf, WithId, Of, ToSet
  <2> HIDE DEF q
  <2>3. /\ l \in WriteShape /\ l.pc = "write" /\ l.do = q.do /\ l.id = q.id /\ l.quiet = q.quiet
        /\ l.loaded = RowsOf(q.id) /\ l.before = q.before
    BY <1>2, <2>2 DEF WriteShape
  <2> HIDE DEF l
  <2>4. l.quiet => Stage(l, rows, adapter)
    BY <1>1, <1>2, <2>2, <2>3 DEF Stage
  <2>5. QED BY <2>1, <2>3, <2>4, QuietBecomes
<1>4. CASE WithId(q.id) = {} /\ q.do # "delete"
  <2>1. Become(w, [q EXCEPT !.pc = "error"])
    BY <1>4 DEF Load
  <2>2. QED BY <1>1, <2>1, QuietFails
<1>5. CASE WithId(q.id) = {} /\ q.do = "delete"
  <2> DEFINE done == [q EXCEPT !.pc = "ok"]
  <2>1. Become(w, done)
    BY <1>5 DEF Load
  <2>2. /\ done \in WriteShape /\ done.pc = "ok" /\ done.do = q.do /\ done.id = q.id
        /\ done.quiet = q.quiet /\ done.before = q.before
    BY <1>1, GoesOn
  <2> HIDE DEF done, q
  <2>3. done.quiet => Stage(done, rows, adapter)
    BY <1>1, <1>2, <1>5, <2>2 DEF Stage
  <2>4. QED BY <2>1, <2>2, <2>3, QuietBecomes
<1>6. QED BY <1>3, <1>4, <1>5

LEMMA QuietDelete ==
  ASSUME Inv, QuietInv, NEW w \in Writers, Delete(w)
  PROVE  QuietInv'
<1> DEFINE q    == write[w]
           done == [q EXCEPT !.pc = "ok"]
           i    == Earliest(WithId(q.id))
           next == [rows EXCEPT ![i].deleted = TRUE]
<1>1. q # Idle /\ q.pc = "write" /\ q.do = "delete"
  BY DEF Delete, Idle
<1>2. q \in WriteShape /\ (q.quiet => Stage(q, rows, adapter))
  BY <1>1, InFlight DEF QuietInv
<1>3. /\ done \in WriteShape /\ done.pc = "ok" /\ done.do = q.do /\ done.id = q.id
      /\ done.quiet = q.quiet /\ done.before = q.before
  BY <1>1, GoesOn
<1>4. \/ Become(w, [q EXCEPT !.pc = "error"])
      \/ Become(w, done)
      \/ Commit(w, Without(q.id), done)
      \/ WithId(q.id) # {} /\ Commit(w, next, done)
  BY DEF Delete
<1>5. q.quiet => ToSet(rows) = q.before
  BY <1>1, <1>2 DEF Stage
<1>6. ASSUME NEW s, Others(ToSet(s), q.id) = Others(ToSet(rows), q.id), done.quiet
      PROVE  Stage(done, s, adapter)
  <2> HIDE DEF done, q
  <2>1. QED BY <1>1, <1>3, <1>5, <1>6 DEF Stage
<1> HIDE DEF done
<1>7. CASE Become(w, [q EXCEPT !.pc = "error"])
  BY <1>1, <1>7, QuietFails
<1>8. CASE Become(w, done)
  BY <1>3, <1>6, <1>8, QuietBecomes
<1>9. CASE Commit(w, Without(q.id), done)
  <2>1. Others(ToSet(Without(q.id)), q.id) = Others(ToSet(rows), q.id)
    BY RowsLeft DEF Inv, Others
  <2>2. QED BY <1>3, <1>6, <1>9, <2>1, QuietCommits
<1>10. CASE WithId(q.id) # {} /\ Commit(w, next, done)
  <2>1. i \in 1..Len(rows) /\ rows[i].id = q.id
    BY <1>10, EarliestPlace
  <2>2. /\ \A k \in 1..Len(rows) : rows[k] \in Shape
        /\ DOMAIN rows = 1..Len(rows) /\ rows = [k \in 1..Len(rows) |-> rows[k]]
    BY Places DEF Inv, Shaped
  <2> DEFINE new == [rows[i] EXCEPT !.deleted = TRUE]
  <2> HIDE DEF i, q
  <2>3. new \in Shape /\ new.id = rows[i].id
    BY <2>1, <2>2 DEF Shape
  <2>4. \A k \in 1..Len(rows) : next[k] = IF k = i THEN new ELSE rows[k]
    BY <2>1, <2>2
  <2> HIDE DEF new
  <2>5. next \in [1..Len(rows) -> Shape]
    BY <2>2, <2>3, <2>4
  <2> HIDE DEF next
  <2>6. Others(ToSet(next), q.id) = Others(ToSet(rows), q.id)
    BY <2>1, <2>3, <2>4, <2>5, OnlyThose DEF Inv
  <2>7. QED BY <1>3, <1>6, <1>10, <2>6, QuietCommits
<1>11. QED BY <1>4, <1>7, <1>8, <1>9, <1>10

LEMMA QuietCreate ==
  ASSUME Inv, QuietInv, NEW w \in Writers, Create(w)
  PROVE  QuietInv'
<1> DEFINE q   == write[w]
           row == NewRow(q.data, clock)
           pc  == CASE adapter = "typeorm" -> "sync" [] adapter = "mikroorm" -> "reload" [] OTHER -> "ok"
           done == [q EXCEPT !.id = clock, !.result = IF Orm THEN {} ELSE {row}, !.pc = pc]
           next == IF adapter = "memory" THEN <<row>> \o rows ELSE Append(rows, row)
<1>1. q # Idle /\ q.pc = "write" /\ q.do = "create" /\ Commit(w, next, done)
  BY DEF Create, Idle
<1>2. /\ q \in WriteShape /\ EntityIsLoaded(q) /\ Data(q.data) /\ clock \in Nat
      /\ adapter \in Adapters /\ (q.quiet => Stage(q, rows, adapter))
  BY <1>1, InFlight, WriteFields DEF Inv, Shaped, QuietInv
<1>3. /\ row \in Shape /\ row.id = clock
      /\ \A f \in DOMAIN q.data : f \in Scalars \/ pc # "sync" => row[f] = q.data[f]
      /\ pc = "sync" => row.tags = {}
  <2> DEFINE d == IF adapter = "typeorm" THEN [f \in DOMAIN q.data \cap Scalars |-> q.data[f]] ELSE q.data
             empty == [id |-> clock, name |-> 1, owner |-> 1, tags |-> {}, deleted |-> FALSE]
  <2>1. Data(d)
    BY <1>2 DEF Data, Scalars, Fields
  <2>2. empty \in Shape /\ empty.tags = {} /\ empty.id = clock
    BY <1>2 DEF Shape, Values
  <2>3. row = Merged(empty, d)
    BY DEF NewRow
  <2>4. /\ \A f \in DOMAIN q.data :
             f \in Scalars \/ adapter # "typeorm" => f \in DOMAIN d /\ d[f] = q.data[f]
        /\ adapter = "typeorm" => "tags" \notin DOMAIN d
        /\ DOMAIN d \subseteq Fields
    BY <1>2 DEF Data, Scalars, Fields
  <2>5. pc = "sync" <=> adapter = "typeorm"
    BY <1>2 DEF Adapters
  <2> HIDE DEF d, empty, row, pc, q
  <2>6. /\ row \in Shape /\ row.id = empty.id
        /\ \A f \in DOMAIN empty : row[f] = IF f \in DOMAIN d THEN d[f] ELSE empty[f]
    BY <2>1, <2>2, <2>3, MergedProperties
  <2>7. DOMAIN empty = {"id"} \cup Fields \cup {"deleted"} /\ "tags" \in Fields
    BY <2>2, ShapeFields DEF Fields
  <2>8. \A f \in DOMAIN q.data : f \in Scalars \/ adapter # "typeorm" => row[f] = q.data[f]
    BY <2>4, <2>6, <2>7
  <2>9. adapter = "typeorm" => row.tags = {}
    BY <2>2, <2>4, <2>6, <2>7
  <2>10. QED BY <2>2, <2>5, <2>6, <2>8, <2>9
<1>4. /\ pc \in {"sync", "reload", "ok"}
      /\ pc = "ok" => ~Orm
  BY <1>2 DEF Adapters, Orm
<1> HIDE DEF row, pc, q
<1>5. /\ done.pc = pc /\ done.do = "create" /\ done.id = clock /\ done.data = q.data
      /\ done.quiet = q.quiet /\ done.before = q.before /\ done.loaded = {}
      /\ pc = "ok" => done.result = {row}
      /\ done \in WriteShape
  <2>1. (IF Orm THEN {} ELSE {row}) \in SUBSET Shape
    BY <1>3
  <2>2. q.loaded = {}
    BY <1>1, <1>2 DEF EntityIsLoaded
  <2>3. QED BY <1>1, <1>2, <1>4, <2>1, <2>2 DEF WriteShape
<1>6. ToSet(next) = ToSet(rows) \cup {row} /\ (Unique(next, clock) => \A x \in ToSet(rows) : x.id # clock)
  <2>1. rows' = next
    BY <1>1 DEF Commit
  <2> HIDE DEF done
  <2>2. rows' = Append(rows, row) \/ rows' = <<row>> \o rows
    BY <2>1
  <2>3. QED BY <1>3, <2>1, <2>2, AddedRow DEF Inv
<1>7. ASSUME q.quiet
      PROVE  Stage(done, next, adapter)
  <2>1. ToSet(rows) = q.before
    BY <1>1, <1>2, <1>7 DEF Stage
  <2> HIDE DEF done, next
  <2>2. ASSUME Unique(next, clock)
        PROVE  /\ Others(ToSet(next), clock) = Others(q.before, clock)
               /\ Of(q.before, clock) = {} /\ Of(ToSet(next), clock) = {row}
    BY <1>3, <1>6, <2>1, <2>2 DEF Others, Of
  <2>3. QED BY <1>3, <1>4, <1>5, <2>2 DEF Stage
<1> HIDE DEF done, next
<1>8. QED BY <1>1, <1>5, <1>7, QuietCommits

LEMMA QuietUpdateAtOnce ==
  ASSUME Inv, QuietInv, NEW w \in Writers, UpdateAtOnce(w)
  PROVE  QuietInv'
<1> DEFINE q == write[w]
           i == Earliest(WithId(q.id))
           m == Merged(rows[i], q.data)
           done == [q EXCEPT !.pc = "ok", !.result = {m}]
           next == [rows EXCEPT ![i] = m]
<1>1. q # Idle /\ q.pc = "write" /\ q.do = "update"
  BY DEF UpdateAtOnce, Idle
<1>2. q \in WriteShape /\ Data(q.data) /\ (q.quiet => Stage(q, rows, adapter))
  BY <1>1, InFlight, WriteFields DEF QuietInv
<1>3. CASE WithId(q.id) = {}
  BY <1>1, <1>3, QuietFails DEF UpdateAtOnce
<1>4. CASE WithId(q.id) # {}
  <2>1. i \in 1..Len(rows) /\ rows[i].id = q.id /\ rows[i] \in Shape
    BY <1>4, EarliestPlace, Places DEF Inv
  <2>2. Commit(w, next, done)
    BY <1>4 DEF UpdateAtOnce, Replace
  <2> HIDE DEF q, i
  <2>3. m \in Shape /\ m.id = rows[i].id
    BY <1>2, <2>1, MergedProperties
  <2>4. /\ done \in WriteShape /\ done.pc = "ok" /\ done.do = q.do /\ done.id = q.id
        /\ done.data = q.data /\ done.quiet = q.quiet /\ done.before = q.before
        /\ done.result = {m}
    BY <1>2, <2>3 DEF WriteShape
  <2> HIDE DEF done
  <2>5. next \in [1..Len(rows) -> Shape] /\ \A k \in 1..Len(rows) : next[k] = IF k = i THEN m ELSE rows[k]
    <3> HIDE DEF m
    <3>1. QED BY <2>1, <2>3, Places DEF Inv, Shaped
  <2> HIDE DEF next
  <2>6. /\ Unique(next, q.id) => Unique(rows, q.id)
        /\ Others(ToSet(next), q.id) = Others(ToSet(rows), q.id)
        /\ Unique(rows, q.id) => Of(ToSet(next), q.id) = {m} /\ Of(ToSet(rows), q.id) = {rows[i]}
    <3> HIDE DEF m
    <3>1. \A k \in 1..Len(rows) :
            next[k].id = rows[k].id /\ (rows[k].id # q.id => next[k] = rows[k])
      BY <2>1, <2>3, <2>5
    <3>2. next[i] = m
      BY <2>1, <2>5
    <3>3. QED BY <2>1, <2>5, <3>1, <3>2, OnlyThose DEF Inv
  <2>7. done.quiet => Stage(done, next, adapter)
    <3>1. q.quiet => ToSet(rows) = q.before
      BY <1>1, <1>2 DEF Stage
    <3>2. Written(rows[i], done) = m
      BY <2>4 DEF Written
    <3> HIDE DEF m
    <3>3. QED BY <1>1, <2>1, <2>4, <2>6, <3>1, <3>2 DEF Stage
  <2>8. QED BY <2>2, <2>4, <2>7, QuietCommits
<1>5. QED BY <1>3, <1>4

(* The entity that a quiet update has loaded is the row it writes to.      *)
LEMMA QuietEntity ==
  ASSUME Inv, NEW q \in WriteShape, Stage(q, rows, adapter), Orm,
         q.do = "update", q.pc \in {"write", "save"}, Unique(rows, q.id),
         NEW old, old = CHOOSE row \in q.loaded : TRUE
  PROVE  /\ q.loaded = {old} /\ Of(ToSet(rows), q.id) = {old} /\ Of(q.before, q.id) = {old}
         /\ q.pc = "save" => q.stored = {old}
<1>1. /\ ToSet(rows) = q.before /\ Of(q.before, q.id) # {} /\ q.loaded = Of(q.before, q.id)
      /\ q.pc = "save" => q.stored = Of(q.before, q.id)
  BY DEF Stage, Orm
<1>2. PICK i \in 1..Len(rows) : rows[i].id = q.id
  BY <1>1, Places DEF Inv, Of
<1>3. \A row \in Of(ToSet(rows), q.id) : row = rows[i]
  BY <1>2, Places DEF Inv, Of, Unique
<1>4. rows[i] \in Of(ToSet(rows), q.id)
  BY <1>2, Places DEF Inv, Of
<1>5. Of(ToSet(rows), q.id) = {rows[i]}
  BY <1>3, <1>4
<1>6. old = rows[i]
  BY <1>1, <1>5
<1>7. QED BY <1>1, <1>5, <1>6

(* The row that is brought from what it is becomes what it is brought to.  *)
LEMMA QuietBrought ==
  ASSUME Shaped, NEW id, NEW from \in Shape, NEW to \in Shape, from.id = id, to.id = id,
         NEW next, next = BroughtRows(id, from, to)
  PROVE  /\ Unique(next, id) => Unique(rows, id)
         /\ Others(ToSet(next), id) = Others(ToSet(rows), id)
         /\ Unique(rows, id) /\ Of(ToSet(rows), id) = {from} => Of(ToSet(next), id) = {to}
<1>1. /\ next \in [1..Len(rows) -> Shape]
      /\ \A i \in 1..Len(rows) :
           /\ next[i] = IF rows[i].id = id THEN Brought(rows[i], from, to) ELSE rows[i]
           /\ rows[i] \in Shape /\ next[i].id = rows[i].id
  BY BroughtPlaces
<1>2. \A i \in 1..Len(rows) : next[i].id = rows[i].id /\ (rows[i].id # id => next[i] = rows[i])
  BY <1>1
<1>3. /\ Unique(next, id) => Unique(rows, id)
      /\ Others(ToSet(next), id) = Others(ToSet(rows), id)
      /\ \A i \in 1..Len(rows) : rows[i].id = id /\ Unique(rows, id) => Of(ToSet(next), id) = {next[i]}
  BY <1>1, <1>2, OnlyThose
<1>4. ASSUME Unique(rows, id), Of(ToSet(rows), id) = {from}
      PROVE  Of(ToSet(next), id) = {to}
  <2>1. PICK i \in 1..Len(rows) : rows[i].id = id /\ rows[i] = from
    BY <1>4, Places DEF Of
  <2>2. Of(ToSet(next), id) = {next[i]} /\ next[i] = Brought(from, from, to)
    BY <1>1, <1>3, <1>4, <2>1
  <2>3. Brought(from, from, to) = to
    BY BroughtProperties
  <2>4. QED BY <2>2, <2>3
<1>5. QED BY <1>3, <1>4

LEMMA QuietFlush ==
  ASSUME Inv, QuietInv, NEW w \in Writers, Flush(w)
  PROVE  QuietInv'
<1> DEFINE q      == write[w]
           old    == CHOOSE row \in q.loaded : TRUE
           entity == Merged(old, q.data)
           next   == BroughtRows(q.id, old, entity)
           done   == [q EXCEPT !.pc = "reload"]
<1>1. q # Idle /\ q.pc = "write" /\ q.do = "update" /\ adapter = "mikroorm"
  BY DEF Flush, Idle, Changed
<1>2. q \in WriteShape /\ EntityIsLoaded(q) /\ Data(q.data) /\ (q.quiet => Stage(q, rows, adapter))
  BY <1>1, InFlight, WriteFields DEF QuietInv
<1>3. Become(w, [q EXCEPT !.pc = "error"]) \/ Commit(w, next, done)
  BY DEF Flush, Changed, BroughtRows
<1>4. CASE Become(w, [q EXCEPT !.pc = "error"])
  BY <1>1, <1>4, QuietFails
<1>5. CASE Commit(w, next, done)
  <2>1. /\ done \in WriteShape /\ done.pc = "reload" /\ done.do = q.do /\ done.id = q.id
        /\ done.data = q.data /\ done.quiet = q.quiet /\ done.before = q.before
    BY <1>1, GoesOn
  <2>2. old \in Shape /\ old.id = q.id
    BY <1>1, <1>2, WriteFields DEF EntityIsLoaded, Orm
  <2> HIDE DEF done, q
  <2>3. ASSUME q.quiet, Unique(rows, q.id)
        PROVE  Of(ToSet(rows), q.id) = {old} /\ Of(q.before, q.id) = {old}
    BY <1>1, <1>2, <2>3, QuietEntity DEF Orm
  <2> HIDE DEF old
  <2>4. entity \in Shape /\ entity.id = q.id
    BY <1>2, <2>2, MergedProperties
  <2>5. /\ Unique(next, q.id) => Unique(rows, q.id)
        /\ Others(ToSet(next), q.id) = Others(ToSet(rows), q.id)
        /\ Unique(rows, q.id) /\ Of(ToSet(rows), q.id) = {old} => Of(ToSet(next), q.id) = {entity}
    BY <2>2, <2>4, QuietBrought DEF Inv
  <2>6. Written(old, done) = entity
    BY <2>1 DEF Written
  <2> HIDE DEF entity, next
  <2>7. q.quiet => Stage(done, next, adapter)
    BY <1>1, <1>2, <2>1, <2>2, <2>3, <2>5, <2>6 DEF Stage
  <2>8. QED BY <1>5, <2>1, <2>7, QuietCommits
<1>6. QED BY <1>3, <1>4, <1>5

LEMMA QuietReadStored ==
  ASSUME Inv, QuietInv, NEW w \in Writers, ReadStored(w)
  PROVE  QuietInv'
<1> DEFINE q == write[w]
           l == [q EXCEPT !.pc = "save", !.stored = RowsOf(q.id)]
<1>1. q # Idle /\ q.pc = "write" /\ q.do = "update" /\ adapter = "typeorm" /\ Become(w, l)
  BY DEF ReadStored, Idle
<1>2. q \in WriteShape /\ (q.quiet => Stage(q, rows, adapter))
  BY <1>1, InFlight DEF QuietInv
<1>3. RowsOf(q.id) = Of(ToSet(rows), q.id) /\ RowsOf(q.id) \subseteq Shape
  BY Places DEF Inv, RowsOf, WithId, Of, ToSet
<1> HIDE DEF q
<1>4. /\ l \in WriteShape /\ l.pc = "save" /\ l.do = q.do /\ l.id = q.id /\ l.quiet = q.quiet
      /\ l.loaded = q.loaded /\ l.stored = RowsOf(q.id) /\ l.before = q.before
  BY <1>2, <1>3 DEF WriteShape
<1> HIDE DEF l
<1>5. l.quiet => Stage(l, rows, adapter)
  BY <1>1, <1>2, <1>3, <1>4 DEF Stage
<1>6. QED BY <1>1, <1>4, <1>5, QuietBecomes

LEMMA QuietSave ==
  ASSUME Inv, QuietInv, NEW w \in Writers, Save(w)
  PROVE  QuietInv'
<1> DEFINE q      == write[w]
           old    == CHOOSE row \in q.loaded : TRUE
           entity == Merged(old, Sent(q.data))
           now    == CHOOSE row \in q.stored : TRUE
           next   == BroughtRows(q.id, now, entity)
           done   == [q EXCEPT !.pc = "sync", !.stored = {}]
<1>1. q # Idle /\ q.pc = "save"
  BY DEF Save, Idle, Changed
<1>2. /\ q \in WriteShape /\ EntityIsLoaded(q) /\ adapter = "typeorm" /\ (q.quiet => Stage(q, rows, adapter))
  BY <1>1, InFlight DEF QuietInv, EntityIsLoaded
<1>3. \/ Become(w, [q EXCEPT !.pc = "error", !.stored = {}])
      \/ q.stored = {} /\ Commit(w, Append(rows, entity), done)
      \/ q.stored # {} /\ Commit(w, next, done)
  BY DEF Save, Changed, Sent, BroughtRows
<1>4. /\ done \in WriteShape /\ done.pc = "sync" /\ done.do = q.do /\ done.id = q.id
      /\ done.data = q.data /\ done.loaded = q.loaded
      /\ done.quiet = q.quiet /\ done.before = q.before
  <2> HIDE DEF q
  <2>1. QED BY <1>2 DEF WriteShape
<1>5. CASE Become(w, [q EXCEPT !.pc = "error", !.stored = {}])
  <2> DEFINE failed == [q EXCEPT !.pc = "error", !.stored = {}]
  <2> HIDE DEF q
  <2>1. failed \in WriteShape /\ failed.pc = "error"
    BY <1>2 DEF WriteShape
  <2> HIDE DEF failed
  <2>2. Stage(failed, rows, adapter)
    BY <2>1 DEF Stage
  <2>3. QED BY <1>5, <2>1, <2>2, QuietBecomes DEF failed
<1> HIDE DEF done
<1>6. q.quiet => q.do = "update" /\ Of(q.before, q.id) # {} /\ q.stored = Of(q.before, q.id)
  BY <1>1, <1>2 DEF Stage
<1>7. CASE q.stored = {} /\ Commit(w, Append(rows, entity), done)
  BY <1>4, <1>6, <1>7, QuietCommits
<1>8. CASE q.stored # {} /\ Commit(w, next, done)
  <2>1. now \in Shape /\ now.id = q.id /\ old \in q.loaded
    BY <1>1, <1>2, <1>8, WriteFields DEF EntityIsLoaded
  <2> HIDE DEF q
  <2>2. ASSUME q.quiet, Unique(rows, q.id)
        PROVE  /\ q.loaded = {old} /\ q.stored = {old}
               /\ Of(ToSet(rows), q.id) = {old} /\ Of(q.before, q.id) = {old}
    BY <1>1, <1>2, <1>6, <2>2, QuietEntity DEF Orm
  <2>3. ASSUME q.quiet, Unique(rows, q.id)
        PROVE  now = old
    BY <2>2, <2>3
  <2> HIDE DEF old, now
  <2>4. old \in Shape /\ entity \in Shape /\ entity.id = q.id
    BY <1>2, <2>1, SavedEntity
  <2>5. /\ Unique(next, q.id) => Unique(rows, q.id)
        /\ Others(ToSet(next), q.id) = Others(ToSet(rows), q.id)
        /\ Unique(rows, q.id) /\ Of(ToSet(rows), q.id) = {now} => Of(ToSet(next), q.id) = {entity}
    BY <2>1, <2>4, QuietBrought DEF Inv
  <2>6. Written(old, done) = entity
    BY <1>4 DEF Written
  <2>7. q.quiet => ToSet(rows) = q.before
    BY <1>1, <1>2 DEF Stage
  <2> HIDE DEF entity, next
  <2>8. q.quiet => Stage(done, next, adapter)
    BY <1>4, <1>6, <2>2, <2>3, <2>4, <2>5, <2>6, <2>7 DEF Stage
  <2>9. QED BY <1>4, <1>8, <2>8, QuietCommits
<1>9. QED BY <1>3, <1>5, <1>7, <1>8

LEMMA OtherTags ==
  ASSUME NEW row \in Shape, NEW new \in Shape, \A f \in DOMAIN row : f # "tags" => new[f] = row[f]
  PROVE  new = [row EXCEPT !.tags = new.tags]
<1>1. DOMAIN row = {"id", "name", "owner", "tags", "deleted"} /\ DOMAIN new = DOMAIN row
  BY ShapeFields DEF Fields, Scalars
<1>2. new = [f \in DOMAIN new |-> new[f]] /\ row = [f \in DOMAIN row |-> row[f]]
  BY DEF Shape
<1>3. [row EXCEPT !.tags = new.tags] = [f \in DOMAIN row |-> IF f = "tags" THEN new.tags ELSE row[f]]
  BY <1>1, <1>2
<1>4. QED BY <1>1, <1>2, <1>3

(* The row of a quiet request that changes links, before and after a query.*)
OneIsRelinked(next, id, add, remove) ==
  /\ Unique(next, id) => Unique(rows, id)
  /\ Others(ToSet(next), id) = Others(ToSet(rows), id)
  /\ \A row : Unique(rows, id) /\ Of(ToSet(rows), id) = {row} =>
       \E new \in Shape :
         /\ Of(ToSet(next), id) = {new} /\ new.tags = (row.tags \cup add) \ remove
         /\ \A f \in DOMAIN row : f # "tags" => new[f] = row[f]

LEMMA QuietRelinked ==
  ASSUME Shaped, NEW id, NEW add \in SUBSET Tags, NEW remove
  PROVE  OneIsRelinked(Relinked(id, add, remove), id, add, remove)
<1> DEFINE next == Relinked(id, add, remove)
<1>1. AreRelinked(next, id, add, remove)
  BY RelinkedPlaces
<1> HIDE DEF next
<1>2. /\ next \in [1..Len(rows) -> Shape]
      /\ \A i \in 1..Len(rows) : next[i].id = rows[i].id /\ (rows[i].id # id => next[i] = rows[i])
  BY <1>1 DEF AreRelinked
<1>3. /\ Unique(next, id) => Unique(rows, id)
      /\ Others(ToSet(next), id) = Others(ToSet(rows), id)
      /\ \A i \in 1..Len(rows) : rows[i].id = id /\ Unique(rows, id) => Of(ToSet(next), id) = {next[i]}
  BY <1>2, OnlyThose
<1>4. ASSUME NEW row, Unique(rows, id), Of(ToSet(rows), id) = {row}
      PROVE  \E new \in Shape :
               /\ Of(ToSet(next), id) = {new} /\ new.tags = (row.tags \cup add) \ remove
               /\ \A f \in DOMAIN row : f # "tags" => new[f] = row[f]
  <2>1. PICK i \in 1..Len(rows) : rows[i].id = id /\ rows[i] = row
    BY <1>4, Places DEF Of
  <2>2. Of(ToSet(next), id) = {next[i]} /\ next[i] \in Shape
    BY <1>2, <1>3, <1>4, <2>1
  <2>3. /\ next[i].tags = (row.tags \cup add) \ remove
        /\ \A f \in DOMAIN row : f # "tags" => next[i][f] = row[f]
    BY <1>1, <2>1 DEF AreRelinked
  <2>4. QED BY <2>2, <2>3
<1>5. OneIsRelinked(next, id, add, remove)
  BY <1>3, <1>4 DEF OneIsRelinked
<1>6. QED BY <1>5 DEF next

LEMMA LinkingRow ==
  ASSUME NEW q \in WriteShape, Stage(q, rows, adapter), q.pc \in {"sync", "link"}, Unique(rows, q.id)
  PROVE  /\ q.do \in {"create", "update"} /\ Others(ToSet(rows), q.id) = Others(q.before, q.id)
         /\ q.do = "update" => \E old \in Shape, row \in Shape :
              /\ Of(q.before, q.id) = {old} /\ q.loaded = {old} /\ Linked(q) = old.tags
              /\ Of(ToSet(rows), q.id) = {row}
              /\ row.tags = IF q.pc = "sync" THEN old.tags ELSE old.tags \cap q.data.tags
              /\ \A f \in DOMAIN row : f # "tags" => row[f] = Merged(old, Sent(q.data))[f]
         /\ q.do = "create" => \E row \in Shape :
              /\ Of(q.before, q.id) = {} /\ q.loaded = {} /\ Linked(q) = {}
              /\ Of(ToSet(rows), q.id) = {row} /\ row.tags = {}
              /\ \A f \in DOMAIN q.data : f \in Scalars => row[f] = q.data[f]
<1>1. Data(q.data) /\ q.do \in {"create", "update"}
  BY WriteFields DEF Stage, WriteShape
<1>2. /\ \A old : q.loaded = {old} => Linked(q) = old.tags
      /\ q.loaded = {} => Linked(q) = {}
  BY DEF Linked
<1>3. Others(ToSet(rows), q.id) = Others(q.before, q.id)
  BY <1>1 DEF Stage
<1>4. CASE q.do = "update"
  <2>1. PICK old \in Shape : /\ Of(q.before, q.id) = {old} /\ q.loaded = {old}
                            /\ Of(ToSet(rows), q.id) = {Written(old, q)}
    BY <1>4 DEF Stage
  <2> DEFINE m == Merged(old, Sent(q.data))
             tags == IF q.pc = "sync" THEN old.tags ELSE old.tags \cap q.data.tags
  <2>2. m \in Shape /\ m.tags = old.tags
    BY <1>1, LinksLast, MergedProperties
  <2>3. q.pc = "sync" => Written(old, q) = m
    BY DEF Written
  <2>4. q.pc = "link" => Written(old, q) = [m EXCEPT !.tags = tags]
    BY DEF Written
  <2> HIDE DEF m
  <2>5. old.tags \subseteq Tags
    BY ShapeFields
  <2>6. /\ Written(old, q) \in Shape /\ Written(old, q).tags = tags
        /\ \A f \in DOMAIN Written(old, q) : f # "tags" => Written(old, q)[f] = m[f]
    <3>1. CASE q.pc = "sync"
      BY <2>2, <2>3, <3>1
    <3>2. CASE q.pc = "link"
      <4>1. tags \in SUBSET Tags
        BY <2>5
      <4> HIDE DEF tags
      <4>2. QED BY <2>2, <2>4, <3>2, <4>1 DEF Shape
    <3>3. QED BY <3>1, <3>2
  <2>7. QED BY <1>1, <1>2, <1>3, <1>4, <2>1, <2>6 DEF m
<1>5. CASE q.do = "create"
  <2>1. PICK new \in Shape : /\ Of(q.before, q.id) = {} /\ Of(ToSet(rows), q.id) = {new}
                            /\ q.loaded = {} /\ new.tags = {}
                            /\ \A f \in DOMAIN q.data : f \in Scalars => new[f] = q.data[f]
    BY <1>5 DEF Stage
  <2>2. QED BY <1>1, <1>2, <1>3, <1>5, <2>1
<1>6. QED BY <1>1, <1>4, <1>5

LEMMA QuietSync ==
  ASSUME Inv, QuietInv, NEW w \in Writers, Sync(w)
  PROVE  QuietInv'
<1> DEFINE q     == write[w]
           id    == q.id
           next  == Relinked(id, {}, ToRemove(q))
           done  == [q EXCEPT !.pc = "reload"]
           going == [q EXCEPT !.pc = "link"]
<1>1. q # Idle /\ q.pc = "sync"
  BY DEF Sync, Idle
<1>2. q \in WriteShape /\ Data(q.data) /\ (q.quiet => Stage(q, rows, adapter))
  BY <1>1, InFlight, WriteFields DEF QuietInv
<1>3. \/ ("tags" \notin DOMAIN q.data \/ ToAdd(q) \cup ToRemove(q) = {}) /\ Become(w, done)
      \/ "tags" \in DOMAIN q.data /\ Commit(w, next, going)
  BY DEF Sync
<1>4. /\ done \in WriteShape /\ done.pc = "reload" /\ done.do = q.do /\ done.id = q.id
      /\ done.data = q.data /\ done.quiet = q.quiet /\ done.before = q.before
  BY <1>1, GoesOn
<1>5. /\ going \in WriteShape /\ going.pc = "link" /\ going.do = q.do /\ going.id = q.id
      /\ going.data = q.data /\ going.loaded = q.loaded
      /\ going.quiet = q.quiet /\ going.before = q.before
  BY <1>1, GoesOn
<1> HIDE DEF done, going, q
<1>6. q.quiet => q.do \in {"create", "update"}
  BY <1>1, <1>2 DEF Stage, WriteShape
<1>7. CASE ("tags" \notin DOMAIN q.data \/ ToAdd(q) \cup ToRemove(q) = {}) /\ Become(w, done)
  <2>1. "tags" \in DOMAIN q.data => q.data.tags = Linked(q)
    BY <1>7 DEF ToAdd, ToRemove
  <2>2. ASSUME q.quiet, Unique(rows, q.id), q.do = "update"
        PROVE  \E old \in Shape :
                 Of(q.before, q.id) = {old} /\ Of(ToSet(rows), q.id) = {Merged(old, q.data)}
    <3>1. PICK old \in Shape, row \in Shape :
            /\ Of(q.before, q.id) = {old} /\ Linked(q) = old.tags
            /\ Of(ToSet(rows), q.id) = {row} /\ row.tags = old.tags
            /\ \A f \in DOMAIN row : f # "tags" => row[f] = Merged(old, Sent(q.data))[f]
      BY <1>1, <1>2, <2>2, LinkingRow
    <3> DEFINE m == Merged(old, Sent(q.data))
    <3>2. m \in Shape /\ m.tags = old.tags
      BY <1>2, LinksLast, MergedProperties
    <3>3. /\ "tags" \in DOMAIN q.data => Merged(old, q.data) = [m EXCEPT !.tags = q.data.tags]
          /\ "tags" \notin DOMAIN q.data => Merged(old, q.data) = m
      BY <1>2, LinksLast
    <3>4. \A f \in DOMAIN row : f # "tags" => row[f] = m[f]
      BY <3>1
    <3> HIDE DEF m
    <3>5. DOMAIN m = DOMAIN row
      BY <3>2, ShapeFields
    <3>6. row = [m EXCEPT !.tags = row.tags] /\ m = [m EXCEPT !.tags = m.tags]
      BY <3>2, <3>4, <3>5, OtherTags
    <3>7. Merged(old, q.data) = row
      BY <2>1, <3>1, <3>2, <3>3, <3>6
    <3>8. QED BY <3>1, <3>7
  <2>3. ASSUME q.quiet, Unique(rows, q.id), q.do = "create"
        PROVE  \E new \in Shape :
                 /\ Of(q.before, q.id) = {} /\ Of(ToSet(rows), q.id) = {new}
                 /\ \A f \in DOMAIN q.data : new[f] = q.data[f]
    <3>1. DOMAIN q.data \subseteq Scalars \cup {"tags"}
      BY <1>2 DEF Data, Fields
    <3>2. PICK row \in Shape :
            /\ Of(q.before, q.id) = {} /\ Linked(q) = {}
            /\ Of(ToSet(rows), q.id) = {row} /\ row.tags = {}
            /\ \A f \in DOMAIN q.data : f \in Scalars => row[f] = q.data[f]
      BY <1>1, <1>2, <2>3, LinkingRow
    <3>3. QED BY <2>1, <3>1, <3>2
  <2>4. q.quiet /\ Unique(rows, q.id) => Others(ToSet(rows), q.id) = Others(q.before, q.id)
    BY <1>1, <1>2, LinkingRow
  <2>5. \A old : Written(old, done) = Merged(old, q.data)
    BY <1>4 DEF Written
  <2>6. q.quiet => Stage(done, rows, adapter)
    BY <1>4, <1>6, <2>2, <2>3, <2>4, <2>5 DEF Stage
  <2>7. QED BY <1>4, <1>7, <2>6, QuietBecomes
<1>8. CASE "tags" \in DOMAIN q.data /\ Commit(w, next, going)
  <2> HIDE DEF id
  <2>1. {} \in SUBSET Tags /\ id = q.id /\ OneIsRelinked(next, id, {}, ToRemove(q))
    BY QuietRelinked DEF Inv, id
  <2> HIDE DEF next
  <2>2. /\ Unique(next, id) => Unique(rows, id)
        /\ Others(ToSet(next), id) = Others(ToSet(rows), id)
        /\ \A row : Unique(rows, id) /\ Of(ToSet(rows), id) = {row} =>
             \E new \in Shape :
               /\ Of(ToSet(next), id) = {new} /\ new.tags = (row.tags \cup {}) \ ToRemove(q)
               /\ \A f \in DOMAIN row : f # "tags" => new[f] = row[f]
    BY <2>1 DEF OneIsRelinked
  <2>3. ASSUME q.quiet, Unique(next, id), q.do = "update"
        PROVE  \E old \in Shape :
                 /\ Of(q.before, id) = {old} /\ q.loaded = {old}
                 /\ Of(ToSet(next), id) = {Written(old, going)}
    <3>1. PICK old \in Shape, row \in Shape :
            /\ Of(q.before, id) = {old} /\ q.loaded = {old} /\ Linked(q) = old.tags
            /\ Of(ToSet(rows), id) = {row} /\ row.tags = old.tags
            /\ \A f \in DOMAIN row : f # "tags" => row[f] = Merged(old, Sent(q.data))[f]
      BY <1>1, <1>2, <2>1, <2>2, <2>3, LinkingRow
    <3>2. PICK new \in Shape :
            /\ Of(ToSet(next), id) = {new} /\ new.tags = (row.tags \cup {}) \ ToRemove(q)
            /\ \A f \in DOMAIN row : f # "tags" => new[f] = row[f]
      BY <2>2, <2>3, <3>1
    <3>3. new.tags = old.tags \cap q.data.tags
      BY <3>1, <3>2 DEF ToRemove
    <3> DEFINE m == Merged(old, Sent(q.data))
    <3>4. m \in Shape /\ DOMAIN m = DOMAIN row
      BY <1>2, LinksLast, MergedProperties, ShapeFields
    <3>5. \A f \in DOMAIN m : f # "tags" => new[f] = m[f]
      BY <3>1, <3>2, <3>4
    <3>6. Written(old, going) = [m EXCEPT !.tags = old.tags \cap q.data.tags]
      BY <1>5 DEF Written
    <3> HIDE DEF m
    <3>7. new = [m EXCEPT !.tags = new.tags]
      BY <3>4, <3>5, OtherTags
    <3>8. QED BY <3>1, <3>2, <3>3, <3>6, <3>7
  <2>4. ASSUME q.quiet, Unique(next, id), q.do = "create"
        PROVE  \E new \in Shape :
                 /\ Of(q.before, id) = {} /\ Of(ToSet(next), id) = {new}
                 /\ q.loaded = {} /\ new.tags = {}
                 /\ \A f \in DOMAIN q.data : f \in Scalars => new[f] = q.data[f]
    <3>1. PICK row \in Shape :
            /\ Of(q.before, id) = {} /\ q.loaded = {} /\ Of(ToSet(rows), id) = {row} /\ row.tags = {}
            /\ \A f \in DOMAIN q.data : f \in Scalars => row[f] = q.data[f]
      BY <1>1, <1>2, <2>1, <2>2, <2>4, LinkingRow
    <3>2. PICK new \in Shape :
            /\ Of(ToSet(next), id) = {new} /\ new.tags = (row.tags \cup {}) \ ToRemove(q)
            /\ \A f \in DOMAIN row : f # "tags" => new[f] = row[f]
      BY <2>2, <2>4, <3>1
    <3>3. \A f \in Scalars : f \in DOMAIN row /\ f # "tags"
      BY ShapeFields DEF Fields, Scalars
    <3>4. QED BY <3>1, <3>2, <3>3
  <2>5. q.quiet /\ Unique(next, id) => Others(ToSet(next), id) = Others(q.before, id)
    BY <1>1, <1>2, <2>1, <2>2, LinkingRow
  <2>6. q.quiet => Stage(going, next, adapter)
    BY <1>5, <1>6, <2>1, <2>3, <2>4, <2>5 DEF Stage
  <2>7. QED BY <1>5, <1>8, <2>6, QuietCommits
<1>9. QED BY <1>3, <1>7, <1>8

LEMMA QuietLink ==
  ASSUME Inv, QuietInv, NEW w \in Writers, Link(w)
  PROVE  QuietInv'
<1> DEFINE q    == write[w]
           id   == q.id
           next == Relinked(id, ToAdd(q), {})
           done == [q EXCEPT !.pc = "reload"]
<1>1. q # Idle /\ q.pc = "link"
  BY DEF Link, Idle
<1>2. /\ q \in WriteShape /\ Data(q.data) /\ "tags" \in DOMAIN q.data
      /\ q.quiet => Stage(q, rows, adapter)
  BY <1>1, InFlight, WriteFields DEF QuietInv, EntityIsLoaded
<1>3. Become(w, [q EXCEPT !.pc = "error"]) \/ Commit(w, next, done)
  BY DEF Link
<1>4. /\ done \in WriteShape /\ done.pc = "reload" /\ done.do = q.do /\ done.id = q.id
      /\ done.data = q.data /\ done.quiet = q.quiet /\ done.before = q.before
  BY <1>1, GoesOn
<1>5. CASE Become(w, [q EXCEPT !.pc = "error"])
  BY <1>1, <1>5, QuietFails
<1>6. CASE Commit(w, next, done)
  <2> HIDE DEF done, q, id
  <2>1. ToAdd(q) \in SUBSET Tags /\ q.data.tags \subseteq Tags /\ id = q.id
    BY <1>2 DEF ToAdd, Data, id
  <2>10. OneIsRelinked(next, id, ToAdd(q), {})
    BY <2>1, QuietRelinked DEF Inv
  <2> HIDE DEF next
  <2>2. /\ Unique(next, id) => Unique(rows, id)
        /\ Others(ToSet(next), id) = Others(ToSet(rows), id)
        /\ \A row : Unique(rows, id) /\ Of(ToSet(rows), id) = {row} =>
             \E new \in Shape :
               /\ Of(ToSet(next), id) = {new} /\ new.tags = (row.tags \cup ToAdd(q)) \ {}
               /\ \A f \in DOMAIN row : f # "tags" => new[f] = row[f]
    BY <2>10 DEF OneIsRelinked
  <2>3. ASSUME q.quiet, Unique(next, id), q.do = "update"
        PROVE  \E old \in Shape :
                 Of(q.before, id) = {old} /\ Of(ToSet(next), id) = {Merged(old, q.data)}
    <3>1. PICK old \in Shape, row \in Shape :
            /\ Of(q.before, id) = {old} /\ Linked(q) = old.tags
            /\ Of(ToSet(rows), id) = {row} /\ row.tags = old.tags \cap q.data.tags
            /\ \A f \in DOMAIN row : f # "tags" => row[f] = Merged(old, Sent(q.data))[f]
      BY <1>1, <1>2, <2>1, <2>2, <2>3, LinkingRow
    <3>2. PICK new \in Shape :
            /\ Of(ToSet(next), id) = {new} /\ new.tags = (row.tags \cup ToAdd(q)) \ {}
            /\ \A f \in DOMAIN row : f # "tags" => new[f] = row[f]
      BY <2>2, <2>3, <3>1
    <3>3. new.tags = q.data.tags
      BY <3>1, <3>2 DEF ToAdd
    <3> DEFINE m == Merged(old, Sent(q.data))
    <3>4. m \in Shape /\ DOMAIN m = DOMAIN row
      BY <1>2, LinksLast, MergedProperties, ShapeFields
    <3>5. \A f \in DOMAIN m : f # "tags" => new[f] = m[f]
      BY <3>1, <3>2, <3>4
    <3>6. Merged(old, q.data) = [m EXCEPT !.tags = q.data.tags]
      BY <1>2, LinksLast
    <3> HIDE DEF m
    <3>7. new = [m EXCEPT !.tags = new.tags]
      BY <3>4, <3>5, OtherTags
    <3>8. QED BY <3>1, <3>2, <3>3, <3>6, <3>7
  <2>4. ASSUME q.quiet, Unique(next, id), q.do = "create"
        PROVE  \E new \in Shape :
                 /\ Of(q.before, id) = {} /\ Of(ToSet(next), id) = {new}
                 /\ \A f \in DOMAIN q.data : new[f] = q.data[f]
    <3>1. PICK row \in Shape :
            /\ Of(q.before, id) = {} /\ Linked(q) = {} /\ Of(ToSet(rows), id) = {row} /\ row.tags = {}
            /\ \A f \in DOMAIN q.data : f \in Scalars => row[f] = q.data[f]
      BY <1>1, <1>2, <2>1, <2>2, <2>4, LinkingRow
    <3>2. PICK new \in Shape :
            /\ Of(ToSet(next), id) = {new} /\ new.tags = (row.tags \cup ToAdd(q)) \ {}
            /\ \A f \in DOMAIN row : f # "tags" => new[f] = row[f]
      BY <2>2, <2>4, <3>1
    <3>3. new.tags = q.data.tags
      BY <3>1, <3>2 DEF ToAdd
    <3>4. /\ DOMAIN q.data \subseteq Scalars \cup {"tags"}
          /\ \A f \in Scalars : f \in DOMAIN row /\ f # "tags"
      BY <1>2, ShapeFields DEF Data, Fields, Scalars
    <3>5. QED BY <3>1, <3>2, <3>3, <3>4
  <2>5. q.quiet /\ Unique(next, id) =>
          q.do \in {"create", "update"} /\ Others(ToSet(next), id) = Others(q.before, id)
    BY <1>1, <1>2, <2>1, <2>2, LinkingRow
  <2>6. \A old : Written(old, done) = Merged(old, q.data)
    BY <1>4 DEF Written
  <2>7. q.quiet => q.do # "delete"
    BY <1>1, <1>2 DEF Stage
  <2>8. q.quiet => Stage(done, next, adapter)
    BY <1>4, <2>1, <2>3, <2>4, <2>5, <2>6, <2>7 DEF Stage
  <2>9. QED BY <1>4, <1>6, <2>8, QuietCommits
<1>7. QED BY <1>3, <1>5, <1>6

LEMMA QuietReload ==
  ASSUME Inv, QuietInv, NEW w \in Writers, Reload(w)
  PROVE  QuietInv'
<1> DEFINE q == write[w]
           pc == IF adapter = "typeorm" /\ WithId(q.id) = {} THEN "error" ELSE "ok"
           done == [q EXCEPT !.result = RowsOf(q.id), !.loaded = {}, !.pc = pc]
<1>1. q # Idle /\ q.pc = "reload" /\ Become(w, done)
  BY DEF Reload, Idle
<1>2. q \in WriteShape /\ (q.quiet => Stage(q, rows, adapter))
  BY <1>1, InFlight DEF QuietInv
<1>3. RowsOf(q.id) \in SUBSET Shape /\ pc \in {"ok", "error"}
  BY Places DEF Inv, RowsOf, WithId
<1>4. RowsOf(q.id) = Of(ToSet(rows), q.id)
  BY DEF RowsOf, WithId, Of, ToSet
<1> HIDE DEF q, pc
<1>5. /\ done \in WriteShape /\ done.pc = pc /\ done.do = q.do /\ done.id = q.id
      /\ done.data = q.data /\ done.quiet = q.quiet /\ done.before = q.before
      /\ done.result = RowsOf(q.id)
  BY <1>2, <1>3 DEF WriteShape
<1>6. q.quiet => q.do \in {"create", "update"}
  BY <1>1, <1>2 DEF Stage, WriteShape
<1> HIDE DEF done
<1>7. \A old : Written(old, done) = Merged(old, q.data) /\ Written(old, q) = Merged(old, q.data)
  BY <1>1, <1>3, <1>5 DEF Written
<1>9. q.quiet => Stage(done, rows, adapter)
  BY <1>1, <1>2, <1>3, <1>4, <1>5, <1>6, <1>7 DEF Stage
<1>8. QED BY <1>1, <1>5, <1>9, QuietBecomes

LEMMA QuietInit == Init => QuietInv
BY DEF Init, QuietInv

LEMMA QuietNext == Inv /\ QuietInv /\ [Next]_vars => QuietInv'
<1> SUFFICES ASSUME Inv, QuietInv, [Next]_vars PROVE QuietInv'
  OBVIOUS
<1>1. ASSUME NEW w \in Writers, WriteStep(w)
      PROVE  QuietInv'
  BY <1>1, QuietCreate, QuietLoad, QuietUpdateAtOnce, QuietFlush, QuietReadStored, QuietSave,
     QuietSync, QuietLink, QuietReload, QuietDelete
  DEF WriteStep
<1>2. ASSUME \/ \E r \in Readers : StartList(r) \/ ReadHits(r) \/ ReadItems(r) \/ ReadTotal(r)
             \/ Tick \/ Rename \/ UNCHANGED vars
      PROVE  QuietInv'
  <2>1. ASSUME NEW r, NEW q, Answer(r, q)
        PROVE  UNCHANGED <<adapter, rows, write>>
    BY <2>1 DEF Answer
  <2>2. ASSUME NEW r \in Readers, StartList(r) \/ ReadHits(r) \/ ReadItems(r) \/ ReadTotal(r)
        PROVE  \E q : Answer(r, q)
    BY <2>2, Zenon DEF StartList, ReadHits, ReadItems, ReadTotal
  <2>3. UNCHANGED <<adapter, rows, write>>
    BY <1>2, <2>1, <2>2 DEF Tick, Rename, vars
  <2>4. QED BY <2>3 DEF QuietInv, Idle
<1>3. QED BY <1>1, <1>2, QuietStart DEF Next

(* An id that no two rows share is there once.                             *)
LEMMA UniqueOnes ==
  ASSUME Inv, NEW id, \A row \in RowsOf(id) : Cardinality(WithId(id)) = 1
  PROVE  Unique(rows, id)
<1>1. SUFFICES ASSUME NEW i \in DOMAIN rows, NEW k \in DOMAIN rows, rows[i].id = id, rows[k].id = id
               PROVE  i = k
  BY DEF Unique
<1>2. Cardinality({h \in DOMAIN rows : rows[h].id = id}) = 1
  BY <1>1 DEF RowsOf, WithId
<1>3. DOMAIN rows = 1..Len(rows) /\ rows \in Seq(Shape)
  BY Places DEF Inv, Shaped
<1>4. QED BY <1>1, <1>2, <1>3, OnePlace

LEMMA QuietExact == Inv /\ QuietInv => QuietWriteIsExact
<1>1. SUFFICES ASSUME Inv, QuietInv, NEW w \in Writers, write[w].pc = "ok", write[w].quiet,
                      \A row \in RowsOf(write[w].id) : Cardinality(WithId(write[w].id)) = 1
               PROVE  LET q == write[w]
                      IN  CASE q.do = "update" ->
                                 /\ q.result = {Merged(row, q.data) : row \in {b \in q.before : b.id = q.id}}
                                 /\ ToSet(rows) = {b \in q.before : b.id # q.id} \cup q.result
                            [] q.do = "create" ->
                                 Cardinality(q.result) = 1 /\ ToSet(rows) = q.before \cup q.result
                                 /\ \A row \in q.result : \A f \in DOMAIN q.data : row[f] = q.data[f]
                            [] q.do = "delete" ->
                                 {row \in ToSet(rows) : row.id # q.id} = {b \in q.before : b.id # q.id}
  BY DEF QuietWriteIsExact
<1> DEFINE q == write[w]
<1>2. q \in WriteShape /\ Stage(q, rows, adapter) /\ Unique(rows, q.id) /\ q.pc = "ok"
  BY <1>1, InFlight, UniqueOnes DEF QuietInv, Idle
<1> HIDE DEF q
<1>3. \A T : T = Others(T, q.id) \cup Of(T, q.id)
  BY DEF Others, Of
<1>4. CASE q.do = "update"
  <2>1. PICK old \in Shape :
          Of(q.before, q.id) = {old} /\ Of(ToSet(rows), q.id) = {Merged(old, q.data)}
    BY <1>2, <1>4 DEF Stage, Written
  <2>2. q.result = Of(ToSet(rows), q.id) /\ Others(ToSet(rows), q.id) = Others(q.before, q.id)
    BY <1>2, <1>4 DEF Stage
  <2>3. {Merged(row, q.data) : row \in {b \in q.before : b.id = q.id}} = {Merged(old, q.data)}
    BY <2>1 DEF Of
  <2>4. ToSet(rows) = {b \in q.before : b.id # q.id} \cup q.result
    BY <1>3, <2>2 DEF Others
  <2>5. QED BY <1>4, <2>1, <2>2, <2>3, <2>4 DEF q
<1>5. CASE q.do = "create"
  <2>1. PICK new \in Shape :
          /\ Of(q.before, q.id) = {} /\ Of(ToSet(rows), q.id) = {new}
          /\ \A f \in DOMAIN q.data : new[f] = q.data[f]
    BY <1>2, <1>5 DEF Stage
  <2>2. q.result = Of(ToSet(rows), q.id) /\ Others(ToSet(rows), q.id) = Others(q.before, q.id)
    BY <1>2, <1>5 DEF Stage
  <2>3. ToSet(rows) = q.before \cup q.result
    BY <1>3, <2>1, <2>2
  <2>4. Cardinality(q.result) = 1
    BY <2>1, <2>2, FS_Singleton
  <2>5. QED BY <1>5, <2>1, <2>2, <2>3, <2>4 DEF q
<1>6. CASE q.do = "delete"
  BY <1>2, <1>6 DEF Stage, Others, q
<1>7. QED BY <1>2, <1>4, <1>5, <1>6 DEF WriteShape

-----------------------------------------------------------------------------

(* The table and the requests keep their shapes, with ids of any size, and *)
(* an entity is loaded for the record it is written to.                    *)
THEOREM Invariance == Spec => []Inv
BY InitInv, NextInv, PTL DEF Spec

(* Whatever overlaps, a field of a record changes only to what a request   *)
(* in flight for that record has sent, by its soft delete, or, over TypeORM*)
(* alone, back to what such a request had loaded.                          *)
THEOREM FieldsAreAccounted == Spec => OnlySentFieldsChange
<1>1. Inv /\ [Next]_vars =>
        [\A row \in ToSet(rows), new \in ToSet(rows') :
           row.id = new.id /\ Cardinality(WithId(row.id)) = 1 /\ Cardinality(WithId(row.id)') = 1 =>
             \A f \in DOMAIN row : new[f] # row[f] => Accounted(f, row, new)]_vars
  BY NextInv DEF ChangesAccounted
<1>2. QED
  BY <1>1, Invariance, PTL DEF Spec, OnlySentFieldsChange

(* A write that is answered well and that no other overlapped has done to  *)
(* the record it names what was sent, and nothing else to any, whatever    *)
(* the steps are that its adapter takes.                                   *)
THEOREM QuietWritesAreExact == Spec => []QuietWriteIsExact
<1>1. Spec => []QuietInv
  BY Invariance, QuietInit, QuietNext, PTL DEF Spec
<1>2. QED BY <1>1, Invariance, QuietExact, PTL

-----------------------------------------------------------------------------
(* Listings that nobody writes under.                                      *)

IsRead(q) ==
  /\ q = [f \in {"pc", "query", "hits", "got", "items", "total", "quiet"} |-> q[f]]
  /\ q.pc \in {"hits", "rows", "ok"}
  /\ q.query \in Query
  /\ q.got \subseteq {"items", "total"}
  /\ q.quiet \in BOOLEAN

(* The same as Wanted, of any table.                                       *)
WantedOf(query, s, sd, owners) ==
  {i \in DOMAIN s :
     /\ sd /\ query.state # "all" => s[i].deleted = (query.state = "deleted")
     /\ query.tags = {} \/ \E t \in query.tags : t \in s[i].tags
     /\ query.search => s[i].name = 2 \/ s[i].owner \in owners}

IsPage(items, query, s, wanted) ==
  LET ahead == (query.page - 1) * PageSize
  IN  /\ Len(items) = Min({PageSize, Max({0, Cardinality(wanted) - ahead})})
      /\ \A i \in DOMAIN items :
           LET before == {k \in wanted : s[k].name < items[i].name}
               upto   == {k \in wanted : s[k].name <= items[i].name}
           IN  /\ items[i] \in {s[k] : k \in wanted}
               /\ Cardinality(before) < ahead + i /\ ahead + i <= Cardinality(upto)
      /\ \A i, k \in DOMAIN items : items[i] = items[k] =>
           i = k \/ \E x, y \in wanted : x # y /\ s[x] = s[y]

(* What a listing has read is what the table has.                          *)
ReadIsRight(q, s, sd, owners, kind) ==
  /\ q.pc = "ok" => q.got = {"items", "total"}
  /\ q.quiet =>
       /\ kind \in {"prisma", "mikroorm"} /\ q.query.search /\ q.pc # "hits" => q.hits = owners
       /\ "total" \in q.got => q.total = Cardinality(WantedOf(q.query, s, sd, owners))
       /\ "items" \in q.got => IsPage(q.items, q.query, s, WantedOf(q.query, s, sd, owners))

ReadsInv ==
  /\ read = [r \in Readers |-> read[r]]
  /\ \A r \in Readers : read[r] # Idle => IsRead(read[r]) /\ ReadIsRight(read[r], rows, soft, hits, adapter)

(* Where each row of a list comes from.                                    *)
IsPlacing(at, query, owners) ==
  /\ at \in [1..Cardinality(Wanted(query)) -> Wanted(query)]
  /\ \A k, l \in 1..Cardinality(Wanted(query)) : at[k] = at[l] => k = l
  /\ \A k \in 1..Cardinality(Wanted(query)) : Matching(query, owners)[k] = rows[at[k]]

Less(W, name, v) == {x \in W : name[x] < v}
UpTo(W, name, v) == {x \in W : name[x] <= v}

LEMMA MatchingIsWanted ==
  ASSUME Inv, NEW query \in Query, NEW owners, query.search => owners = hits, NEW i \in DOMAIN rows
  PROVE  Matches(rows[i], query, owners) <=> i \in Wanted(query)
<1>1. rows[i] \in Shape
  BY Places DEF Inv
<1>2. /\ query.state \in {"active", "deleted", "all"} /\ query.search \in BOOLEAN
      /\ rows[i].deleted \in BOOLEAN
  BY <1>1, ShapeFields DEF Query
<1>3. (query.tags # {} => rows[i].tags \cap query.tags # {})
        <=> (query.tags = {} \/ \E t \in query.tags : t \in rows[i].tags)
  OBVIOUS
<1>4. (soft => CASE query.state = "active"  -> ~rows[i].deleted
                 [] query.state = "deleted" -> rows[i].deleted
                 [] OTHER                   -> TRUE)
        <=> (soft /\ query.state # "all" => rows[i].deleted = (query.state = "deleted"))
  BY <1>2
<1>5. (query.search => rows[i].name = 2 \/ rows[i].owner \in owners)
        <=> (query.search => rows[i].name = 2 \/ rows[i].owner \in hits)
  OBVIOUS
<1>6. QED BY <1>3, <1>4, <1>5 DEF Matches, Wanted

(* The list that is paged: the rows wanted, each from its place.           *)
LEMMA MatchingProperties ==
  ASSUME Inv, NEW query \in Query, NEW owners, query.search => owners = hits
  PROVE  /\ Cardinality(Wanted(query)) \in Nat /\ IsFiniteSet(Wanted(query))
         /\ Matching(query, owners) \in Seq(Shape)
         /\ Len(Matching(query, owners)) = Cardinality(Wanted(query))
         /\ \E at : IsPlacing(at, query, owners)
<1> DEFINE js == {row \in ToSet(rows) : Matches(row, query, owners)}
           P == {i \in DOMAIN rows : rows[i] \in js}
           rank(i) == Cardinality({h \in P : h <= i})
           n == Cardinality(P)
           place(k) == CHOOSE i \in P : rank(i) = k
           at == [k \in 1..n |-> place(k)]
           t == Matching(query, owners)
<1>1. t = [k \in 1..n |-> rows[place(k)]]
  BY DEF Matching, Kept
<1>2. P = Wanted(query)
  <2>1. \A i \in DOMAIN rows : rows[i] \in ToSet(rows)
    BY Places DEF Inv
  <2>2. \A i \in DOMAIN rows : i \in P <=> i \in Wanted(query)
    BY <2>1, MatchingIsWanted
  <2>3. Wanted(query) \subseteq DOMAIN rows
    BY DEF Wanted
  <2> HIDE DEF js
  <2>4. QED BY <2>2, <2>3
<1>3. /\ n \in Nat /\ IsFiniteSet(P)
      /\ \A k \in 1..n : \E i \in P : rank(i) = k
  <2>1. Len(rows) \in Nat /\ P \in SUBSET (1..Len(rows)) /\ IsFiniteSet(1..Len(rows))
    BY Places, FS_Interval DEF Inv
  <2> HIDE DEF P
  <2>2. QED BY <2>1, PlacesAreNumbered, FS_Subset
<1>4. \A i \in P : rows[i] \in Shape
  BY Places DEF Inv
<1> HIDE DEF P, rank, n, t, js
<1>5. \A k \in 1..n : place(k) \in P /\ rank(place(k)) = k
  BY <1>3
<1> HIDE DEF place
<1>6. /\ t \in [1..n -> Shape] /\ DOMAIN t = 1..n
      /\ \A k \in 1..n : t[k] = rows[place(k)]
  BY <1>1, <1>4, <1>5
<1>7. t \in Seq(Shape) /\ Len(t) = n
  BY <1>3, <1>6
<1>8. /\ at \in [1..n -> P]
      /\ \A k, l \in 1..n : at[k] = at[l] => k = l
      /\ \A k \in 1..n : t[k] = rows[at[k]]
  BY <1>5, <1>6
<1> HIDE DEF at
<1>9. IsPlacing(at, query, owners)
  BY <1>2, <1>8 DEF n, t, IsPlacing
<1>10. QED BY <1>2, <1>3, <1>7, <1>9 DEF n, t

(* In a list of all of W in the order of their names, at most k - 1 have a *)
(* smaller name than the k-th, and at least k one that is no greater.      *)
LEMMA SortedPlaces ==
  ASSUME NEW W, IsFiniteSet(W), NEW n \in Nat, n = Cardinality(W),
         NEW at \in [1..n -> W], \A i, k \in 1..n : at[i] = at[k] => i = k,
         NEW name \in [W -> Nat],
         \A i, k \in 1..n : i < k => name[at[i]] <= name[at[k]],
         NEW k \in 1..n
  PROVE  /\ Cardinality(Less(W, name, name[at[k]])) < k
         /\ k <= Cardinality(UpTo(W, name, name[at[k]]))
<1> DEFINE less == {x \in W : name[x] < name[at[k]]}
           upto == {x \in W : name[x] <= name[at[k]]}
<1>1. ASSUME NEW m \in Nat
      PROVE  IsFiniteSet(1..m) /\ Cardinality(1..m) = m
  <2>1. 1 \in Int /\ m \in Int
    OBVIOUS
  <2>2. IsFiniteSet(1..m) /\ Cardinality(1..m) = IF 1 > m THEN 0 ELSE m - 1 + 1
    BY ONLY <2>1, FS_Interval
  <2>3. QED BY <2>2
<1>2. \A x \in W : \E i \in 1..n : at[i] = x
  <2>1. at \in Injection(1..n, W)
    BY DEF Injection, IsInjective
  <2>2. at \in Surjection(1..n, W)
    BY <2>1, <1>1, FS_Injection
  <2>3. QED BY <2>2 DEF Surjection
<1>3. IsFiniteSet(less) /\ IsFiniteSet(upto) /\ k \in Nat /\ k - 1 \in Nat
  BY FS_Subset
<1>4. Cardinality(less) <= k - 1
  <2> DEFINE no == [x \in less |-> CHOOSE i \in 1..n : at[i] = x]
  <2>1. \A x \in less : no[x] \in 1..n /\ at[no[x]] = x
    BY <1>2
  <2>2. ASSUME NEW x \in less
        PROVE  no[x] \in 1..(k - 1)
    <3> HIDE DEF no
    <3>1. no[x] \in 1..n /\ name[at[no[x]]] < name[at[k]]
      BY <2>1
    <3>2. no[x] # k /\ ~(k < no[x])
      <4>1. name[at[no[x]]] \in Nat /\ name[at[k]] \in Nat
        BY <3>1
      <4>2. k < no[x] => name[at[k]] <= name[at[no[x]]]
        BY <3>1
      <4>3. QED BY <3>1, <4>1, <4>2
    <3>3. QED BY <3>1, <3>2, <1>3
  <2>3. DOMAIN no = less
    OBVIOUS
  <2>4. no = [x \in less |-> no[x]]
    OBVIOUS
  <2> HIDE DEF no, less
  <2>5. no \in [less -> 1..(k - 1)]
    BY <2>2, <2>4
  <2>6. no \in Injection(less, 1..(k - 1))
    BY <2>1, <2>5 DEF Injection, IsInjective
  <2>7. QED BY <2>6, <1>1, <1>3, FS_Injection
<1>5. k <= Cardinality(upto)
  <2> DEFINE first == [i \in 1..k |-> at[i]]
  <2>1. \A i \in 1..k : i \in 1..n
    OBVIOUS
  <2>2. \A i \in 1..k : at[i] \in upto
    <3>1. SUFFICES ASSUME NEW i \in 1..k PROVE at[i] \in upto
      OBVIOUS
    <3>2. i \in 1..n /\ (i < k \/ i = k) /\ name[at[k]] \in Nat
      BY <2>1
    <3>3. name[at[i]] <= name[at[k]]
      BY <3>2
    <3>4. QED BY <3>2, <3>3
  <2> HIDE DEF upto
  <2>3. first \in [1..k -> upto] /\ \A i \in 1..k : first[i] = at[i]
    BY <2>2
  <2> HIDE DEF first
  <2>4. first \in Injection(1..k, upto)
    BY <2>1, <2>3 DEF Injection, IsInjective
  <2>5. QED BY <2>4, <1>1, <1>3, FS_Injection
<1>6. QED
  <2>1. Cardinality(less) \in Nat
    BY <1>3, FS_CardinalityType
  <2> HIDE DEF less, upto
  <2>2. Cardinality(less) < k
    BY <2>1, <1>3, <1>4
  <2>3. QED BY <2>2, <1>5 DEF less, upto, Less, UpTo

(* A page of the list, in any of the orders it may come in.                *)
LEMMA PagesAreRight ==
  ASSUME Inv, NEW query \in Query, NEW owners, query.search => owners = hits,
         NEW items \in PagesOf(query, owners)
  PROVE  items \in Seq(Shape) /\ IsPage(items, query, rows, Wanted(query))
<1> DEFINE W == Wanted(query)
           m == Cardinality(W)
           found == Matching(query, owners)
           ahead == (query.page - 1) * PageSize
<1>1. /\ m \in Nat /\ IsFiniteSet(W) /\ W \subseteq DOMAIN rows
      /\ found \in Seq(Shape) /\ Len(found) = m /\ DOMAIN found = 1..m
  <2>1. W \subseteq DOMAIN rows
    BY DEF Wanted
  <2>2. m \in Nat /\ IsFiniteSet(W) /\ found \in Seq(Shape) /\ Len(found) = m
    BY MatchingProperties
  <2>3. DOMAIN found = 1..m
    BY <2>2, LenProperties
  <2>4. QED BY <2>1, <2>2, <2>3
<1>2. PICK at : IsPlacing(at, query, owners)
  BY MatchingProperties
<1>3. PICK p \in [1..m -> 1..m] :
        /\ \A i, k \in 1..m : i # k => p[i] # p[k]
        /\ \A i, k \in 1..m : i < k => \/ found[p[i]].name < found[p[k]].name
                                       \/ found[p[i]].name = found[p[k]].name
        /\ items = Slice([i \in 1..m |-> found[p[i]]],
                         (query.page - 1) * PageSize + 1, query.page * PageSize)
  <2> HIDE DEF found, m
  <2>1. \E p \in [DOMAIN found -> DOMAIN found] :
          /\ \A i, k \in DOMAIN found : i # k => p[i] # p[k]
          /\ \A i, k \in DOMAIN found : i < k =>
               \/ found[p[i]].name < found[p[k]].name
               \/ found[p[i]].name = found[p[k]].name
          /\ items = Slice([i \in DOMAIN found |-> found[p[i]]],
                           (query.page - 1) * PageSize + 1, query.page * PageSize)
    BY DEF PagesOf, found
  <2>2. QED BY <2>1, <1>1
<1>4. /\ at \in [1..m -> W]
      /\ \A k, l \in 1..m : at[k] = at[l] => k = l
      /\ \A k \in 1..m : found[k] = rows[at[k]]
  BY <1>2 DEF IsPlacing
<1> HIDE DEF found, m, W
<1> DEFINE s == [i \in 1..m |-> found[p[i]]]
           pos == [i \in 1..m |-> at[p[i]]]
           name == [x \in W |-> rows[x].name]
<1>5. \A x \in W : rows[x] \in Shape /\ rows[x].name \in Nat
  <2>1. \A x \in W : rows[x] \in Shape
    BY <1>1, Places DEF Inv
  <2>2. Values \subseteq Nat
    BY DEF Values
  <2>3. QED BY <2>1, <2>2, ShapeFields
<1>6. /\ pos \in [1..m -> W] /\ \A i, k \in 1..m : pos[i] = pos[k] => i = k
      /\ \A i \in 1..m : s[i] = rows[pos[i]] /\ pos[i] \in W
  <2>1. \A i \in 1..m : p[i] \in 1..m
    BY <1>3
  <2>2. \A i \in 1..m : s[i] = rows[pos[i]] /\ pos[i] \in W /\ pos[i] = at[p[i]]
    BY <1>4, <2>1
  <2>3. pos \in [1..m -> W]
    BY <2>2
  <2> HIDE DEF pos, s
  <2>4. QED BY <2>1, <2>2, <2>3, <1>4, <1>3
<1>7. /\ name \in [W -> Nat] /\ \A x \in W : name[x] = rows[x].name
      /\ \A i, k \in 1..m : i < k => name[pos[i]] <= name[pos[k]]
  <2>1. name \in [W -> Nat] /\ \A x \in W : name[x] = rows[x].name
    BY <1>5
  <2>2. ASSUME NEW i \in 1..m, NEW k \in 1..m, i < k
        PROVE  name[pos[i]] <= name[pos[k]]
    <3>1. /\ name[pos[i]] = found[p[i]].name /\ name[pos[k]] = found[p[k]].name
          /\ name[pos[i]] \in Nat /\ name[pos[k]] \in Nat
      <4>1. s[i] = found[p[i]] /\ s[k] = found[p[k]]
        OBVIOUS
      <4> HIDE DEF s, pos, name
      <4>2. QED BY <4>1, <1>6, <2>1
    <3> HIDE DEF pos, name
    <3>2. QED BY <3>1, <2>2, <1>3
  <2>3. QED BY <2>1, <2>2
<1>8. s \in Seq(Shape) /\ Len(s) = m /\ \A i \in 1..m : s[i] \in Shape
  <2>1. \A i \in 1..m : s[i] \in Shape
    <3> HIDE DEF s, pos
    <3>1. QED BY <1>5, <1>6
  <2>2. s = [i \in 1..m |-> s[i]]
    OBVIOUS
  <2> HIDE DEF s
  <2>3. s \in [1..m -> Shape]
    BY <2>1, <2>2
  <2>4. QED BY <2>1, <2>3, <1>1
<1> HIDE DEF s, pos, name
<1>9. ahead \in Nat /\ query.page * PageSize = ahead + PageSize /\ PageSize \in Nat \ {0}
  <2>1. query.page \in Nat \ {0} /\ PageSize \in Nat \ {0}
    BY SizeAssumption DEF Query
  <2>2. PICK b \in Nat : query.page = b + 1
    <3>1. query.page - 1 \in Nat /\ query.page = (query.page - 1) + 1
      BY <2>1
    <3>2. QED BY <3>1
  <2>3. query.page - 1 = b /\ b * PageSize \in Nat /\ (b + 1) * PageSize = b * PageSize + PageSize
    BY <2>1, <2>2
  <2>4. QED BY <2>1, <2>2, <2>3
<1> HIDE DEF ahead
<1> DEFINE last == IF ahead + PageSize < m THEN ahead + PageSize ELSE m
<1>10. items = SubSeq(s, ahead + 1, last)
  BY <1>3, <1>8, <1>9 DEF Slice, s, ahead
<1>11. /\ last \in Nat /\ last <= m /\ last <= ahead + PageSize
       /\ ahead + 1 \in Int /\ last \in Int
       /\ last = m \/ last = ahead + PageSize
  BY <1>1, <1>9
<1>12. /\ items \in Seq(Shape)
       /\ Len(items) = IF ahead + 1 <= last THEN last - (ahead + 1) + 1 ELSE 0
       /\ \A i \in 1..(last - (ahead + 1) + 1) : items[i] = s[(ahead + 1) + i - 1]
  <2> HIDE DEF last
  <2>1. \A i \in (ahead + 1)..last : s[i] \in Shape
    <3>1. \A i \in (ahead + 1)..last : i \in 1..m
      BY <1>1, <1>9, <1>11
    <3>2. QED BY <3>1, <1>8
  <2>2. QED BY <1>10, <1>11, <2>1, SubSeqProperties
<1>13. /\ Len(items) \in Nat
       /\ \A i \in DOMAIN items : ahead + i \in 1..m /\ items[i] = rows[pos[ahead + i]] /\ i \in Nat
  <2>1. Len(items) \in Nat /\ DOMAIN items = 1..Len(items)
    BY <1>12, LenProperties
  <2>2. ASSUME NEW i \in DOMAIN items
        PROVE  ahead + i \in 1..m /\ items[i] = s[ahead + i] /\ i \in Nat
    <3> HIDE DEF last
    <3>1. i \in 1..Len(items) /\ i \in Nat
      BY <2>1
    <3>2. ahead + 1 <= last
      BY <3>1, <1>12
    <3>3. i <= last - (ahead + 1) + 1
      BY <3>1, <3>2, <1>12
    <3>4. i \in 1..(last - (ahead + 1) + 1) /\ (ahead + 1) + i - 1 = ahead + i
      BY <3>1, <3>3, <1>9, <1>11
    <3>5. ahead + i \in 1..m
      <4>1. 1 <= i /\ i <= last - ahead
        BY <3>1, <3>3, <1>9, <1>11
      <4>2. 1 <= ahead + i /\ ahead + i <= last /\ ahead + i \in Nat
        BY <3>1, <4>1, <1>9, <1>11
      <4>3. QED BY <4>2, <1>1, <1>11
    <3>6. QED BY <3>1, <3>4, <3>5, <1>12
  <2>3. QED BY <2>1, <2>2, <1>6
<1>14. Len(items) = Min({PageSize, Max({0, m - ahead})})
  <2> HIDE DEF last
  <2>1. ASSUME NEW x \in Int, NEW y \in Int
        PROVE  /\ Max({x, y}) = (IF x <= y THEN y ELSE x)
               /\ Min({x, y}) = (IF x <= y THEN x ELSE y)
    <3>1. \E z \in {x, y} : \A e \in {x, y} : e <= z
      OBVIOUS
    <3>2. \E z \in {x, y} : \A e \in {x, y} : z <= e
      OBVIOUS
    <3>3. Max({x, y}) \in {x, y} /\ \A e \in {x, y} : e <= Max({x, y})
      BY <3>1 DEF Max
    <3>4. Min({x, y}) \in {x, y} /\ \A e \in {x, y} : Min({x, y}) <= e
      BY <3>2 DEF Min
    <3>5. QED BY <3>3, <3>4
  <2>2. /\ m - ahead \in Int /\ 0 \in Int /\ PageSize \in Int
        /\ Len(items) = IF last - ahead <= 0 THEN 0 ELSE last - ahead
    BY <1>1, <1>9, <1>11, <1>12
  <2>3. Max({0, m - ahead}) = IF 0 <= m - ahead THEN m - ahead ELSE 0
    BY <2>1, <2>2
  <2>4. PICK z \in Int : z = Max({0, m - ahead}) /\ (z = IF 0 <= m - ahead THEN m - ahead ELSE 0)
    BY <2>2, <2>3
  <2>5. Min({PageSize, z}) = IF PageSize <= z THEN PageSize ELSE z
    BY <2>1, <2>2
  <2>6. Len(items) = IF PageSize <= z THEN PageSize ELSE z
    <3>1. CASE m <= ahead
      <4>1. z = 0 /\ last - ahead <= 0
        BY <3>1, <2>4, <1>1, <1>9, <1>11
      <4>2. QED BY <4>1, <2>2, <1>9
    <3>2. CASE ~(m <= ahead)
      <4>1. 0 <= m - ahead
        BY <3>2, <1>1, <1>9
      <4>2. z = m - ahead
        BY <4>1, <2>4
      <4>3. last - ahead = IF PageSize <= m - ahead THEN PageSize ELSE m - ahead
        BY <3>2, <1>1, <1>9, <1>11
      <4>4. ~(last - ahead <= 0)
        BY <3>2, <4>3, <1>1, <1>9, <1>11
      <4>5. QED BY <4>2, <4>3, <4>4, <2>2
    <3>3. QED BY <3>1, <3>2
  <2>7. QED BY <2>4, <2>5, <2>6
<1>15. ASSUME NEW i \in DOMAIN items
       PROVE  /\ items[i] \in {rows[k] : k \in W}
              /\ Cardinality({k \in W : rows[k].name < items[i].name}) < ahead + i
              /\ ahead + i <= Cardinality({k \in W : rows[k].name <= items[i].name})
  <2> DEFINE j == ahead + i
  <2>1. j \in 1..m /\ items[i] = rows[pos[j]] /\ pos[j] \in W
    BY <1>6, <1>13, <1>15
  <2> HIDE DEF j
  <2>2. /\ Cardinality(Less(W, name, name[pos[j]])) < j
        /\ j <= Cardinality(UpTo(W, name, name[pos[j]]))
    <3>1. m = Cardinality(W)
      BY DEF m
    <3>2. QED BY <3>1, <1>1, <1>6, <1>7, <2>1, SortedPlaces
  <2>3. /\ Less(W, name, name[pos[j]]) = {k \in W : rows[k].name < items[i].name}
        /\ UpTo(W, name, name[pos[j]]) = {k \in W : rows[k].name <= items[i].name}
    BY <1>7, <2>1 DEF Less, UpTo
  <2>4. QED BY <2>1, <2>2, <2>3 DEF j
<1>16. ASSUME NEW i \in DOMAIN items, NEW k \in DOMAIN items, items[i] = items[k], i # k
       PROVE  \E x, y \in W : x # y /\ rows[x] = rows[y]
  <2>1. ahead + i \in 1..m /\ ahead + k \in 1..m /\ ahead + i # ahead + k
    BY <1>9, <1>13, <1>16
  <2>2. pos[ahead + i] \in W /\ pos[ahead + k] \in W /\ pos[ahead + i] # pos[ahead + k]
    BY <2>1, <1>6
  <2>3. QED BY <2>2, <1>13, <1>16
<1>17. QED BY <1>12, <1>14, <1>15, <1>16 DEF IsPage, m, W, ahead

-----------------------------------------------------------------------------
(* The steps of listings.                                                  *)

LEMMA ReadsKept ==
  ASSUME ReadsInv, UNCHANGED <<adapter, soft, rows, hits, read>>
  PROVE  ReadsInv'
<1>1. /\ read' = read /\ adapter' = adapter /\ rows' = rows /\ hits' = hits /\ soft' = soft
  OBVIOUS
<1>2. QED BY <1>1 DEF ReadsInv, IsRead

LEMMA AnswerInv ==
  ASSUME ReadsInv, NEW r \in Readers, NEW q, IsRead(q), ReadIsRight(q, rows, soft, hits, adapter),
         Answer(r, q)
  PROVE  ReadsInv'
<1>1. /\ read' = [read EXCEPT ![r] = q] /\ adapter' = adapter /\ rows' = rows /\ hits' = hits
      /\ soft' = soft
  BY DEF Answer
<1>2. read' = [s \in Readers |-> read'[s]] /\ \A s \in Readers : read'[s] = IF s = r THEN q ELSE read[s]
  BY <1>1 DEF ReadsInv
<1>3. QED BY <1>1, <1>2 DEF ReadsInv, IsRead

(* What is written makes a listing no quiet one.                           *)
LEMMA NoisyReads ==
  ASSUME ReadsInv, NEW w, w \notin Readers, read' = Noisy(read, w)
  PROVE  ReadsInv'
<1>1. /\ DOMAIN read = Readers
      /\ \A r \in Readers : read[r] # Idle => "before" \notin DOMAIN read[r]
  BY DEF ReadsInv, IsRead
<1>2. read' = [r \in Readers |-> IF read[r] = Idle THEN read[r] ELSE [read[r] EXCEPT !.quiet = FALSE]]
  BY <1>1 DEF Noisy
<1>3. read' = [r \in Readers |-> read'[r]]
  BY <1>2
<1>4. ASSUME NEW r \in Readers, read'[r] # Idle
      PROVE  /\ IsRead(read'[r]) /\ read'[r].quiet = FALSE
             /\ read'[r].pc = "ok" => read'[r].got = {"items", "total"}
  <2>1. read[r] # Idle /\ read'[r] = [read[r] EXCEPT !.quiet = FALSE] /\ IsRead(read[r])
        /\ ReadIsRight(read[r], rows, soft, hits, adapter)
    BY <1>2, <1>4 DEF ReadsInv
  <2>2. QED BY <2>1 DEF IsRead, ReadIsRight
<1>5. QED BY <1>3, <1>4 DEF ReadsInv, IsRead, ReadIsRight

LEMMA WantedAsOf == \A query : Wanted(query) = WantedOf(query, rows, soft, hits)
BY DEF Wanted, WantedOf

LEMMA StartListInv ==
  ASSUME ReadsInv, NEW r \in Readers, StartList(r)
  PROVE  ReadsInv'
<1>1. PICK query \in Queries :
        Answer(r, [pc |-> IF query.search /\ adapter \in {"prisma", "mikroorm"} THEN "hits" ELSE "rows",
                   query |-> query, hits |-> {}, got |-> {}, items |-> <<>>, total |-> 0, quiet |-> TRUE])
  BY DEF StartList
<1> DEFINE q == [pc |-> IF query.search /\ adapter \in {"prisma", "mikroorm"} THEN "hits" ELSE "rows",
                 query |-> query, hits |-> {}, got |-> {}, items |-> <<>>, total |-> 0, quiet |-> TRUE]
<1>2. IsRead(q)
  BY QueryAssumption DEF IsRead
<1>3. ReadIsRight(q, rows, soft, hits, adapter)
  BY DEF ReadIsRight
<1> HIDE DEF q
<1>4. QED BY <1>1, <1>2, <1>3, AnswerInv DEF q

LEMMA Reading ==
  ASSUME ReadsInv, NEW r \in Readers, read[r].pc \in {"hits", "rows", "ok"}
  PROVE  IsRead(read[r]) /\ ReadIsRight(read[r], rows, soft, hits, adapter)
BY DEF ReadsInv, Idle

LEMMA ReadHitsInv ==
  ASSUME ReadsInv, NEW r \in Readers, ReadHits(r)
  PROVE  ReadsInv'
<1> DEFINE old == read[r]
           q == [old EXCEPT !.pc = "rows", !.hits = hits]
<1>1. IsRead(old) /\ ReadIsRight(old, rows, soft, hits, adapter) /\ Answer(r, q)
  BY Reading DEF ReadHits
<1> HIDE DEF old
<1>2. IsRead(q)
  BY <1>1 DEF IsRead
<1>3. ReadIsRight(q, rows, soft, hits, adapter)
  <2>1. /\ q.pc = "rows" /\ q.hits = hits /\ q.query = old.query /\ q.got = old.got
        /\ q.items = old.items /\ q.total = old.total /\ q.quiet = old.quiet
    BY <1>1 DEF IsRead
  <2> HIDE DEF q
  <2>2. QED BY <1>1, <2>1 DEF ReadIsRight
<1> HIDE DEF q
<1>4. QED BY <1>1, <1>2, <1>3, AnswerInv

(* The owners that a quiet listing goes by are those there are.            *)
LEMMA QuietOwners ==
  ASSUME ReadsInv, NEW r \in Readers, read[r].pc = "rows", read[r].quiet, read[r].query.search
  PROVE  Owners(r) = hits
BY Reading DEF Owners, ReadIsRight

LEMMA ReadItemsInv ==
  ASSUME Inv, ReadsInv, NEW r \in Readers, ReadItems(r)
  PROVE  ReadsInv'
<1> DEFINE old == read[r]
           n == Len(Matching(old.query, Owners(r)))
<1>1. /\ IsRead(old) /\ ReadIsRight(old, rows, soft, hits, adapter)
      /\ old.pc = "rows" /\ "items" \notin old.got
  BY Reading DEF ReadItems
<1>2. PICK items \in PagesOf(old.query, Owners(r)) :
        Answer(r, Settle(IF adapter = "memory"
          THEN [old EXCEPT !.items = items, !.total = n, !.got = {"items", "total"}]
          ELSE [old EXCEPT !.items = items, !.got = @ \cup {"items"}]))
  BY DEF ReadItems
<1>3. old.quiet =>
        /\ IsPage(items, old.query, rows, WantedOf(old.query, rows, soft, hits))
        /\ n = Cardinality(WantedOf(old.query, rows, soft, hits))
  <2>1. SUFFICES ASSUME old.quiet
                 PROVE  /\ IsPage(items, old.query, rows, Wanted(old.query))
                        /\ n = Cardinality(Wanted(old.query))
    BY WantedAsOf
  <2>2. old.query \in Query /\ (old.query.search => Owners(r) = hits)
    BY <1>1, <2>1, QuietOwners DEF IsRead
  <2> HIDE DEF old
  <2>3. QED BY <1>2, <2>2, PagesAreRight, MatchingProperties
<1> DEFINE p == IF adapter = "memory"
                  THEN [old EXCEPT !.items = items, !.total = n, !.got = {"items", "total"}]
                  ELSE [old EXCEPT !.items = items, !.got = @ \cup {"items"}]
           q == Settle(p)
<1> HIDE DEF old, n
<1>4. /\ IsRead(p) /\ p.pc = "rows" /\ p.query = old.query /\ p.hits = old.hits
      /\ p.items = items /\ p.quiet = old.quiet
      /\ p.total = IF adapter = "memory" THEN n ELSE old.total
      /\ p.got = IF adapter = "memory" THEN {"items", "total"} ELSE old.got \cup {"items"}
  BY <1>1 DEF IsRead
<1>5. Answer(r, Settle(p))
  BY <1>2
<1> HIDE DEF p
<1>6. /\ IsRead(q) /\ q.query = p.query /\ q.hits = p.hits /\ q.items = p.items /\ q.got = p.got
      /\ q.total = p.total /\ q.quiet = p.quiet
      /\ q.pc # "hits" /\ (q.pc = "ok" => q.got = {"items", "total"})
  BY <1>4 DEF IsRead, Settle
<1> HIDE DEF q
<1>7. ReadIsRight(q, rows, soft, hits, adapter)
  BY <1>1, <1>3, <1>4, <1>6 DEF ReadIsRight
<1>8. QED BY <1>5, <1>6, <1>7, AnswerInv DEF q

LEMMA ReadTotalInv ==
  ASSUME Inv, ReadsInv, NEW r \in Readers, ReadTotal(r)
  PROVE  ReadsInv'
<1> DEFINE old == read[r]
           n == Len(Matching(old.query, Owners(r)))
           p == [old EXCEPT !.total = n, !.got = @ \cup {"total"}]
           q == Settle(p)
<1>1. /\ IsRead(old) /\ ReadIsRight(old, rows, soft, hits, adapter)
      /\ old.pc = "rows" /\ Answer(r, Settle(p))
  BY Reading DEF ReadTotal
<1>2. old.quiet => n = Cardinality(WantedOf(old.query, rows, soft, hits))
  <2>1. SUFFICES ASSUME old.quiet
                 PROVE  n = Cardinality(Wanted(old.query))
    BY WantedAsOf
  <2>2. old.query \in Query /\ (old.query.search => Owners(r) = hits)
    BY <1>1, <2>1, QuietOwners DEF IsRead
  <2> HIDE DEF old
  <2>3. QED BY <2>2, MatchingProperties
<1> HIDE DEF old, n
<1>3. /\ IsRead(p) /\ p.pc = "rows" /\ p.query = old.query /\ p.hits = old.hits
      /\ p.items = old.items /\ p.quiet = old.quiet
      /\ p.total = n /\ p.got = old.got \cup {"total"}
  BY <1>1 DEF IsRead
<1> HIDE DEF p
<1>4. /\ IsRead(q) /\ q.query = p.query /\ q.hits = p.hits /\ q.items = p.items /\ q.got = p.got
      /\ q.total = p.total /\ q.quiet = p.quiet
      /\ q.pc # "hits" /\ (q.pc = "ok" => q.got = {"items", "total"})
  BY <1>3 DEF IsRead, Settle
<1> HIDE DEF q
<1>5. ReadIsRight(q, rows, soft, hits, adapter)
  BY <1>1, <1>2, <1>3, <1>4 DEF ReadIsRight
<1>6. QED BY <1>1, <1>4, <1>5, AnswerInv DEF q

(* A step of a write leaves listings alone, or makes them no quiet ones.   *)
LEMMA WritesAndReads ==
  ASSUME ReadsInv, NEW w \in Writers,
         StartCreate(w) \/ StartUpdate(w) \/ StartDelete(w) \/ WriteStep(w)
  PROVE  ReadsInv'
<1>1. w \notin Readers
  BY SlotsAssumption
<1>2. ASSUME NEW q, Become(w, q)
      PROVE  ReadsInv'
  BY <1>2, ReadsKept DEF Become
<1>3. ASSUME NEW next, NEW q, Commit(w, next, q)
      PROVE  ReadsInv'
  BY <1>1, <1>3, NoisyReads DEF Commit
<1>4. CASE StartCreate(w) \/ StartUpdate(w) \/ StartDelete(w)
  BY <1>2, <1>4 DEF StartCreate, StartUpdate, StartDelete
<1>5. CASE Create(w)
  BY <1>3, <1>5 DEF Create
<1>6. CASE Load(w)
  BY <1>2, <1>6 DEF Load
<1>7. CASE UpdateAtOnce(w)
  BY <1>2, <1>3, <1>7 DEF UpdateAtOnce
<1>8. CASE Flush(w)
  BY <1>2, <1>3, <1>8 DEF Flush
<1>9. CASE ReadStored(w) \/ Save(w)
  BY <1>2, <1>3, <1>9 DEF ReadStored, Save
<1>10. CASE Sync(w) \/ Link(w)
  BY <1>2, <1>3, <1>10 DEF Sync, Link
<1>11. CASE Reload(w)
  BY <1>2, <1>11 DEF Reload
<1>12. CASE Delete(w)
  BY <1>2, <1>3, <1>12 DEF Delete
<1>13. QED BY <1>4, <1>5, <1>6, <1>7, <1>8, <1>9, <1>10, <1>11, <1>12 DEF WriteStep

LEMMA ReadsInit == Init => ReadsInv
BY DEF Init, ReadsInv

LEMMA ReadsNext == Inv /\ ReadsInv /\ [Next]_vars => ReadsInv'
<1>1. SUFFICES ASSUME Inv, ReadsInv, [Next]_vars PROVE ReadsInv'
  OBVIOUS
<1>2. CASE \E w \in Writers : StartCreate(w) \/ StartUpdate(w) \/ StartDelete(w) \/ WriteStep(w)
  BY <1>1, <1>2, WritesAndReads
<1>3. CASE \E r \in Readers : StartList(r) \/ ReadHits(r) \/ ReadItems(r) \/ ReadTotal(r)
  BY <1>1, <1>3, StartListInv, ReadHitsInv, ReadItemsInv, ReadTotalInv
<1>4. CASE Tick
  BY <1>1, <1>4, ReadsKept DEF Tick
<1>5. CASE Rename
  BY <1>1, <1>5, NoisyReads, SlotsAssumption DEF Rename
<1>6. CASE UNCHANGED vars
  BY <1>1, <1>6, ReadsKept DEF vars
<1>7. QED BY <1>1, <1>2, <1>3, <1>4, <1>5, <1>6 DEF Next

LEMMA ReadsExact == ReadsInv => QuietListingIsExact
<1>1. SUFFICES ASSUME ReadsInv, NEW r \in Readers, read[r].pc = "ok", read[r].quiet
               PROVE  /\ read[r].total = Cardinality(Wanted(read[r].query))
                      /\ IsPage(read[r].items, read[r].query, rows, Wanted(read[r].query))
  BY DEF QuietListingIsExact, IsPage
<1>2. ReadIsRight(read[r], rows, soft, hits, adapter)
  BY <1>1, Reading
<1>3. QED BY <1>1, <1>2, WantedAsOf DEF ReadIsRight

(* A listing that nothing was written under is one page of what the table  *)
(* has for its query, in however many queries its adapter reads it.        *)
THEOREM QuietListingsAreExact == Spec => []QuietListingIsExact
BY Invariance, ReadsInit, ReadsNext, ReadsExact, PTL DEF Spec
=============================================================================
