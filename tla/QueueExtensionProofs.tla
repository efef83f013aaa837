------------------------ MODULE QueueExtensionProofs ------------------------
(***************************************************************************)
(* Theorems about both ends of the queue extension: of QueueExtension, for *)
(* any number of jobs, of requests in flight and of workers, and any sizes *)
(* of pages and limits; and of QueuePages, for any tabs, filters and       *)
(* number of pages, and any number of loads and actions in flight.         *)
(***************************************************************************)
EXTENDS QueueExtension, QueuePages, SequenceTheorems, FiniteSetTheorems, FunctionTheorems, TLAPS

Distinct(s) == \A i, k \in 1..Len(s) : s[i] = s[k] => i = k

(* A job is in one place of the queue.                                     *)
OnePlace ==
  /\ \A s \in QueueJobState : Distinct(queue[s])
  /\ \A s, t \in QueueJobState, j \in Jobs : In(j, s) /\ In(j, t) => s = t

JobActions == {"retry", "remove", "promote"}

(* Which step an action can be at, and with what result.                   *)
OpShaped(q) ==
  /\ q.action \in JobActions =>
       /\ q.pc \in {"find", "apply", "answer"}
       /\ \E j \in Jobs : q.todo = <<j>>
  /\ q.action = "retry-failed" => q.pc \in {"select", "retry", "answer"} /\ q.status # "unknown"
  /\ q.action \in {"pause", "resume", "empty", "clean"} =>
       q.pc \in {"apply", "answer"} /\ q.status \in {"ok", "down"}
  /\ q.status # "ok" => q.pc = "answer"

(* A clean counts what it removed; a retry of failed jobs counts those it  *)
(* has retried and those it still has to.                                  *)
OpCounts(q) ==
  /\ q.action = "clean" /\ q.pc = "answer" /\ q.status = "ok" => q.count = Cardinality(q.done)
  /\ q.action = "retry-failed" /\ q.pc = "select" => q.done = {}
  /\ q.action = "retry-failed" /\ (q.pc = "retry" \/ (q.pc = "answer" /\ q.status = "ok")) =>
       /\ Distinct(q.todo)
       /\ q.done \cap ToSet(q.todo) = {}
       /\ q.count = Cardinality(q.done) + Len(q.todo)
       /\ q.pc = "answer" => q.todo = <<>>

(* What is still to be done is possible, if it was when the request        *)
(* started, unless somebody else has moved the job.                        *)
OpPossible(o, q) ==
  /\ q.action \in JobActions /\ q.pc \in {"find", "apply"} =>
       q.done = {} /\ (q.possible => Accepts(q.action, q.todo[1]) \/ q.todo[1] \in moved[o])
  /\ q.action = "retry-failed" /\ q.pc = "retry" =>
       \A j \in ToSet(q.todo) : In(j, "failed") \/ j \in moved[o]
  /\ q.pc = "answer" /\ q.status \in {"unknown", "rejected"} =>
       q.todo # <<>> /\ (q.possible => q.todo[1] \in moved[o] \ q.done)

OpsRight ==
  \A o \in Operators : op[o] # Idle =>
    OpShaped(op[o]) /\ OpCounts(op[o]) /\ OpPossible(o, op[o])

(* What a request for a listing is like, and what it may show.             *)
ReadShaped(q) ==
  /\ q.related => q.filtered /\ q.page = 1
  /\ ~q.related /\ q.pc # "answer" => q.items = <<>>
  /\ q.filtered => ToSet(q.items) \subseteq Matching
  /\ Len(q.items) <= (IF q.related THEN PanelLimit ELSE PageSize)
  /\ q.related /\ q.pc # "answer" => Len(q.items) < PanelLimit

(* The states that a related-jobs listing is through with.                 *)
Through(q) == {RelatedOrder[i] : i \in 1..(Index(q.state) - 1)}

(* A job that has not moved is where it was found: it is found once.       *)
ShownOnce(r, q) ==
  /\ \A i, k \in 1..Len(q.items) : i < k /\ q.items[i] = q.items[k] => q.items[i] \in moved[r]
  /\ q.related /\ q.pc # "answer" =>
       \A j \in ToSet(q.items) \ moved[r] : \E s \in Through(q) : In(j, s)

(* A job that stays is among those that were counted, and in what has been *)
(* read already, unless there was no more room.                            *)
Found(r, q) ==
  q.filtered =>
    /\ q.pc = "jobs" => \A j \in Stable(r, q) : In(j, q.state) =>
         \E i \in 1..Len(queue[q.state]) : i <= q.count /\ queue[q.state][i] = j
    /\ q.related /\ q.pc # "answer" =>
         \A s \in Through(q), j \in Stable(r, q) : In(j, s) => j \in ToSet(q.items)
    /\ q.related /\ q.pc = "answer" =>
         \A j \in Stable(r, q) :
           Exists(j) => j \in ToSet(q.items) \/ Len(q.items) = PanelLimit
    /\ ~q.related /\ q.pc = "answer" =>
         \A j \in Stable(r, q) : In(j, q.state) =>
           j \in ToSet(q.items) \/ q.page > 1 \/ Len(q.items) = PageSize

ReadsRight ==
  \A r \in Readers : read[r] # Idle =>
    ReadShaped(read[r]) /\ ShownOnce(r, read[r]) /\ Found(r, read[r])

Inv == TypeOK /\ OnePlace /\ OpsRight /\ ReadsRight

-----------------------------------------------------------------------------
(* The jobs that are kept.                                                 *)

(* Places are numbered in their order.                                     *)
LEMMA PlacesAreNumbered ==
  ASSUME NEW m \in Nat, NEW P \in SUBSET (1..m)
  PROVE  /\ Cardinality(P) \in Nat /\ Cardinality(P) <= m
         /\ \A i \in P : /\ Cardinality({h \in P : h <= i}) \in 1..Cardinality(P)
                         /\ Cardinality({h \in P : h <= i}) <= i
         /\ \A i, j \in P :
              Cardinality({h \in P : h <= i}) = Cardinality({h \in P : h <= j}) => i = j
         /\ \A k \in 1..Cardinality(P) : \E i \in P : Cardinality({h \in P : h <= i}) = k
<1> DEFINE upto(i) == {h \in P : h <= i}
           n == Cardinality(P)
<1>1. ASSUME NEW k \in Nat
      PROVE  IsFiniteSet(1..k) /\ Cardinality(1..k) = k
  <2>1. IsFiniteSet(1..k) /\ Cardinality(1..k) = IF 1 > k THEN 0 ELSE k - 1 + 1
    BY FS_Interval
  <2>2. QED BY <2>1
<1>2. IsFiniteSet(P) /\ n \in Nat /\ n <= m
  <2>1. IsFiniteSet(1..m) /\ Cardinality(1..m) = m
    BY <1>1
  <2>2. IsFiniteSet(P) /\ n <= m
    BY <2>1, FS_Subset
  <2>3. QED BY <2>2, FS_CardinalityType
<1>3. ASSUME NEW i \in P
      PROVE  /\ IsFiniteSet(upto(i)) /\ Cardinality(upto(i)) \in 1..n
             /\ Cardinality(upto(i)) <= i /\ i \in Nat
  <2>1. /\ i \in Nat /\ upto(i) \subseteq P /\ upto(i) \subseteq 1..i /\ i \in upto(i)
    <3>1. \A h \in P : h \in Int /\ h >= 1
      OBVIOUS
    <3>2. i \in Nat /\ i <= i
      OBVIOUS
    <3>3. upto(i) \subseteq P
      OBVIOUS
    <3>4. i \in upto(i)
      BY <3>2
    <3>5. \A h \in upto(i) : h \in 1..i
      BY <3>1
    <3>6. QED BY <3>2, <3>3, <3>4, <3>5
  <2> HIDE DEF upto
  <2>2. /\ IsFiniteSet(upto(i)) /\ Cardinality(upto(i)) \in Nat
        /\ Cardinality(upto(i)) <= n /\ Cardinality(upto(i)) <= i
    BY <2>1, <1>1, <1>2, FS_Subset, FS_CardinalityType
  <2>3. Cardinality(upto(i)) # 0
    BY <2>1, <2>2, FS_EmptySet
  <2>4. QED BY <2>1, <2>2, <2>3, <1>2
<1>4. ASSUME NEW i \in P, NEW j \in P, i < j
      PROVE  Cardinality(upto(i)) # Cardinality(upto(j))
  <2>1. upto(i) \subseteq upto(j) /\ j \in upto(j) /\ j \notin upto(i)
    <3>1. i \in Nat /\ j \in Nat /\ \A h \in P : h \in Nat
      OBVIOUS
    <3>2. \A h \in upto(i) : h \in upto(j)
      BY <3>1, <1>4
    <3>3. j \in upto(j) /\ j \notin upto(i)
      BY <3>1, <1>4
    <3>4. QED BY <3>2, <3>3
  <2> HIDE DEF upto
  <2>2. QED BY <2>1, <1>3, FS_Subset
<1>5. \A i, j \in P : Cardinality(upto(i)) = Cardinality(upto(j)) => i = j
  <2>1. SUFFICES ASSUME NEW i \in P, NEW j \in P, i # j
                 PROVE  Cardinality(upto(i)) # Cardinality(upto(j))
    OBVIOUS
  <2>2. i < j \/ j < i
    BY <2>1
  <2> HIDE DEF upto
  <2>3. QED BY <2>2, <1>4
<1>6. \A k \in 1..n : \E i \in P : Cardinality(upto(i)) = k
  <2> DEFINE rank == [i \in P |-> Cardinality(upto(i))]
  <2> HIDE DEF upto
  <2>1. rank \in [P -> 1..n] /\ \A i \in P : rank[i] = Cardinality(upto(i))
    BY <1>3
  <2> HIDE DEF rank
  <2>2. rank \in Injection(P, 1..n)
    BY <2>1, <1>5 DEF Injection, IsInjective
  <2>3. rank \in Surjection(P, 1..n)
    BY <2>2, <1>1, <1>2, FS_Injection
  <2>4. QED BY <2>1, <2>3 DEF Surjection
<1>7. QED BY <1>2, <1>3, <1>5, <1>6

(* t has those of s that are in js; none of them has moved away from the   *)
(* front, and none is there more often.                                    *)
IsKept(t, s, js) ==
  /\ Len(t) <= Len(s)
  /\ \A k \in 1..Len(t) : t[k] \in js /\ \E i \in 1..Len(s) : t[k] = s[i]
  /\ \A i \in 1..Len(s) : s[i] \in js => \E k \in 1..Len(t) : k <= i /\ t[k] = s[i]
  /\ Distinct(s) => Distinct(t)

LEMMA KeptProperties ==
  ASSUME NEW S, NEW s \in Seq(S), NEW js
  PROVE  Kept(s, js) \in Seq(S) /\ IsKept(Kept(s, js), s, js)
<1> DEFINE P == {i \in 1..Len(s) : s[i] \in js}
           rank(i) == Cardinality({h \in P : h <= i})
           n == Cardinality(P)
           place(k) == CHOOSE i \in P : rank(i) = k
           t == Kept(s, js)
<1>1. Len(s) \in Nat /\ DOMAIN s = 1..Len(s) /\ \A i \in 1..Len(s) : s[i] \in S
  BY LenProperties, ElementOfSeq
<1>2. t = [k \in 1..n |-> s[place(k)]]
  BY <1>1 DEF Kept
<1>3. /\ n \in Nat /\ n <= Len(s)
      /\ \A i \in P : rank(i) \in 1..n /\ rank(i) <= i
      /\ \A i, j \in P : rank(i) = rank(j) => i = j
      /\ \A k \in 1..n : \E i \in P : rank(i) = k
  <2>1. Len(s) \in Nat /\ P \in SUBSET (1..Len(s))
    BY <1>1
  <2> HIDE DEF P
  <2>2. QED BY <2>1, PlacesAreNumbered
<1>4. \A i \in P : i \in 1..Len(s) /\ s[i] \in js
  OBVIOUS
<1>5. \A i \in 1..Len(s) : s[i] \in js => i \in P
  OBVIOUS
<1> HIDE DEF P, rank, n, t
<1>6. \A k \in 1..n : place(k) \in P /\ rank(place(k)) = k
  BY <1>3
<1>7. \A i \in P : place(rank(i)) = i
  BY <1>3, <1>6
<1> HIDE DEF place
<1>8. t \in [1..n -> S] /\ \A k \in 1..n : t[k] = s[place(k)]
  BY <1>1, <1>2, <1>4, <1>6
<1>9. t \in Seq(S) /\ Len(t) = n
  BY <1>3, <1>8
<1>10. \A k \in 1..n : t[k] \in js /\ \E i \in 1..Len(s) : t[k] = s[i]
  BY <1>4, <1>6, <1>8
<1>11. ASSUME NEW i \in 1..Len(s), s[i] \in js
       PROVE  \E k \in 1..n : k <= i /\ t[k] = s[i]
  <2>1. rank(i) \in 1..n /\ rank(i) <= i /\ t[rank(i)] = s[i]
    BY <1>11, <1>3, <1>5, <1>7, <1>8
  <2>2. QED BY <2>1
<1>12. ASSUME Distinct(s)
       PROVE  Distinct(t)
  <2>1. SUFFICES ASSUME NEW i \in 1..n, NEW k \in 1..n, t[i] = t[k] PROVE i = k
    BY <1>9 DEF Distinct
  <2>2. place(i) = place(k)
    BY <2>1, <1>4, <1>6, <1>8, <1>12 DEF Distinct
  <2>3. QED BY <2>2, <1>6
<1>13. QED BY <1>3, <1>9, <1>10, <1>11, <1>12 DEF t, IsKept

(* The members of a sequence without repetitions are as many as its places.*)
LEMMA DistinctMembers ==
  ASSUME NEW S, NEW s \in Seq(S), Distinct(s)
  PROVE  IsFiniteSet(ToSet(s)) /\ Cardinality(ToSet(s)) = Len(s)
<1>1. Len(s) \in Nat /\ DOMAIN s = 1..Len(s) /\ s \in [1..Len(s) -> S]
  BY LenProperties
<1>2. IsFiniteSet(1..Len(s)) /\ Cardinality(1..Len(s)) = Len(s)
  <2>1. /\ IsFiniteSet(1..Len(s))
        /\ Cardinality(1..Len(s)) = IF 1 > Len(s) THEN 0 ELSE Len(s) - 1 + 1
    BY <1>1, FS_Interval
  <2>2. QED BY <2>1, <1>1
<1>3. ToSet(s) = {s[i] : i \in 1..Len(s)}
  BY <1>1 DEF ToSet
<1>4. s \in Bijection(1..Len(s), ToSet(s))
  BY <1>1, <1>3 DEF Distinct, Bijection, Injection, Surjection, IsInjective
<1>5. QED BY <1>2, <1>4, FS_Bijection DEF ExistsBijection

-----------------------------------------------------------------------------
(* What happens to the queue.                                              *)

(* Only the jobs in js change their state, and no other moves away from    *)
(* the front of its own, unless it is one of those that are put back.      *)
Shift(js, back) ==
  /\ queue' \in [QueueJobState -> Seq(Jobs)]
  /\ OnePlace'
  /\ \A s \in QueueJobState, j \in Jobs \ js : Contains(queue'[s], j) <=> In(j, s)
  /\ \A s \in QueueJobState : \A i \in 1..Len(queue[s]) : queue[s][i] \notin js \cup back =>
       \E k \in 1..Len(queue'[s]) : k <= i /\ queue'[s][k] = queue[s][i]

LEMMA NoShift ==
  ASSUME TypeOK, OnePlace, queue' = queue
  PROVE  Shift({}, {})
<1>1. queue \in [QueueJobState -> Seq(Jobs)]
  BY DEF TypeOK, QueueTypeOK
<1>2. \A s \in QueueJobState : Len(queue[s]) \in Nat
  BY <1>1, LenProperties
<1>3. \A s \in QueueJobState : \A i \in 1..Len(queue[s]) :
        \E k \in 1..Len(queue'[s]) : k <= i /\ queue'[s][k] = queue[s][i]
  BY <1>2
<1>4. OnePlace' /\ \A s \in QueueJobState, j \in Jobs : Contains(queue'[s], j) <=> In(j, s)
  BY DEF OnePlace, In
<1>5. QED BY <1>1, <1>3, <1>4 DEF Shift

(* Jobs that leave.                                                        *)
LEMMA RemovedShift ==
  ASSUME TypeOK, OnePlace, NEW js, queue' = Removed(js)
  PROVE  Shift(js, {})
<1>1. queue \in [QueueJobState -> Seq(Jobs)]
  BY DEF TypeOK, QueueTypeOK
<1> DEFINE left(s) == Kept(queue[s], Jobs \ js)
<1>2. \A s \in QueueJobState : queue'[s] = left(s)
  BY DEF Removed
<1>3. \A s \in QueueJobState :
        /\ left(s) \in Seq(Jobs)
        /\ \A k \in 1..Len(left(s)) :
             left(s)[k] \in Jobs \ js /\ \E i \in 1..Len(queue[s]) : left(s)[k] = queue[s][i]
        /\ \A i \in 1..Len(queue[s]) : queue[s][i] \in Jobs \ js =>
             \E k \in 1..Len(left(s)) : k <= i /\ left(s)[k] = queue[s][i]
        /\ Distinct(queue[s]) => Distinct(left(s))
  <2>1. ASSUME NEW s \in QueueJobState
        PROVE  left(s) \in Seq(Jobs) /\ IsKept(left(s), queue[s], Jobs \ js)
    <3>1. queue[s] \in Seq(Jobs)
      BY <1>1
    <3>2. QED BY <3>1, KeptProperties
  <2> HIDE DEF left
  <2>2. QED BY <2>1 DEF IsKept
<1>4. \A s \in QueueJobState : \A i \in 1..Len(queue[s]) : queue[s][i] \in Jobs
  BY <1>1, ElementOfSeq
<1> HIDE DEF left
<1>5. queue' \in [QueueJobState -> Seq(Jobs)]
  BY <1>2, <1>3 DEF Removed, left
<1>6. \A s \in QueueJobState, j \in Jobs : Contains(queue'[s], j) => In(j, s) /\ j \notin js
  BY <1>2, <1>3 DEF In, Contains
<1>7. \A s \in QueueJobState, j \in Jobs \ js : In(j, s) => Contains(queue'[s], j)
  <2>1. SUFFICES ASSUME NEW s \in QueueJobState, NEW j \in Jobs \ js,
                        NEW i \in 1..Len(queue[s]), queue[s][i] = j
                 PROVE  Contains(queue'[s], j)
    BY DEF In, Contains
  <2>2. PICK k \in 1..Len(left(s)) : left(s)[k] = j
    BY <2>1, <1>3
  <2>3. QED BY <2>2, <1>2 DEF Contains
<1>8. OnePlace'
  <2>1. \A s \in QueueJobState : Distinct(queue'[s])
    BY <1>2, <1>3 DEF OnePlace
  <2>2. \A s, t \in QueueJobState, j \in Jobs :
          Contains(queue'[s], j) /\ Contains(queue'[t], j) => s = t
    BY <1>6 DEF OnePlace
  <2>3. QED BY <2>1, <2>2 DEF OnePlace, In
<1>9. \A s \in QueueJobState : \A i \in 1..Len(queue[s]) : queue[s][i] \notin js =>
        \E k \in 1..Len(queue'[s]) : k <= i /\ queue'[s][k] = queue[s][i]
  BY <1>2, <1>3, <1>4
<1>10. QED BY <1>5, <1>6, <1>7, <1>8, <1>9 DEF Shift

(* t is s with an element that comes after the first n.                    *)
IsInserted(t, s, n, e) ==
  /\ Len(t) = Len(s) + 1
  /\ t[n + 1] = e
  /\ \A i \in 1..n : t[i] = s[i]
  /\ \A i \in (n + 1)..Len(s) : t[i + 1] = s[i]

LEMMA InsertProperties ==
  ASSUME NEW S, NEW s \in Seq(S), NEW n \in Nat, n <= Len(s), NEW e \in S
  PROVE  InsertAt(s, n + 1, e) \in Seq(S) /\ IsInserted(InsertAt(s, n + 1, e), s, n, e)
<1> DEFINE front == SubSeq(s, 1, n)
           rest == SubSeq(s, n + 1, Len(s))
<1>1. Len(s) \in Nat /\ n \in Nat /\ n <= Len(s) /\ (n + 1) - 1 = n
  BY LenProperties
<1>2. \A i \in 1..Len(s) : s[i] \in S
  BY ElementOfSeq
<1>3. front \in Seq(S) /\ Len(front) = n /\ \A i \in 1..n : front[i] = s[i]
  <2>1. \A i \in 1..n : s[i] \in S
    BY <1>1, <1>2
  <2>2. /\ front \in Seq(S)
        /\ Len(front) = IF 1 <= n THEN n - 1 + 1 ELSE 0
        /\ \A i \in 1..(n - 1 + 1) : front[i] = s[1 + i - 1]
    BY <2>1, <1>1, SubSeqProperties
  <2>3. QED BY <2>2, <1>1
<1>4. /\ rest \in Seq(S) /\ Len(rest) = Len(s) - n
      /\ \A i \in 1..(Len(s) - n) : rest[i] = s[n + i]
  <2>1. \A i \in (n + 1)..Len(s) : s[i] \in S
    BY <1>1, <1>2
  <2>2. /\ rest \in Seq(S)
        /\ Len(rest) = IF n + 1 <= Len(s) THEN Len(s) - (n + 1) + 1 ELSE 0
        /\ \A i \in 1..(Len(s) - (n + 1) + 1) : rest[i] = s[(n + 1) + i - 1]
    BY <2>1, <1>1, SubSeqProperties
  <2>3. QED BY <2>2, <1>1
<1>5. InsertAt(s, n + 1, e) = (front \o <<e>>) \o rest
  BY <1>1 DEF InsertAt
<1> HIDE DEF front, rest
<1>6. PICK head : head = front \o <<e>>
  OBVIOUS
<1>7. /\ head \in Seq(S) /\ Len(head) = n + 1 /\ head[n + 1] = e
      /\ \A i \in 1..n : head[i] = s[i]
  <2>1. head = Append(front, e)
    BY <1>3, <1>6, AppendIsConcat
  <2>2. QED BY <2>1, <1>3, AppendProperties
<1>8. PICK t : t = head \o rest
  OBVIOUS
<1>9. /\ t \in Seq(S) /\ Len(t) = Len(head) + Len(rest)
      /\ \A i \in 1..(Len(head) + Len(rest)) :
           t[i] = IF i <= Len(head) THEN head[i] ELSE rest[i - Len(head)]
  BY <1>4, <1>7, <1>8, ConcatProperties
<1>10. Len(t) = Len(s) + 1
  BY <1>1, <1>4, <1>7, <1>9
<1>11. \A i \in 1..(Len(s) + 1) : t[i] = IF i <= n + 1 THEN head[i] ELSE rest[i - (n + 1)]
  BY <1>1, <1>4, <1>7, <1>9
<1>12. ASSUME NEW i \in 1..n
       PROVE  t[i] = s[i]
  <2>1. i \in 1..(Len(s) + 1) /\ i <= n + 1
    BY <1>1
  <2>2. QED BY <2>1, <1>7, <1>11
<1>13. t[n + 1] = e
  BY <1>1, <1>7, <1>11
<1>14. ASSUME NEW i \in (n + 1)..Len(s)
       PROVE  t[i + 1] = s[i]
  <2>1. /\ i + 1 \in 1..(Len(s) + 1) /\ ~(i + 1 <= n + 1) /\ i \in Int
        /\ (i + 1) - (n + 1) = i - n /\ i - n \in 1..(Len(s) - n) /\ n + (i - n) = i
    BY <1>1
  <2>2. t[i + 1] = rest[(i + 1) - (n + 1)]
    BY <2>1, <1>11
  <2>3. QED BY <2>1, <2>2, <1>4
<1>15. QED BY <1>5, <1>6, <1>8, <1>9, <1>10, <1>12, <1>13, <1>14 DEF IsInserted

(* A queue in which each job is in one place, and j in none.               *)
Without(Q, j) ==
  /\ \A s \in QueueJobState : Distinct(Q[s]) /\ ~Contains(Q[s], j)
  /\ \A s, t \in QueueJobState, i \in Jobs : Contains(Q[s], i) /\ Contains(Q[t], i) => s = t

(* The queue afterwards has j as well, in a state to, after the first n.   *)
Received(Q, j, to, n) ==
  /\ \A s \in QueueJobState, i \in Jobs \ {j} : Contains(queue'[s], i) <=> Contains(Q[s], i)
  /\ \A s \in QueueJobState : \A i \in 1..Len(Q[s]) :
       \/ s = to /\ i > n
       \/ i \in 1..Len(queue'[s]) /\ queue'[s][i] = Q[s][i]

LEMMA InsertedShift ==
  ASSUME NEW Q \in [QueueJobState -> Seq(Jobs)], NEW j \in Jobs, NEW to \in QueueJobState,
         NEW n \in Nat, n <= Len(Q[to]), Without(Q, j),
         queue' = [Q EXCEPT ![to] = InsertAt(Q[to], n + 1, j)]
  PROVE  queue' \in [QueueJobState -> Seq(Jobs)] /\ OnePlace' /\ Received(Q, j, to, n)
<1>1. PICK old, new : old = Q[to] /\ new = InsertAt(Q[to], n + 1, j)
  OBVIOUS
<1>2. /\ new \in Seq(Jobs) /\ Len(new) = Len(old) + 1 /\ new[n + 1] = j
      /\ \A i \in 1..n : new[i] = old[i]
      /\ \A i \in (n + 1)..Len(old) : new[i + 1] = old[i]
      /\ Len(old) \in Nat /\ n \in Nat /\ n <= Len(old)
  <2>1. old \in Seq(Jobs) /\ Len(old) \in Nat /\ n <= Len(old)
    BY <1>1, LenProperties
  <2>2. new = InsertAt(old, n + 1, j)
    BY <1>1
  <2>3. InsertAt(old, n + 1, j) \in Seq(Jobs) /\ IsInserted(InsertAt(old, n + 1, j), old, n, j)
    BY <2>1, InsertProperties
  <2>4. QED BY <2>1, <2>2, <2>3 DEF IsInserted
<1>3. /\ queue' \in [QueueJobState -> Seq(Jobs)]
      /\ queue'[to] = new /\ \A s \in QueueJobState \ {to} : queue'[s] = Q[s]
  BY <1>1, <1>2
<1> DEFINE was(k) == IF k <= n THEN k ELSE k - 1
<1>4. /\ \A k \in 1..Len(new) : k # n + 1 => was(k) \in 1..Len(old) /\ new[k] = old[was(k)]
      /\ \A k, l \in 1..Len(new) : k # n + 1 /\ l # n + 1 /\ k < l => was(k) # was(l)
  <2>1. ASSUME NEW k \in 1..Len(new), k # n + 1
        PROVE  was(k) \in 1..Len(old) /\ new[k] = old[was(k)]
    <3>1. CASE k <= n
      <4>1. was(k) = k /\ k \in 1..n /\ k \in 1..Len(old)
        BY <3>1, <1>2
      <4>2. QED BY <4>1, <1>2
    <3>2. CASE k > n
      <4>1. was(k) = k - 1 /\ k - 1 \in (n + 1)..Len(old) /\ (k - 1) + 1 = k
        BY <2>1, <3>2, <1>2
      <4>2. k - 1 \in 1..Len(old)
        BY <4>1, <1>2
      <4>3. new[(k - 1) + 1] = old[k - 1]
        BY <4>1, <1>2
      <4>4. QED BY <4>1, <4>2, <4>3
    <3>3. QED BY <3>1, <3>2, <1>2
  <2>2. ASSUME NEW k \in 1..Len(new), NEW l \in 1..Len(new), k # n + 1, l # n + 1, k < l
        PROVE  was(k) # was(l)
    BY <2>2, <1>2
  <2> HIDE DEF was
  <2>3. QED BY <2>1, <2>2
<1> HIDE DEF was
<1>5. \A s \in QueueJobState : \A i \in 1..Len(Q[s]) :
        \/ s = to /\ i > n
        \/ i \in 1..Len(queue'[s]) /\ queue'[s][i] = Q[s][i]
  <2>1. ASSUME NEW i \in 1..Len(old), ~(i > n)
        PROVE  i \in 1..Len(new) /\ new[i] = old[i]
    BY <2>1, <1>2
  <2>2. QED BY <2>1, <1>1, <1>3
<1>6. ASSUME NEW i \in Jobs \ {j}
      PROVE  Contains(new, i) <=> Contains(old, i)
  <2>1. ASSUME NEW k \in 1..Len(new), new[k] = i
        PROVE  Contains(old, i)
    <3>1. k # n + 1
      BY <2>1, <1>2
    <3>2. \E l \in 1..Len(old) : old[l] = i
      BY <2>1, <3>1, <1>2, <1>4
    <3>3. QED BY <3>2 DEF Contains
  <2>2. ASSUME NEW k \in 1..Len(old), old[k] = i
        PROVE  Contains(new, i)
    <3>1. CASE k <= n
      BY <3>1, <2>2, <1>2 DEF Contains
    <3>2. CASE k > n
      <4>1. k \in (n + 1)..Len(old) /\ k + 1 \in 1..Len(new)
        BY <3>2, <1>2
      <4>2. new[k + 1] = i
        BY <4>1, <2>2, <1>2
      <4>3. QED BY <4>1, <4>2 DEF Contains
    <3>3. QED BY <3>1, <3>2, <1>2
  <2>3. QED BY <2>1, <2>2 DEF Contains
<1>7. \A s \in QueueJobState, i \in Jobs \ {j} : Contains(queue'[s], i) <=> Contains(Q[s], i)
  BY <1>1, <1>3, <1>6
<1>8. \A s \in QueueJobState : Contains(queue'[s], j) => s = to
  BY <1>3 DEF Without
<1>9. Distinct(new)
  <2>1. Distinct(old) /\ \A k \in 1..Len(old) : old[k] # j
    BY <1>1 DEF Contains, Without
  <2>2. ASSUME NEW k \in 1..Len(new), NEW l \in 1..Len(new), new[k] = new[l], k < l
        PROVE  FALSE
    <3>0. k \in Int /\ l \in Int
      OBVIOUS
    <3>1. CASE k = n + 1 \/ l = n + 1
      <4>1. CASE k = n + 1
        <5>1. l > n + 1 /\ new[l] = j
          BY <4>1, <3>0, <2>2, <1>2
        <5>2. was(l) \in 1..Len(old) /\ new[l] = old[was(l)]
          BY <5>1, <1>2, <1>4
        <5>3. QED BY <5>1, <5>2, <2>1
      <4>2. CASE l = n + 1
        <5>1. k \in 1..n /\ new[k] = j
          BY <4>2, <3>0, <2>2, <1>2
        <5>2. k \in 1..Len(old) /\ new[k] = old[k]
          BY <5>1, <1>2
        <5>3. QED BY <5>1, <5>2, <2>1
      <4>3. QED BY <3>1, <4>1, <4>2
    <3>2. CASE k # n + 1 /\ l # n + 1
      <4>1. was(k) \in 1..Len(old) /\ old[was(k)] = new[k]
        BY <3>2, <1>4
      <4>2. was(l) \in 1..Len(old) /\ old[was(l)] = new[l]
        BY <3>2, <1>4
      <4>3. was(k) # was(l)
        BY <3>2, <2>2, <1>4
      <4>4. QED BY <4>1, <4>2, <4>3, <2>1, <2>2 DEF Distinct
    <3>3. QED BY <3>1, <3>2
  <2>3. SUFFICES ASSUME NEW k \in 1..Len(new), NEW l \in 1..Len(new), new[k] = new[l], k # l
                 PROVE  FALSE
    BY DEF Distinct
  <2>4. k < l \/ l < k
    BY <2>3, <1>2
  <2>5. QED BY <2>2, <2>3, <2>4
<1>10. OnePlace'
  <2>1. \A s, t \in QueueJobState, i \in Jobs :
          Contains(queue'[s], i) /\ Contains(queue'[t], i) => s = t
    BY <1>7, <1>8 DEF Without
  <2>2. \A s \in QueueJobState : Distinct(queue'[s])
    BY <1>3, <1>9 DEF Without
  <2>3. QED BY <2>1, <2>2 DEF OnePlace, In
<1>11. QED BY <1>3, <1>5, <1>7, <1>10 DEF Received

LEMMA InBehind ==
  ASSUME TypeOK, NEW s \in QueueJobState, NEW i \in 1..Len(queue[s]),
         NEW n \in Nat, i > n
  PROVE  queue[s][i] \in Behind(n, s)
<1>1. Len(queue[s]) \in Nat
  BY LenProperties DEF TypeOK, QueueTypeOK
<1>2. i \in (n + 1)..Len(queue[s])
  BY <1>1
<1>3. QED BY <1>2 DEF Behind

LEMMA AddShift ==
  ASSUME TypeOK, OnePlace, NEW j \in Jobs, NEW to \in QueueJobState,
         NEW n \in Nat, n <= Len(queue[to]), AddJob(j, n, to)
  PROVE  Shift({j}, Behind(n, to))
<1>1. queue \in [QueueJobState -> Seq(Jobs)]
  BY DEF TypeOK, QueueTypeOK
<1>2. Without(queue, j)
  <2>1. \A s \in QueueJobState : Distinct(queue[s]) /\ ~Contains(queue[s], j)
    BY DEF OnePlace, AddJob, Exists, In
  <2>2. \A s, t \in QueueJobState, i \in Jobs :
          Contains(queue[s], i) /\ Contains(queue[t], i) => s = t
    BY DEF OnePlace, In
  <2>3. QED BY <2>1, <2>2 DEF Without
<1>4. queue' = [queue EXCEPT ![to] = InsertAt(queue[to], n + 1, j)]
  BY DEF AddJob
<1>5. queue' \in [QueueJobState -> Seq(Jobs)] /\ OnePlace' /\ Received(queue, j, to, n)
  BY <1>1, <1>2, <1>4, InsertedShift
<1>6. \A s \in QueueJobState : \A i \in 1..Len(queue[s]) :
        queue[s][i] \notin {j} \cup Behind(n, to) =>
          \E k \in 1..Len(queue'[s]) : k <= i /\ queue'[s][k] = queue[s][i]
  <2>1. ASSUME NEW s \in QueueJobState, NEW i \in 1..Len(queue[s]),
               queue[s][i] \notin {j} \cup Behind(n, to)
        PROVE  i \in 1..Len(queue'[s]) /\ queue'[s][i] = queue[s][i] /\ i <= i
    <3>1. Len(queue[s]) \in Nat /\ Len(queue[to]) \in Nat
      BY <1>1, LenProperties
    <3>2. i \in Int /\ i <= i
      BY <3>1
    <3>3. ~(s = to /\ i > n)
      BY <2>1, <3>1, InBehind
    <3>4. QED BY <3>2, <3>3, <1>5 DEF Received
  <2>2. QED BY <2>1
<1>7. \A s \in QueueJobState, i \in Jobs \ {j} : Contains(queue'[s], i) <=> In(i, s)
  BY <1>5 DEF In, Received
<1>8. QED BY <1>5, <1>6, <1>7 DEF Shift

LEMMA MovedAfterShift ==
  ASSUME TypeOK, OnePlace, NEW j \in Jobs,
         NEW from \in QueueJobState, NEW to \in QueueJobState \ {from},
         NEW n \in Nat, n <= Len(queue[to]),
         In(j, from), queue' = MovedAfter(n, j, from, to)
  PROVE  Shift({j}, Behind(n, to))
<1> DEFINE left == Kept(queue[from], Jobs \ {j})
           Q == [queue EXCEPT ![from] = left]
<1>1. queue \in [QueueJobState -> Seq(Jobs)]
  BY DEF TypeOK, QueueTypeOK
<1>2. /\ left \in Seq(Jobs)
      /\ \A k \in 1..Len(left) :
           left[k] \in Jobs \ {j} /\ \E i \in 1..Len(queue[from]) : left[k] = queue[from][i]
      /\ \A i \in 1..Len(queue[from]) : queue[from][i] \in Jobs \ {j} =>
           \E k \in 1..Len(left) : k <= i /\ left[k] = queue[from][i]
      /\ Distinct(queue[from]) => Distinct(left)
  <2>1. queue[from] \in Seq(Jobs)
    BY <1>1
  <2>2. left \in Seq(Jobs) /\ IsKept(left, queue[from], Jobs \ {j})
    BY <2>1, KeptProperties
  <2> HIDE DEF left
  <2>3. QED BY <2>2 DEF IsKept
<1>3. queue' = [Q EXCEPT ![to] = InsertAt(Q[to], n + 1, j)]
  BY <1>1 DEF MovedAfter
<1> HIDE DEF left
<1>4. /\ Q \in [QueueJobState -> Seq(Jobs)] /\ Q[from] = left
      /\ \A s \in QueueJobState \ {from} : Q[s] = queue[s]
  BY <1>1, <1>2
<1>5. \A s \in QueueJobState : \A i \in 1..Len(queue[s]) :
        queue[s][i] \in Jobs /\ i \in Nat /\ i <= i
  BY <1>1, ElementOfSeq, LenProperties
<1> HIDE DEF Q
<1>6. \A s \in QueueJobState, i \in Jobs \ {j} : Contains(Q[s], i) <=> In(i, s)
  <2>1. ASSUME NEW i \in Jobs \ {j}
        PROVE  Contains(left, i) <=> In(i, from)
    <3>1. Contains(left, i) => In(i, from)
      BY <1>2 DEF In, Contains
    <3>2. ASSUME NEW k \in 1..Len(queue[from]), queue[from][k] = i
          PROVE  Contains(left, i)
      BY <3>2, <1>2 DEF Contains
    <3>3. QED BY <3>1, <3>2 DEF In, Contains
  <2>2. QED BY <2>1, <1>4 DEF In
<1>7. \A s \in QueueJobState : ~Contains(Q[s], j)
  <2>1. ~Contains(left, j)
    BY <1>2 DEF Contains
  <2>2. \A s \in QueueJobState \ {from} : ~Contains(queue[s], j)
    BY DEF In, OnePlace
  <2>3. QED BY <2>1, <2>2, <1>4
<1>8. \A s \in QueueJobState : Distinct(Q[s])
  BY <1>2, <1>4 DEF OnePlace
<1>9. \A s, t \in QueueJobState, i \in Jobs : Contains(Q[s], i) /\ Contains(Q[t], i) => s = t
  BY <1>6, <1>7 DEF OnePlace
<1>10. n <= Len(Q[to]) /\ Without(Q, j)
  BY <1>4, <1>7, <1>8, <1>9 DEF Without
<1>11. queue' \in [QueueJobState -> Seq(Jobs)] /\ OnePlace' /\ Received(Q, j, to, n)
  BY <1>3, <1>4, <1>10, InsertedShift
<1>12. \A s \in QueueJobState : \A i \in 1..Len(queue[s]) :
         queue[s][i] \notin {j} \cup Behind(n, to) =>
           \E k \in 1..Len(queue'[s]) : k <= i /\ queue'[s][k] = queue[s][i]
  <2>1. SUFFICES ASSUME NEW s \in QueueJobState, NEW i \in 1..Len(queue[s]),
                        queue[s][i] \notin {j} \cup Behind(n, to)
                 PROVE  \E k \in 1..Len(queue'[s]) : k <= i /\ queue'[s][k] = queue[s][i]
    OBVIOUS
  <2>2. CASE s = from
    <3>1. PICK k \in 1..Len(left) : k <= i /\ left[k] = queue[from][i]
      BY <2>1, <2>2, <1>2, <1>5
    <3>2. k \in 1..Len(queue'[s]) /\ queue'[s][k] = left[k]
      <4>1. Q[s] = left /\ ~(s = to)
        BY <2>2, <1>4
      <4>2. QED BY <3>1, <4>1, <1>11 DEF Received
    <3>3. QED BY <3>1, <3>2, <2>2
  <2>3. CASE s # from
    <3>1. Q[s] = queue[s]
      BY <2>3, <1>4
    <3>2. ~(s = to /\ i > n)
      BY <2>1, <1>1, InBehind
    <3>3. i \in 1..Len(queue'[s]) /\ queue'[s][i] = queue[s][i]
      BY <3>1, <3>2, <1>11 DEF Received
    <3>4. QED BY <3>3, <1>5
  <2>4. QED BY <2>2, <2>3
<1>13. QED BY <1>6, <1>11, <1>12 DEF Shift, Received

(* A job that comes last is before none.                                   *)
LEMMA MovedShift ==
  ASSUME TypeOK, OnePlace, NEW j \in Jobs,
         NEW from \in QueueJobState, NEW to \in QueueJobState \ {from},
         In(j, from), queue' = Moved(j, from, to)
  PROVE  Shift({j}, {})
<1>1. PICK n : n = Len(queue[to])
  OBVIOUS
<1>2. n \in Nat
  BY <1>1, LenProperties DEF TypeOK, QueueTypeOK
<1>3. n <= Len(queue[to]) /\ queue' = MovedAfter(n, j, from, to)
  BY <1>1, <1>2 DEF Moved
<1>4. Shift({j}, Behind(n, to))
  BY <1>2, <1>3, MovedAfterShift
<1>5. Behind(n, to) = {}
  <2>1. (n + 1)..n = {}
    BY <1>2
  <2>2. QED BY <2>1, <1>1 DEF Behind
<1>6. QED BY <1>4, <1>5

(* Every matching job that another comes before is noted, for a listing    *)
(* that has counted it.                                                    *)
PushNoted(r, back) ==
  /\ pushed[r] \subseteq pushed'[r]
  /\ read[r].pc = "jobs" /\ read[r].filtered =>
       \A j \in back \cap Matching : In(j, read[r].state) => j \in pushed'[r]

PushesNoted(back) ==
  /\ pushed' \in [Readers -> SUBSET Jobs]
  /\ \A r \in Readers : read'[r] # Idle /\ read'[r] = read[r] => PushNoted(r, back)

LEMMA NotedPushes ==
  ASSUME TypeOK, OnePlace, NEW state \in QueueJobState, NEW n \in Nat, n <= Len(queue[state]),
         NotePushed(Behind(n, state), state)
  PROVE  PushesNoted(Behind(n, state))
<1>1. PICK back : back = Behind(n, state)
  OBVIOUS
<1>2. queue[state] \in Seq(Jobs) /\ Len(queue[state]) \in Nat
  BY LenProperties DEF TypeOK, QueueTypeOK
<1>3. \A i \in (n + 1)..Len(queue[state]) : i \in 1..Len(queue[state])
  BY <1>2
<1>4. \A j \in back : j \in Jobs /\ In(j, state)
  <2>1. \A i \in 1..Len(queue[state]) : queue[state][i] \in Jobs
    BY <1>2, ElementOfSeq
  <2>2. QED BY <2>1, <1>1, <1>3 DEF Behind, In, Contains
<1>5. pushed \in [Readers -> SUBSET Jobs]
  BY DEF TypeOK
<1>6. \A r \in Readers : pushed'[r] = pushed[r] \cup
        {j \in back \cap Watched(r) : read[r].pc = "jobs" /\ read[r].state = state}
  BY <1>1 DEF NotePushed
<1>7. pushed' \in [Readers -> SUBSET Jobs]
  BY <1>1, <1>4, <1>5 DEF NotePushed
<1>8. ASSUME NEW r \in Readers, read[r] # Idle, read[r].pc = "jobs", read[r].filtered,
             NEW j \in back \cap Matching, In(j, read[r].state)
      PROVE  j \in pushed'[r]
  <2>1. Watched(r) = Matching
    BY <1>8 DEF Watched
  <2>2. read[r].state \in QueueJobState
    BY <1>8 DEF TypeOK, Read
  <2>3. read[r].state = state
    BY <2>2, <1>4, <1>8 DEF OnePlace
  <2>4. QED BY <2>1, <2>3, <1>6, <1>8
<1>9. QED BY <1>1, <1>6, <1>7, <1>8 DEF PushesNoted, PushNoted

LEMMA NoPushes ==
  ASSUME TypeOK, UNCHANGED pushed
  PROVE  PushesNoted({})
BY DEF TypeOK, PushesNoted, PushNoted

LEMMA HostShift ==
  ASSUME TypeOK, OnePlace, NEW j \in Jobs, Host(j)
  PROVE  /\ Note({j}) /\ UNCHANGED <<read, op>> /\ added' \subseteq Jobs /\ UNCHANGED paused
         /\ \E back : Shift({j}, back) /\ PushesNoted(back)
<1>1. \A s \in QueueJobState : queue[s] \in Seq(Jobs) /\ Len(queue[s]) \in Nat
  BY LenProperties DEF TypeOK, QueueTypeOK
<1>2. \A s \in QueueJobState : \A n \in Places(s) : n \in Nat /\ n <= Len(queue[s])
  BY <1>1 DEF Places
<1>3. Note({j}) /\ UNCHANGED <<read, op>> /\ added \subseteq Jobs
  BY DEF Host, TypeOK
<1>4. ASSUME NEW state \in {"waiting", "delayed"}, NEW n \in Places(state),
             AddJob(j, n, state), NotePushed(Behind(n, state), state)
      PROVE  Shift({j}, Behind(n, state)) /\ PushesNoted(Behind(n, state)) /\ UNCHANGED paused
  <2>1. state \in QueueJobState /\ n \in Nat /\ n <= Len(queue[state])
    BY <1>2 DEF QueueJobState
  <2>2. QED BY <2>1, <1>4, AddShift, NotedPushes DEF AddJob
<1>5. ASSUME NEW state \in QueueJobState \ {"active"}, NEW n \in Places(state),
             FinishJob(j, n, state), NotePushed(Behind(n, state), state)
      PROVE  Shift({j}, Behind(n, state)) /\ PushesNoted(Behind(n, state)) /\ UNCHANGED paused
  <2>1. n \in Nat /\ n <= Len(queue[state]) /\ "active" \in QueueJobState
    BY <1>2 DEF QueueJobState
  <2>2. In(j, "active") /\ queue' = MovedAfter(n, j, "active", state) /\ UNCHANGED paused
    BY <1>5 DEF FinishJob
  <2>3. QED BY <2>1, <2>2, <1>5, MovedAfterShift, NotedPushes
<1>6. ASSUME NEW from \in {"waiting", "delayed"}, NEW to \in {"waiting", "active"} \ {from},
             queue[from] # <<>>, j = Head(queue[from]), queue' = Moved(j, from, to),
             UNCHANGED pushed
      PROVE  Shift({j}, {}) /\ PushesNoted({})
  <2>1. from \in QueueJobState /\ to \in QueueJobState \ {from}
    BY DEF QueueJobState
  <2>2. Len(queue[from]) # 0 /\ j = queue[from][1]
    BY <2>1, <1>1, <1>6, EmptySeq
  <2>3. In(j, from)
    BY <2>1, <2>2, <1>1 DEF In, Contains
  <2>4. QED BY <2>1, <2>3, <1>6, MovedShift, NoPushes
<1>7. CASE /\ j \notin added
           /\ added' = added \cup {j}
           /\ \E state \in {"waiting", "delayed"} : \E n \in Places(state) :
                AddJob(j, n, state) /\ NotePushed(Behind(n, state), state)
  BY <1>3, <1>4, <1>7
<1>8. CASE /\ \E state \in QueueJobState \ {"active"} : \E n \in Places(state) :
                FinishJob(j, n, state) /\ NotePushed(Behind(n, state), state)
           /\ UNCHANGED added
  BY <1>3, <1>5, <1>8
<1>9. CASE TakeJob(j) /\ UNCHANGED <<added, pushed>>
  BY <1>3, <1>6, <1>9 DEF TakeJob
<1>10. CASE DelayOver(j) /\ UNCHANGED <<added, pushed>>
  BY <1>3, <1>6, <1>10 DEF DelayOver
<1>11. QED BY <1>7, <1>8, <1>9, <1>10 DEF Host

(* An accepted action of an operator.                                      *)
LEMMA AppliedShift ==
  ASSUME TypeOK, OnePlace, NEW j \in Jobs, NEW action \in JobActions,
         Accepts(action, j), queue' = Applied(action, j)
  PROVE  Shift({j}, {})
<1>1. CASE action = "retry"
  <2>1. In(j, "failed") /\ queue' = Moved(j, "failed", "waiting")
    BY <1>1 DEF Accepts, Applied
  <2>2. QED BY <2>1, MovedShift DEF QueueJobState
<1>2. CASE action = "remove"
  BY <1>2, RemovedShift DEF Applied
<1>3. CASE action = "promote"
  <2>1. In(j, "delayed") /\ queue' = Moved(j, "delayed", "waiting")
    BY <1>3 DEF Accepts, Applied
  <2>2. QED BY <2>1, MovedShift DEF QueueJobState
<1>4. QED BY <1>1, <1>2, <1>3 DEF JobActions

-----------------------------------------------------------------------------
(* What the requests in flight may rely on when the queue changes.         *)

LEMMA RelatedStates ==
  /\ Len(RelatedOrder) = 5 /\ DOMAIN RelatedOrder = 1..5
  /\ \A i \in 1..5 : RelatedOrder[i] \in QueueJobState /\ Index(RelatedOrder[i]) = i
  /\ \A s \in QueueJobState : Index(s) \in 1..5 /\ RelatedOrder[Index(s)] = s
<1>1. Len(RelatedOrder) = 5 /\ DOMAIN RelatedOrder = 1..5
  BY DEF RelatedOrder
<1>2. /\ RelatedOrder[1] = "completed" /\ RelatedOrder[2] = "failed" /\ RelatedOrder[3] = "waiting"
      /\ RelatedOrder[4] = "delayed" /\ RelatedOrder[5] = "active"
  BY DEF RelatedOrder
<1>3. \A i \in 1..5 : i = 1 \/ i = 2 \/ i = 3 \/ i = 4 \/ i = 5
  OBVIOUS
<1>4. /\ \A i \in 1..5 : RelatedOrder[i] \in QueueJobState
      /\ \A i, k \in 1..5 : RelatedOrder[i] = RelatedOrder[k] => i = k
      /\ \A s \in QueueJobState : \E i \in 1..5 : RelatedOrder[i] = s
  BY <1>2, <1>3 DEF QueueJobState
<1>5. \A s \in QueueJobState : Index(s) \in 1..5 /\ RelatedOrder[Index(s)] = s
  BY <1>1, <1>4 DEF Index
<1>6. QED BY <1>1, <1>4, <1>5

LEMMA ThroughStates ==
  ASSUME NEW q \in Read
  PROVE  Through(q) \subseteq QueueJobState
<1>1. Index(q.state) \in 1..5
  BY RelatedStates DEF Read
<1>2. \A i \in 1..(Index(q.state) - 1) : i \in 1..5
  BY <1>1
<1>3. QED BY <1>2, RelatedStates DEF Through

LEMMA Types ==
  ASSUME Inv
  PROVE  /\ queue \in [QueueJobState -> Seq(Jobs)]
         /\ \A r \in Readers : read[r] \in Read \cup {Idle}
         /\ \A o \in Operators : op[o] \in Op \cup {Idle}
         /\ \A s \in Slots : moved[s] \subseteq Jobs
         /\ pushed \in [Readers -> SUBSET Jobs]
         /\ Matching \subseteq Jobs
         /\ PageSize \in Nat \ {0} /\ PanelLimit \in Nat \ {0} /\ Limit \in Nat \ {0}
BY MatchingAssumption, SizesAssumption DEF Inv, TypeOK, QueueTypeOK, Slots

LEMMA Members ==
  ASSUME NEW S, NEW s \in Seq(S)
  PROVE  /\ Len(s) \in Nat /\ DOMAIN s = 1..Len(s)
         /\ ToSet(s) \subseteq S
         /\ \A i \in 1..Len(s) : s[i] \in S /\ s[i] \in ToSet(s)
         /\ \A e \in ToSet(s) : \E i \in 1..Len(s) : s[i] = e
BY LenProperties, ElementOfSeq DEF ToSet

LEMMA ShiftKeeps ==
  ASSUME NEW js, NEW back, Shift(js, back), NEW j \in Jobs \ js
  PROVE  /\ \A s \in QueueJobState : In(j, s)' <=> In(j, s)
         /\ Exists(j)' <=> Exists(j)
         /\ \A action \in JobActions : Accepts(action, j)' <=> Accepts(action, j)
<1>1. \A s \in QueueJobState : In(j, s)' <=> In(j, s)
  BY DEF Shift, In
<1>2. Exists(j)' <=> Exists(j)
  BY <1>1 DEF Exists
<1>3. In(j, "failed")' <=> In(j, "failed")
  BY <1>1 DEF QueueJobState
<1>4. In(j, "active")' <=> In(j, "active")
  BY <1>1 DEF QueueJobState
<1>5. In(j, "delayed")' <=> In(j, "delayed")
  BY <1>1 DEF QueueJobState
<1>6. \A action \in JobActions : Accepts(action, j)' <=> Accepts(action, j)
  BY <1>2, <1>3, <1>4, <1>5 DEF Accepts, JobActions
<1>7. QED BY <1>1, <1>2, <1>6

(* The moves that a slot watches are noted.                                *)
Noted(s, js) == moved[s] \subseteq moved'[s] /\ js \cap Watched(s) \subseteq moved'[s]

LEMMA NotedMoves ==
  ASSUME TypeOK, NEW js \in SUBSET Jobs, Note(js)
  PROVE  moved' \in [Slots -> SUBSET Jobs] /\ \A s \in Slots : Noted(s, js)
<1>1. moved \in [Slots -> SUBSET Jobs]
  BY DEF TypeOK
<1>2. \A s \in Slots : moved'[s] = moved[s] \cup (js \cap Watched(s))
  BY DEF Note
<1>3. moved' \in [Slots -> SUBSET Jobs]
  BY <1>1 DEF Note
<1>4. QED BY <1>2, <1>3 DEF Noted

LEMMA ReadKept ==
  ASSUME Inv, NEW js, NEW back, Shift(js, back), NEW r \in Readers, Noted(r, js),
         PushNoted(r, back),
         read[r] # Idle, read'[r] = read[r]
  PROVE  (ReadShaped(read[r]) /\ ShownOnce(r, read[r]) /\ Found(r, read[r]))'
<1>1. PICK q : q = read[r]
  OBVIOUS
<1>2. q \in Read /\ read'[r] = q
  BY <1>1, Types
<1>3. ReadShaped(q) /\ ShownOnce(r, q) /\ Found(r, q)
  BY <1>1 DEF Inv, ReadsRight
<1>4. moved[r] \subseteq moved'[r] /\ (q.filtered => js \cap Matching \subseteq moved'[r])
  BY <1>1 DEF Noted, Watched
<1>5. /\ q.items \in Seq(Jobs) /\ q.count \in Nat /\ q.state \in QueueJobState
      /\ q.related \in BOOLEAN /\ q.filtered \in BOOLEAN
  BY <1>2, JobsAssumption, FS_CardinalityType DEF Read
<1>6. ToSet(q.items) \subseteq Jobs /\ Matching \subseteq Jobs
  BY <1>5, Members, MatchingAssumption
<1>7. \A j \in Matching \ moved'[r] : q.filtered => j \in Jobs \ js /\ j \notin moved[r]
  BY <1>4, <1>6
<1>7a. ASSUME q.filtered, NEW j \in Stable(r, q)'
       PROVE  /\ j \in Jobs \ js /\ j \in Stable(r, q)
              /\ q.pc = "jobs" /\ In(j, q.state) => j \notin back
  <2>1. /\ j \in Matching \ moved'[r] /\ j \notin pushed'[r]
        /\ ~(q.hidden /\ In(j, "waiting")')
    BY <1>7a, <1>1, <1>2 DEF Stable
  <2>2. j \in Jobs \ js /\ j \notin moved[r]
    BY <2>1, <1>7, <1>7a
  <2>3. In(j, "waiting")' <=> In(j, "waiting")
    BY <2>2, ShiftKeeps DEF QueueJobState
  <2>4. j \notin pushed[r] /\ (q.pc = "jobs" /\ In(j, q.state) => j \notin back)
    BY <2>1, <1>1, <1>7a DEF PushNoted
  <2>5. QED BY <2>1, <2>2, <2>3, <2>4 DEF Stable
<1>8. ShownOnce(r, q)'
  <2>1. \A i, k \in 1..Len(q.items) : i < k /\ q.items[i] = q.items[k] => q.items[i] \in moved'[r]
    BY <1>3, <1>4 DEF ShownOnce
  <2>2. ASSUME q.related, q.pc # "answer", NEW j \in ToSet(q.items) \ moved'[r]
        PROVE  \E s \in Through(q) : In(j, s)'
    <3>1. q.filtered /\ j \in Matching \ moved'[r]
      BY <2>2, <1>3 DEF ReadShaped
    <3>2. j \in Jobs \ js /\ j \notin moved[r]
      BY <3>1, <1>7
    <3>3. PICK s \in Through(q) : In(j, s)
      BY <2>2, <3>2, <1>3 DEF ShownOnce
    <3>4. s \in QueueJobState
      BY <1>2, ThroughStates
    <3>5. In(j, s)'
      BY <3>2, <3>3, <3>4, ShiftKeeps
    <3>6. QED BY <3>5
  <2>3. QED BY <2>1, <2>2 DEF ShownOnce
<1>9. Found(r, q)'
  <2>1. SUFFICES ASSUME q.filtered PROVE Found(r, q)'
    BY DEF Found
  <2>2. ASSUME q.pc = "jobs", NEW j \in Stable(r, q)', In(j, q.state)'
        PROVE  \E i \in 1..Len(queue'[q.state]) : i <= q.count /\ queue'[q.state][i] = j
    <3>1. j \in Jobs \ js /\ j \in Stable(r, q)
      BY <2>1, <1>7a
    <3>2. In(j, q.state)
      BY <2>2, <3>1, <1>5, ShiftKeeps
    <3>3. PICK i \in 1..Len(queue[q.state]) : i <= q.count /\ queue[q.state][i] = j
      BY <2>1, <2>2, <3>1, <3>2, <1>3 DEF Found
    <3>3a. queue[q.state][i] \notin js \cup back
      BY <2>1, <2>2, <3>1, <3>2, <3>3, <1>7a
    <3>4. PICK k \in 1..Len(queue'[q.state]) : k <= i /\ queue'[q.state][k] = j
      BY <3>3, <3>3a, <1>5 DEF Shift
    <3>5. i \in Int /\ k \in Int /\ k <= q.count
      <4>1. queue[q.state] \in Seq(Jobs) /\ queue'[q.state] \in Seq(Jobs)
        BY <1>5, Types DEF Shift
      <4>2. Len(queue[q.state]) \in Nat /\ Len(queue'[q.state]) \in Nat
        BY <4>1, LenProperties
      <4>3. QED BY <4>2, <3>3, <3>4, <1>5
    <3>6. QED BY <3>4, <3>5
  <2>3. ASSUME q.related, q.pc # "answer", NEW s \in Through(q),
               NEW j \in Stable(r, q)', In(j, s)'
        PROVE  j \in ToSet(q.items)
    <3>1. j \in Jobs \ js /\ j \in Stable(r, q) /\ s \in QueueJobState
      BY <2>1, <1>2, <1>7a, ThroughStates
    <3>2. In(j, s)
      BY <2>3, <3>1, ShiftKeeps
    <3>3. QED BY <2>1, <2>3, <3>1, <3>2, <1>3 DEF Found
  <2>4. ASSUME q.related, q.pc = "answer", NEW j \in Stable(r, q)', Exists(j)'
        PROVE  j \in ToSet(q.items) \/ Len(q.items) = PanelLimit
    <3>1. j \in Jobs \ js /\ j \in Stable(r, q)
      BY <2>1, <1>7a
    <3>2. Exists(j)
      BY <2>4, <3>1, ShiftKeeps
    <3>3. QED BY <2>1, <2>4, <3>1, <3>2, <1>3 DEF Found
  <2>5. ASSUME ~q.related, q.pc = "answer", NEW j \in Stable(r, q)', In(j, q.state)'
        PROVE  j \in ToSet(q.items) \/ q.page > 1 \/ Len(q.items) = PageSize
    <3>1. j \in Jobs \ js /\ j \in Stable(r, q)
      BY <2>1, <1>7a
    <3>2. In(j, q.state)
      BY <2>5, <3>1, <1>5, ShiftKeeps
    <3>3. QED BY <2>1, <2>5, <3>1, <3>2, <1>3 DEF Found
  <2>6. QED BY <2>2, <2>3, <2>4, <2>5 DEF Found
<1>10. QED BY <1>1, <1>2, <1>3, <1>8, <1>9 DEF ReadShaped, ShownOnce, Found, Stable

LEMMA OpKept ==
  ASSUME Inv, NEW js, NEW back, Shift(js, back), NEW o \in Operators, Noted(o, js),
         op[o] # Idle, op'[o] = op[o]
  PROVE  (OpShaped(op[o]) /\ OpCounts(op[o]) /\ OpPossible(o, op[o]))'
<1>1. PICK q : q = op[o]
  OBVIOUS
<1>2. q \in Op /\ op'[o] = q
  BY <1>1, Types
<1>3. OpShaped(q) /\ OpCounts(q) /\ OpPossible(o, q)
  BY <1>1 DEF Inv, OpsRight
<1>4. q.todo \in Seq(Jobs)
  BY <1>2 DEF Op
<1>5. moved[o] \subseteq moved'[o] /\ js \cap ToSet(q.todo) \subseteq moved'[o]
  BY <1>1, SlotsAssumption DEF Noted, Watched
<1>6. \A j \in ToSet(q.todo) \ moved'[o] : j \in Jobs \ js /\ j \notin moved[o]
  BY <1>4, <1>5, Members
<1>7. OpPossible(o, q)'
  <2>1. ASSUME q.action \in JobActions, q.pc \in {"find", "apply"}
        PROVE  /\ q.done = {}
               /\ q.possible => Accepts(q.action, q.todo[1])' \/ q.todo[1] \in moved'[o]
    <3>1. PICK j \in Jobs : q.todo = <<j>>
      BY <2>1, <1>3 DEF OpShaped
    <3>2. q.todo[1] = j /\ j \in ToSet(q.todo)
      <4>1. Len(q.todo) = 1 /\ q.todo[1] = j
        BY <3>1
      <4>2. QED BY <4>1, <1>4, Members
    <3>3. q.done = {} /\ (q.possible => Accepts(q.action, j) \/ j \in moved[o])
      BY <2>1, <3>2, <1>3 DEF OpPossible
    <3>4. q.possible => Accepts(q.action, j)' \/ j \in moved'[o]
      BY <2>1, <3>2, <3>3, <1>6, ShiftKeeps
    <3>5. QED BY <3>2, <3>3, <3>4 DEF Accepts, In, Exists
  <2>2. ASSUME q.action = "retry-failed", q.pc = "retry", NEW j \in ToSet(q.todo)
        PROVE  In(j, "failed")' \/ j \in moved'[o]
    <3>1. In(j, "failed") \/ j \in moved[o]
      BY <2>2, <1>3 DEF OpPossible
    <3>2. "failed" \in QueueJobState
      BY DEF QueueJobState
    <3>3. QED BY <3>1, <3>2, <1>6, ShiftKeeps
  <2>3. ASSUME q.pc = "answer", q.status \in {"unknown", "rejected"}
        PROVE  q.todo # <<>> /\ (q.possible => q.todo[1] \in moved'[o] \ q.done)
    BY <2>3, <1>3, <1>5 DEF OpPossible
  <2>4. QED BY <2>1, <2>2, <2>3 DEF OpPossible, Accepts, In, Exists
<1>8. QED BY <1>1, <1>2, <1>3, <1>7 DEF OpShaped, OpCounts, OpPossible, Accepts, In, Exists

-----------------------------------------------------------------------------
(* A part of a sequence.                                                   *)

(* t is what s has from first to last.                                     *)
IsSlice(t, s, first, last) ==
  /\ Len(t) <= Len(s)
  /\ first <= last + 1 => Len(t) <= last + 1 - first
  /\ \A k \in 1..Len(t) : k + first - 1 \in 1..Len(s) /\ t[k] = s[k + first - 1]
  /\ \A i \in 1..Len(s) : first <= i /\ i <= last =>
       i + 1 - first \in 1..Len(t) /\ t[i + 1 - first] = s[i]
  /\ Distinct(s) => Distinct(t)

LEMMA SliceProperties ==
  ASSUME NEW S, NEW s \in Seq(S), NEW first \in Nat \ {0}, NEW last \in Nat
  PROVE  Slice(s, first, last) \in Seq(S) /\ IsSlice(Slice(s, first, last), s, first, last)
<1> DEFINE end == IF last < Len(s) THEN last ELSE Len(s)
           t == Slice(s, first, last)
<1>1. Len(s) \in Nat /\ \A i \in 1..Len(s) : s[i] \in S
  BY LenProperties, ElementOfSeq
<1>2. end \in Nat /\ end <= Len(s) /\ end <= last /\ (last <= Len(s) => end = last)
      /\ (Len(s) <= last => end = Len(s))
  BY <1>1
<1> HIDE DEF end
<1>3. t = SubSeq(s, first, end)
  BY DEF Slice, end
<1> HIDE DEF t
<1>4. /\ t \in Seq(S) /\ Len(t) = IF first <= end THEN end - first + 1 ELSE 0
      /\ \A k \in 1..(end - first + 1) : t[k] = s[first + k - 1]
  <2>1. \A i \in first..end : s[i] \in S
    BY <1>1, <1>2
  <2>2. QED BY <2>1, <1>2, <1>3, SubSeqProperties
<1>5. Len(t) <= Len(s) /\ (first <= last + 1 => Len(t) <= last + 1 - first)
  BY <1>1, <1>2, <1>4
<1>6. \A k \in 1..Len(t) : k + first - 1 \in 1..Len(s) /\ t[k] = s[k + first - 1]
  <2>1. SUFFICES ASSUME NEW k \in 1..Len(t)
                 PROVE  k + first - 1 \in 1..Len(s) /\ t[k] = s[k + first - 1]
    OBVIOUS
  <2>2. first <= end /\ k \in 1..(end - first + 1)
    BY <1>2, <1>4
  <2>3. k + first - 1 = first + k - 1 /\ k + first - 1 \in 1..Len(s)
    BY <2>2, <1>1, <1>2
  <2>4. QED BY <2>2, <2>3, <1>4
<1>7. ASSUME NEW i \in 1..Len(s), first <= i, i <= last
      PROVE  i + 1 - first \in 1..Len(t) /\ t[i + 1 - first] = s[i]
  <2>1. i <= end /\ i + 1 - first \in 1..(end - first + 1) /\ first <= end
    BY <1>1, <1>2, <1>7
  <2>2. first + (i + 1 - first) - 1 = i
    BY <1>1
  <2>3. i + 1 - first \in 1..Len(t)
    BY <2>1, <1>4
  <2>4. t[i + 1 - first] = s[first + (i + 1 - first) - 1]
    BY <2>1, <1>4
  <2>5. QED BY <2>2, <2>3, <2>4
<1>8. ASSUME Distinct(s)
      PROVE  Distinct(t)
  <2>1. SUFFICES ASSUME NEW i \in 1..Len(t), NEW k \in 1..Len(t), t[i] = t[k] PROVE i = k
    BY DEF Distinct
  <2>2. i + first - 1 = k + first - 1
    BY <2>1, <1>6, <1>8 DEF Distinct
  <2>3. Len(t) \in Nat
    BY <1>2, <1>4
  <2>4. QED BY <2>2, <2>3
<1>9. QED BY <1>4, <1>5, <1>6, <1>7, <1>8 DEF t, IsSlice

(* There are no more jobs in a sequence without repetitions than there are.*)
LEMMA DistinctIsShort ==
  ASSUME NEW s \in Seq(Jobs), Distinct(s)
  PROVE  Len(s) \in 0..Cardinality(Jobs) /\ Cardinality(ToSet(s)) = Len(s)
<1>1. IsFiniteSet(Jobs) /\ Cardinality(Jobs) \in Nat
  BY JobsAssumption, FS_CardinalityType
<1>2. ToSet(s) \subseteq Jobs /\ Len(s) \in Nat
  BY Members
<1>3. Cardinality(ToSet(s)) = Len(s)
  BY DistinctMembers
<1>4. Cardinality(ToSet(s)) <= Cardinality(Jobs)
  BY <1>1, <1>2, FS_Subset
<1>5. QED BY <1>1, <1>2, <1>3, <1>4

(* What getJobs answers for a state, from position start.                  *)
LEMMA GetJobsProperties ==
  ASSUME TypeOK, OnePlace, NEW state \in QueueJobState, NEW start \in Nat, NEW end \in Int,
         start <= end
  PROVE  /\ GetJobs(state, start, end) \in Seq(Jobs)
         /\ IsSlice(GetJobs(state, start, end), queue[state], start + 1, end + 1)
         /\ Distinct(GetJobs(state, start, end))
<1>1. queue[state] \in Seq(Jobs) /\ Distinct(queue[state])
  BY DEF TypeOK, QueueTypeOK, OnePlace
<1>2. start + 1 \in Nat \ {0} /\ end + 1 \in Nat
  OBVIOUS
<1>3. /\ Slice(queue[state], start + 1, end + 1) \in Seq(Jobs)
      /\ IsSlice(Slice(queue[state], start + 1, end + 1), queue[state], start + 1, end + 1)
  BY <1>1, <1>2, SliceProperties
<1>4. Distinct(Slice(queue[state], start + 1, end + 1))
  BY <1>1, <1>3 DEF IsSlice
<1>5. QED BY <1>3, <1>4 DEF GetJobs

(* The matching jobs of the state, as far as the count goes.               *)
IsMatching(m, q) ==
  /\ Distinct(m)
  /\ Len(m) <= q.count
  /\ \A k \in 1..Len(m) : m[k] \in Matching /\ In(m[k], q.state)
  /\ \A i \in 1..Len(queue[q.state]) : i <= q.count /\ queue[q.state][i] \in Matching =>
       \E k \in 1..Len(m) : k <= i /\ m[k] = queue[q.state][i]

LEMMA MatchingJobsProperties ==
  ASSUME TypeOK, OnePlace, NEW q \in Read
  PROVE  MatchingJobs(q) \in Seq(Jobs) /\ IsMatching(MatchingJobs(q), q)
<1>1. q.count \in Nat /\ q.state \in QueueJobState
  BY JobsAssumption, FS_CardinalityType DEF Read
<1>2. queue[q.state] \in Seq(Jobs)
  BY <1>1 DEF TypeOK, QueueTypeOK
<1>3. CASE q.count = 0
  <2>1. MatchingJobs(q) = <<>>
    BY <1>3 DEF MatchingJobs
  <2>2. Len(queue[q.state]) \in Nat
    BY <1>2, LenProperties
  <2>3. <<>> \in Seq(Jobs) /\ Len(<<>>) = 0
    BY EmptySeq
  <2>4. QED BY <2>1, <2>2, <2>3, <1>3 DEF IsMatching, Distinct
<1>4. CASE q.count # 0
  <2> DEFINE g == GetJobs(q.state, 0, q.count - 1)
             m == Kept(g, Matching)
  <2>1. /\ 0 <= q.count - 1 /\ q.count - 1 \in Int /\ 0 + 1 = 1 /\ q.count - 1 + 1 = q.count
        /\ q.count + 1 - 1 = q.count /\ 1 <= q.count + 1
    BY <1>1, <1>4
  <2>2. g \in Seq(Jobs) /\ IsSlice(g, queue[q.state], 1, q.count) /\ Distinct(g)
    <3>1. /\ g \in Seq(Jobs) /\ Distinct(g)
          /\ IsSlice(g, queue[q.state], 0 + 1, q.count - 1 + 1)
      BY <2>1, <1>1, GetJobsProperties
    <3> HIDE DEF g
    <3>2. QED BY <3>1, <2>1
  <2> HIDE DEF g
  <2>3. m \in Seq(Jobs) /\ IsKept(m, g, Matching)
    BY <2>2, KeptProperties
  <2>4. MatchingJobs(q) = m
    BY <1>4 DEF MatchingJobs, g
  <2> HIDE DEF m
  <2>5. Len(m) \in Nat /\ Len(g) \in Nat /\ Len(queue[q.state]) \in Nat
    BY <1>2, <2>2, <2>3, LenProperties
  <2>6. Distinct(m) /\ Len(m) <= q.count
    BY <2>1, <2>2, <2>3, <2>5, <1>1 DEF IsKept, IsSlice
  <2>7. \A k \in 1..Len(m) : m[k] \in Matching /\ In(m[k], q.state)
    BY <2>2, <2>3 DEF IsKept, IsSlice, In, Contains
  <2>8. ASSUME NEW i \in 1..Len(queue[q.state]), i <= q.count, queue[q.state][i] \in Matching
        PROVE  \E k \in 1..Len(m) : k <= i /\ m[k] = queue[q.state][i]
    <3>1. 1 <= i /\ i + 1 - 1 = i
      BY <2>5
    <3>2. i \in 1..Len(g) /\ g[i] = queue[q.state][i]
      BY <3>1, <2>2, <2>8 DEF IsSlice
    <3>3. QED BY <3>2, <2>3, <2>8 DEF IsKept
  <2>9. QED BY <2>3, <2>4, <2>6, <2>7, <2>8 DEF IsMatching
<1>5. QED BY <1>3, <1>4

(* A page of a list is a part of it, of at most the size of a page.        *)
LEMMA PageProperties ==
  ASSUME NEW S, NEW s \in Seq(S), NEW page \in Nat \ {0}, NEW size \in Nat \ {0}
  PROVE  /\ PageOf(s, page, size) \in Seq(S)
         /\ Len(PageOf(s, page, size)) <= size
         /\ \A e \in ToSet(PageOf(s, page, size)) : e \in ToSet(s)
         /\ Distinct(s) => Distinct(PageOf(s, page, size))
         /\ page = 1 => IsSlice(PageOf(s, page, size), s, 1, size)
<1> DEFINE first == (page - 1) * size + 1
           t == PageOf(s, page, size)
<1>1. PICK p \in Nat : page = p + 1
  <2>1. page - 1 \in Nat /\ page = (page - 1) + 1
    OBVIOUS
  <2>2. QED BY <2>1
<1>2. PICK d : d = p * size
  OBVIOUS
<1>3. d \in Nat
  BY <1>1, <1>2
<1>4. first = d + 1 /\ page * size = d + size
  <2>1. (page - 1) * size = p * size
    BY <1>1
  <2>2. page * size = p * size + size
    BY <1>1
  <2>3. QED BY <2>1, <2>2, <1>2
<1>5. t = Slice(s, d + 1, d + size)
  BY <1>4 DEF PageOf
<1> HIDE DEF t, first
<1>6. d + 1 \in Nat \ {0} /\ d + size \in Nat
  BY <1>3
<1>7. t \in Seq(S) /\ IsSlice(t, s, d + 1, d + size)
  BY <1>5, <1>6, SliceProperties
<1>8. Len(t) <= size
  <2>1. Len(t) \in Nat /\ d + 1 <= d + size + 1
    BY <1>3, <1>7, LenProperties
  <2>2. Len(t) <= (d + size) + 1 - (d + 1)
    BY <2>1, <1>7 DEF IsSlice
  <2>3. QED BY <2>1, <2>2, <1>3
<1>9. \A e \in ToSet(t) : e \in ToSet(s)
  <2>1. \A k \in 1..Len(t) : \E i \in 1..Len(s) : t[k] = s[i]
    BY <1>7 DEF IsSlice
  <2>2. QED BY <2>1, <1>7, Members
<1>10. ASSUME page = 1
       PROVE  IsSlice(t, s, 1, size)
  <2>1. d = 0
    <3>1. p = 0
      BY <1>1, <1>10
    <3>2. QED BY <3>1, <1>2
  <2>2. d + 1 = 1 /\ d + size = size
    BY <2>1
  <2>3. QED BY <2>2, <1>7
<1>11. QED BY <1>7, <1>8, <1>9, <1>10 DEF IsSlice, t

(* A first page has everything, or is full.                                *)
LEMMA FirstPageIsFull ==
  ASSUME NEW S, NEW s \in Seq(S), NEW t \in Seq(S), NEW size \in Nat, IsSlice(t, s, 1, size),
         NEW e \in ToSet(s)
  PROVE  Len(t) <= size /\ (e \in ToSet(t) \/ Len(t) = size)
<1>1. Len(s) \in Nat /\ Len(t) \in Nat
  BY LenProperties
<1>2. Len(t) <= size
  <2>1. 1 <= size + 1
    OBVIOUS
  <2>2. Len(t) <= size + 1 - 1
    BY <2>1 DEF IsSlice
  <2>3. QED BY <2>2, <1>1
<1>3. PICK i \in 1..Len(s) : s[i] = e
  BY Members
<1>4. i \in Nat /\ 1 <= i /\ i + 1 - 1 = i
  BY <1>1
<1>5. CASE i <= size
  <2>1. i \in 1..Len(t) /\ t[i] = e
    BY <1>3, <1>4, <1>5 DEF IsSlice
  <2>2. QED BY <2>1, <1>2, Members
<1>6. CASE size < i
  <2>1. CASE size = 0
    BY <2>1, <1>1, <1>2
  <2>2. CASE size # 0
    <3>1. size \in 1..Len(s) /\ 1 <= size /\ size <= size /\ size + 1 - 1 = size
      BY <2>2, <1>1, <1>3, <1>4, <1>6
    <3>2. size \in 1..Len(t)
      BY <3>1 DEF IsSlice
    <3>3. QED BY <3>2, <1>1, <1>2
  <2>3. QED BY <2>1, <2>2
<1>7. QED BY <1>2, <1>4, <1>5, <1>6

-----------------------------------------------------------------------------
(* What a step of a request has to show.                                   *)

LEMMA Keeps ==
  ASSUME Inv, NEW js, NEW back, Shift(js, back), PushesNoted(back),
         paused' \in BOOLEAN, added' \subseteq Jobs,
         moved' \in [Slots -> SUBSET Jobs],
         read' \in [Readers -> Read \cup {Idle}],
         op' \in [Operators -> Op \cup {Idle}],
         \A r \in Readers : read'[r] # Idle =>
           \/ read'[r] = read[r] /\ Noted(r, js)
           \/ (ReadShaped(read[r]) /\ ShownOnce(r, read[r]) /\ Found(r, read[r]))',
         \A o \in Operators : op'[o] # Idle =>
           \/ op'[o] = op[o] /\ Noted(o, js)
           \/ (OpShaped(op[o]) /\ OpCounts(op[o]) /\ OpPossible(o, op[o]))'
  PROVE  Inv'
<1>1. TypeOK'
  BY DEF Shift, PushesNoted, TypeOK, QueueTypeOK
<1>2. OnePlace'
  BY DEF Shift
<1>3. ReadsRight'
  <2>1. SUFFICES ASSUME NEW r \in Readers, read'[r] # Idle
                 PROVE  (ReadShaped(read[r]) /\ ShownOnce(r, read[r]) /\ Found(r, read[r]))'
    BY DEF ReadsRight
  <2>2. ASSUME read'[r] = read[r], Noted(r, js)
        PROVE  (ReadShaped(read[r]) /\ ShownOnce(r, read[r]) /\ Found(r, read[r]))'
    <3>1. read[r] # Idle /\ PushNoted(r, back)
      BY <2>1, <2>2 DEF PushesNoted
    <3>2. QED BY <2>2, <3>1, ReadKept
  <2>3. QED BY <2>1, <2>2
<1>4. OpsRight'
  <2>1. SUFFICES ASSUME NEW o \in Operators, op'[o] # Idle
                 PROVE  (OpShaped(op[o]) /\ OpCounts(op[o]) /\ OpPossible(o, op[o]))'
    BY DEF OpsRight
  <2>2. ASSUME op'[o] = op[o], Noted(o, js)
        PROVE  (OpShaped(op[o]) /\ OpCounts(op[o]) /\ OpPossible(o, op[o]))'
    BY <2>1, <2>2, OpKept
  <2>3. QED BY <2>1, <2>2
<1>5. QED BY <1>1, <1>2, <1>3, <1>4 DEF Inv

(* A step of a reader changes nothing but its request.                     *)
LEMMA ReaderKeeps ==
  ASSUME Inv, NEW r \in Readers, NEW next \in Read, Reply(r, next),
         UNCHANGED <<queue, paused, added, op, notes>>,
         ReadShaped(next), ShownOnce(r, next), Found(r, next)
  PROVE  Inv'
<1>1. TypeOK /\ OnePlace
  BY DEF Inv
<1>2. Shift({}, {}) /\ PushesNoted({}) /\ UNCHANGED <<moved, pushed>>
  BY <1>1, NoShift, NoPushes DEF notes
<1>3. read' = [read EXCEPT ![r] = next] /\ read \in [Readers -> Read \cup {Idle}]
  BY <1>1 DEF Reply, TypeOK
<1>4. read' \in [Readers -> Read \cup {Idle}] /\ read'[r] = next
      /\ \A i \in Readers \ {r} : read'[i] = read[i]
  BY <1>3
<1>5. \A s \in Slots : Noted(s, {})
  BY <1>2 DEF Noted
<1>6. (ReadShaped(read[r]) /\ ShownOnce(r, read[r]) /\ Found(r, read[r]))'
  BY <1>2, <1>4 DEF ReadShaped, ShownOnce, Found, In, Exists, Through, Stable
<1>7. \A i \in Readers :
        \/ read'[i] = read[i] /\ Noted(i, {})
        \/ (ReadShaped(read[i]) /\ ShownOnce(i, read[i]) /\ Found(i, read[i]))'
  BY <1>4, <1>5, <1>6 DEF Slots
<1>8. \A o \in Operators : op'[o] = op[o] /\ Noted(o, {})
  BY <1>5 DEF Slots
<1>9. /\ op' \in [Operators -> Op \cup {Idle}] /\ moved' \in [Slots -> SUBSET Jobs]
      /\ paused' \in BOOLEAN /\ added' \subseteq Jobs
  BY <1>1, <1>2 DEF TypeOK, QueueTypeOK
<1>10. QED BY <1>2, <1>4, <1>7, <1>8, <1>9, Keeps

(* A step of an operator may change the queue as well, and notes that.     *)
LEMMA OperatorKeeps ==
  ASSUME Inv, NEW js, Shift(js, {}), NEW o \in Operators, NEW next \in Op, Step(o, next),
         paused' \in BOOLEAN, UNCHANGED <<added, read, pushed>>,
         moved' \in [Slots -> SUBSET Jobs], \A s \in Slots : Noted(s, js),
         OpShaped(next), OpCounts(next), OpPossible(o, next)'
  PROVE  Inv'
<1>1. TypeOK /\ OnePlace
  BY DEF Inv
<1>2. op' = [op EXCEPT ![o] = next] /\ op \in [Operators -> Op \cup {Idle}]
  BY <1>1 DEF Step, TypeOK
<1>3. op' \in [Operators -> Op \cup {Idle}] /\ op'[o] = next
      /\ \A i \in Operators \ {o} : op'[i] = op[i]
  BY <1>2
<1>4. (OpShaped(op[o]) /\ OpCounts(op[o]) /\ OpPossible(o, op[o]))'
  BY <1>3 DEF OpShaped, OpCounts, OpPossible, In, Exists, Accepts
<1>5. \A i \in Operators :
        \/ op'[i] = op[i] /\ Noted(i, js)
        \/ (OpShaped(op[i]) /\ OpCounts(op[i]) /\ OpPossible(i, op[i]))'
  BY <1>3, <1>4 DEF Slots
<1>6. \A r \in Readers : read'[r] = read[r] /\ Noted(r, js)
  BY DEF Slots
<1>7. /\ read' \in [Readers -> Read \cup {Idle}] /\ added' \subseteq Jobs
      /\ PushesNoted({})
  BY <1>1, NoPushes DEF TypeOK
<1>8. QED BY <1>3, <1>5, <1>6, <1>7, Keeps

(* A step of an operator that leaves the queue alone.                      *)
LEMMA OperatorWaits ==
  ASSUME Inv, NEW o \in Operators, NEW next \in Op, Step(o, next),
         paused' \in BOOLEAN, UNCHANGED <<queue, added, read, notes>>,
         OpShaped(next), OpCounts(next), OpPossible(o, next)
  PROVE  Inv'
<1>1. TypeOK /\ OnePlace
  BY DEF Inv
<1>2. Shift({}, {})
  BY <1>1, NoShift
<1>3. UNCHANGED <<moved, pushed>> /\ \A s \in Slots : Noted(s, {})
  BY DEF Noted, notes
<1>4. moved' \in [Slots -> SUBSET Jobs]
  BY <1>1, <1>3 DEF TypeOK
<1>5. OpPossible(o, next)'
  BY <1>3 DEF OpPossible, In, Exists, Accepts
<1>6. QED BY <1>2, <1>3, <1>4, <1>5, OperatorKeeps

LEMMA HostInv ==
  ASSUME Inv, NEW j \in Jobs, Host(j)
  PROVE  Inv'
<1>1. TypeOK /\ OnePlace
  BY DEF Inv
<1>2. Note({j}) /\ UNCHANGED <<read, op>> /\ added' \subseteq Jobs /\ UNCHANGED paused
  BY <1>1, HostShift
<1>2a. PICK back : Shift({j}, back) /\ PushesNoted(back)
  BY <1>1, HostShift
<1>3. moved' \in [Slots -> SUBSET Jobs] /\ \A s \in Slots : Noted(s, {j})
  BY <1>1, <1>2, NotedMoves
<1>4. \A r \in Readers : read'[r] = read[r] /\ Noted(r, {j})
  BY <1>2, <1>3 DEF Slots
<1>5. \A o \in Operators : op'[o] = op[o] /\ Noted(o, {j})
  BY <1>2, <1>3 DEF Slots
<1>6. /\ paused' \in BOOLEAN /\ read' \in [Readers -> Read \cup {Idle}]
      /\ op' \in [Operators -> Op \cup {Idle}]
  BY <1>1, <1>2 DEF TypeOK, QueueTypeOK
<1>7. QED BY <1>2, <1>2a, <1>3, <1>4, <1>5, <1>6, Keeps

(* The slot of an answer that is taken is free, the others are as before.  *)
LEMMA TakeAnswerInv ==
  ASSUME Inv, NEW s \in Slots, TakeAnswer(s)
  PROVE  Inv'
<1>1. TypeOK /\ OnePlace
  BY DEF Inv
<1>2. Shift({}, {})
  BY <1>1, NoShift DEF TakeAnswer
<1>3. moved' = [moved EXCEPT ![s] = {}] /\ moved \in [Slots -> SUBSET Jobs]
  BY <1>1 DEF TakeAnswer, Forgotten, TypeOK
<1>4. moved' \in [Slots -> SUBSET Jobs] /\ \A i \in Slots \ {s} : Noted(i, {})
  BY <1>3 DEF Noted
<1>5. paused' \in BOOLEAN /\ added' \subseteq Jobs
  BY <1>1 DEF TakeAnswer, TypeOK, QueueTypeOK
<1>5a. /\ pushed' \in [Readers -> SUBSET Jobs]
       /\ \A r \in Readers \ {s} : pushed'[r] = pushed[r]
  BY <1>1 DEF TakeAnswer, Forgotten, TypeOK
<1>6. read \in [Readers -> Read \cup {Idle}] /\ op \in [Operators -> Op \cup {Idle}]
  BY <1>1 DEF TypeOK
<1>6a. ASSUME s \in Readers => read'[s] = Idle
       PROVE  PushesNoted({})
  BY <1>5a, <1>6a DEF PushesNoted, PushNoted
<1>7. CASE s \in Readers /\ Reply(s, Idle) /\ UNCHANGED op
  <2>1. read' \in [Readers -> Read \cup {Idle}] /\ read'[s] = Idle
        /\ \A i \in Readers \ {s} : read'[i] = read[i]
    BY <1>6, <1>7 DEF Reply
  <2>2. \A i \in Readers : read'[i] # Idle => read'[i] = read[i] /\ Noted(i, {})
    BY <2>1, <1>4 DEF Slots
  <2>3. \A o \in Operators : op'[o] = op[o] /\ Noted(o, {})
    BY <1>4, <1>7, SlotsAssumption DEF Slots
  <2>4. op' \in [Operators -> Op \cup {Idle}]
    BY <1>6, <1>7
  <2>5. QED BY <1>2, <1>4, <1>5, <1>6a, <2>1, <2>2, <2>3, <2>4, Keeps
<1>8. CASE s \in Operators /\ Step(s, Idle) /\ UNCHANGED read
  <2>1. op' \in [Operators -> Op \cup {Idle}] /\ op'[s] = Idle
        /\ \A i \in Operators \ {s} : op'[i] = op[i]
    BY <1>6, <1>8 DEF Step
  <2>2. \A i \in Operators : op'[i] # Idle => op'[i] = op[i] /\ Noted(i, {})
    BY <2>1, <1>4 DEF Slots
  <2>3. \A r \in Readers : read'[r] = read[r] /\ Noted(r, {})
    BY <1>4, <1>8, SlotsAssumption DEF Slots
  <2>4. read' \in [Readers -> Read \cup {Idle}]
    BY <1>6, <1>8
  <2>5. PushesNoted({})
    BY <1>6a, <1>8, SlotsAssumption
  <2>6. QED BY <1>2, <1>4, <1>5, <2>1, <2>2, <2>3, <2>4, <2>5, Keeps
<1>9. QED BY <1>7, <1>8 DEF TakeAnswer

-----------------------------------------------------------------------------
(* The steps of a reader.                                                  *)

(* A request that starts with nothing read.                                *)
LEMMA NewRequest ==
  ASSUME Inv, NEW r \in Readers, NEW related \in BOOLEAN, NEW filtered \in BOOLEAN,
         NEW state \in QueueJobState, NEW page \in 1..MaxPage,
         related => filtered /\ page = 1 /\ state = RelatedOrder[1],
         Reply(r, Request(related, filtered, state, page)),
         UNCHANGED <<queue, paused, added, op, notes>>
  PROVE  Inv'
<1>1. PICK q : q = Request(related, filtered, state, page)
  OBVIOUS
<1>2. Cardinality(Jobs) \in Nat /\ <<>> \in Seq(Jobs)
  BY JobsAssumption, FS_CardinalityType, EmptySeq
<1>3. q \in Read
  BY <1>1, <1>2 DEF Request, Read
<1>4. /\ q.pc = "counts" /\ q.related = related /\ q.filtered = filtered /\ q.page = page
      /\ q.state = state /\ q.items = <<>>
  BY <1>1 DEF Request
<1>5. Len(q.items) = 0 /\ ToSet(q.items) = {}
  BY <1>4 DEF ToSet
<1>6. related => Through(q) = {}
  <2>1. related => Index(q.state) = 1
    BY <1>4, RelatedStates
  <2>2. related => 1..(Index(q.state) - 1) = {}
    BY <2>1
  <2>3. QED BY <2>2 DEF Through
<1>7. ReadShaped(q)
  BY <1>4, <1>5, Types DEF ReadShaped
<1>8. ShownOnce(r, q)
  <2>1. 1..Len(q.items) = {}
    BY <1>5
  <2>2. QED BY <2>1, <1>5 DEF ShownOnce
<1>9. Found(r, q)
  BY <1>4, <1>6 DEF Found
<1>10. QED BY <1>1, <1>3, <1>7, <1>8, <1>9, ReaderKeeps

LEMMA ListJobsInv ==
  ASSUME Inv, NEW r \in Readers, ListJobs(r)
  PROVE  Inv'
<1>1. PICK filtered \in BOOLEAN, state \in QueueJobState, page \in 1..MaxPage :
        Reply(r, Request(FALSE, filtered, state, page))
  BY DEF ListJobs
<1>2. UNCHANGED <<queue, paused, added, op, notes>>
  BY DEF ListJobs
<1>3. QED BY <1>1, <1>2, NewRequest

LEMMA ListRelatedJobsInv ==
  ASSUME Inv, NEW r \in Readers, ListRelatedJobs(r)
  PROVE  Inv'
<1>1. RelatedOrder[1] \in QueueJobState /\ 1 \in 1..MaxPage
  BY RelatedStates, BoundsAssumption
<1>2. /\ Reply(r, Request(TRUE, TRUE, RelatedOrder[1], 1))
      /\ UNCHANGED <<queue, paused, added, op, notes>>
  BY DEF ListRelatedJobs
<1>3. QED BY <1>1, <1>2, NewRequest

(* What is in flight at a slot, and what holds of it.                      *)
LEMMA InFlightReads ==
  ASSUME Inv, NEW r \in Readers, read[r].pc \in {"counts", "jobs", "answer"}
  PROVE  /\ read[r] \in Read /\ read[r] # Idle
         /\ ReadShaped(read[r]) /\ ShownOnce(r, read[r]) /\ Found(r, read[r])
<1>1. read[r] # Idle
  BY DEF Idle
<1>2. read[r] \in Read
  BY <1>1, Types
<1>3. QED BY <1>1, <1>2 DEF Inv, ReadsRight

LEMMA NothingCounted == 0 \in 0..Cardinality(Jobs)
<1>1. Cardinality(Jobs) \in Nat
  BY JobsAssumption, FS_CardinalityType
<1>2. QED BY <1>1

LEMMA ReadCountsInv ==
  ASSUME Inv, NEW r \in Readers, ReadCounts(r)
  PROVE  Inv'
<1>1. PICK q : q = read[r]
  OBVIOUS
<1>2. /\ q.pc = "counts" /\ UNCHANGED <<queue, paused, added, op, notes>>
      /\ Reply(r, [q EXCEPT !.pc = "jobs", !.count = Len(Reached(q.state)),
                            !.hidden = @ \/ (q.state = "waiting" /\ paused)])
  BY <1>1 DEF ReadCounts
<1>3. q \in Read /\ ReadShaped(q) /\ ShownOnce(r, q) /\ Found(r, q)
  BY <1>1, <1>2, InFlightReads
<1>4. q.state \in QueueJobState
  BY <1>3 DEF Read
<1>5. /\ queue[q.state] \in Seq(Jobs) /\ Len(queue[q.state]) \in 0..Cardinality(Jobs)
      /\ Len(Reached(q.state)) \in 0..Cardinality(Jobs)
      /\ Reached(q.state) = queue[q.state] \/ (q.state = "waiting" /\ paused)
  <2>1. queue[q.state] \in Seq(Jobs) /\ Distinct(queue[q.state])
    BY <1>4, Types DEF Inv, OnePlace
  <2>2. Len(queue[q.state]) \in 0..Cardinality(Jobs)
    BY <2>1, DistinctIsShort
  <2>3. Reached(q.state) = queue[q.state] \/ (Reached(q.state) = <<>> /\ q.state = "waiting" /\ paused)
    BY DEF Reached
  <2>4. Len(<<>>) \in 0..Cardinality(Jobs)
    BY NothingCounted, EmptySeq
  <2>5. QED BY <2>1, <2>2, <2>3, <2>4
<1>6. PICK n : n = [q EXCEPT !.pc = "jobs", !.count = Len(Reached(q.state)),
                            !.hidden = @ \/ (q.state = "waiting" /\ paused)]
  OBVIOUS
<1>7. /\ n \in Read /\ n.pc = "jobs" /\ n.count = Len(Reached(q.state)) /\ n.related = q.related
      /\ n.filtered = q.filtered /\ n.page = q.page /\ n.state = q.state /\ n.items = q.items
      /\ n.hidden = (q.hidden \/ (q.state = "waiting" /\ paused))
  <2>1. (q.hidden \/ (q.state = "waiting" /\ paused)) \in BOOLEAN
    OBVIOUS
  <2>2. QED BY <2>1, <1>3, <1>5, <1>6 DEF Read
<1>8. Through(n) = Through(q)
  BY <1>7 DEF Through
<1>9. ReadShaped(n)
  BY <1>2, <1>3, <1>7 DEF ReadShaped
<1>10. ShownOnce(r, n)
  BY <1>2, <1>3, <1>7, <1>8 DEF ShownOnce
<1>11. Found(r, n)
  <2>1. ASSUME NEW j \in Stable(r, n), In(j, n.state)
        PROVE  \E i \in 1..Len(queue[n.state]) : i <= n.count /\ queue[n.state][i] = j
    <3>1. PICK i \in 1..Len(queue[q.state]) : queue[q.state][i] = j
      BY <2>1, <1>7 DEF In, Contains
    <3>2. i <= Len(queue[q.state])
      BY <1>5
    <3>3. ~(q.state = "waiting" /\ paused)
      BY <2>1, <1>7 DEF Stable
    <3>4. Reached(q.state) = queue[q.state]
      BY <3>3, <1>5
    <3>5. QED BY <3>1, <3>2, <3>4, <1>7
  <2>2. \A j \in Stable(r, n) : j \in Stable(r, q)
    BY <1>7 DEF Stable
  <2>3. QED BY <2>1, <2>2, <1>2, <1>3, <1>7, <1>8 DEF Found
<1>12. QED BY <1>2, <1>6, <1>7, <1>9, <1>10, <1>11, ReaderKeeps

(* The items and the total of a page of one state.                         *)
LEMMA PageItems ==
  ASSUME Inv, NEW r \in Readers, NEW q \in Read, q.pc = "jobs", ~q.related, Found(r, q),
         NEW items, items = IF q.filtered THEN PageOf(MatchingJobs(q), q.page, PageSize)
                            ELSE GetJobs(q.state, (q.page - 1) * PageSize,
                                         (q.page - 1) * PageSize + PageSize - 1)
  PROVE  /\ items \in Seq(Jobs) /\ Distinct(items) /\ Len(items) <= PageSize
         /\ q.filtered => ToSet(items) \subseteq Matching
         /\ q.filtered => \A j \in Stable(r, q) : In(j, q.state) =>
              j \in ToSet(items) \/ q.page > 1 \/ Len(items) = PageSize
<1>1. TypeOK /\ OnePlace
  BY DEF Inv
<1>2. q.page \in Nat \ {0} /\ q.state \in QueueJobState /\ PageSize \in Nat \ {0}
  BY Types, BoundsAssumption DEF Read
<1>3. CASE ~q.filtered
  <2>1. PICK start : start = (q.page - 1) * PageSize
    OBVIOUS
  <2>2. start \in Nat
    <3>1. q.page - 1 \in Nat
      BY <1>2
    <3>2. QED BY <3>1, <2>1, <1>2
  <2>3. items = GetJobs(q.state, start, start + PageSize - 1)
    BY <2>1, <1>3
  <2>4. start + PageSize - 1 \in Int /\ start <= start + PageSize - 1
    BY <2>2, <1>2
  <2>5. /\ items \in Seq(Jobs) /\ Distinct(items)
        /\ IsSlice(items, queue[q.state], start + 1, start + PageSize - 1 + 1)
    BY <2>2, <2>3, <2>4, <1>1, <1>2, GetJobsProperties
  <2>6. Len(items) <= PageSize
    <3>1. start + 1 <= start + PageSize - 1 + 1 + 1 /\ Len(items) \in Nat
      BY <2>2, <2>5, <1>2, LenProperties
    <3>2. Len(items) <= (start + PageSize - 1 + 1) + 1 - (start + 1)
      BY <3>1, <2>5 DEF IsSlice
    <3>3. QED BY <3>1, <3>2, <2>2, <1>2
  <2>7. QED BY <2>5, <2>6, <1>3
<1>4. CASE q.filtered
  <2>1. PICK m : m = MatchingJobs(q)
    OBVIOUS
  <2>2. m \in Seq(Jobs) /\ IsMatching(m, q)
    BY <2>1, <1>1, MatchingJobsProperties
  <2>3. items = PageOf(m, q.page, PageSize)
    BY <2>1, <1>4
  <2>4. /\ items \in Seq(Jobs) /\ Len(items) <= PageSize
        /\ \A e \in ToSet(items) : e \in ToSet(m)
        /\ Distinct(m) => Distinct(items)
        /\ q.page = 1 => IsSlice(items, m, 1, PageSize)
    BY <2>2, <2>3, <1>2, PageProperties
  <2>5. \A e \in ToSet(m) : e \in Matching
    BY <2>2, Members DEF IsMatching
  <2>6. ASSUME NEW j \in Stable(r, q), In(j, q.state), ~(q.page > 1)
        PROVE  j \in ToSet(items) \/ Len(items) = PageSize
    <3>1. q.page = 1
      BY <2>6, <1>2
    <3>2. PICK i \in 1..Len(queue[q.state]) : i <= q.count /\ queue[q.state][i] = j
      BY <2>6, <1>4 DEF Found
    <3>3. \E k \in 1..Len(m) : m[k] = j
      BY <3>2, <2>2, <2>6 DEF IsMatching, Stable
    <3>4. j \in ToSet(m)
      BY <3>3, <2>2, Members
    <3>5. QED BY <3>1, <3>4, <2>2, <2>4, <1>2, FirstPageIsFull
  <2>7. QED BY <2>2, <2>4, <2>5, <2>6 DEF IsMatching
<1>5. QED BY <1>3, <1>4

LEMMA ReadPageInv ==
  ASSUME Inv, NEW r \in Readers, ReadPage(r)
  PROVE  Inv'
<1>1. PICK q : q = read[r]
  OBVIOUS
<1>2. PICK items : items = IF q.filtered THEN PageOf(MatchingJobs(q), q.page, PageSize)
                           ELSE GetJobs(q.state, (q.page - 1) * PageSize,
                                        (q.page - 1) * PageSize + PageSize - 1)
  OBVIOUS
<1>3. PICK total : total = IF q.filtered THEN Len(MatchingJobs(q)) ELSE q.count
  OBVIOUS
<1>4. PICK n : n = [q EXCEPT !.pc = "answer", !.items = items, !.total = total]
  OBVIOUS
<1>5. /\ q.pc = "jobs" /\ ~q.related /\ Reply(r, n)
      /\ UNCHANGED <<queue, paused, added, op, notes>>
  BY <1>1, <1>2, <1>3, <1>4 DEF ReadPage
<1>6. q \in Read /\ Found(r, q) /\ TypeOK /\ OnePlace
  BY <1>1, <1>5, InFlightReads DEF Inv
<1>7. /\ items \in Seq(Jobs) /\ Distinct(items) /\ Len(items) <= PageSize
      /\ q.filtered => ToSet(items) \subseteq Matching
      /\ q.filtered => \A j \in Stable(r, q) : In(j, q.state) =>
           j \in ToSet(items) \/ q.page > 1 \/ Len(items) = PageSize
  BY <1>2, <1>5, <1>6, PageItems
<1>8. total \in 0..Cardinality(Jobs)
  <2>1. MatchingJobs(q) \in Seq(Jobs) /\ Distinct(MatchingJobs(q))
    BY <1>6, MatchingJobsProperties DEF IsMatching
  <2>2. Len(MatchingJobs(q)) \in 0..Cardinality(Jobs)
    BY <2>1, DistinctIsShort
  <2>3. q.count \in 0..Cardinality(Jobs)
    BY <1>6 DEF Read
  <2>4. QED BY <2>2, <2>3, <1>3
<1>9. /\ n \in Read /\ n.pc = "answer" /\ n.items = items /\ n.related = q.related
      /\ n.filtered = q.filtered /\ n.page = q.page /\ n.state = q.state /\ n.hidden = q.hidden
  BY <1>4, <1>6, <1>7, <1>8 DEF Read
<1>10. ReadShaped(n)
  BY <1>5, <1>7, <1>9 DEF ReadShaped
<1>11. ShownOnce(r, n)
  <2>1. Len(items) \in Nat
    BY <1>7, LenProperties
  <2>2. \A i, k \in 1..Len(items) : ~(i < k /\ items[i] = items[k])
    BY <2>1, <1>7 DEF Distinct
  <2>3. QED BY <2>2, <1>9 DEF ShownOnce
<1>12. Found(r, n)
  BY <1>5, <1>7, <1>9 DEF Found, Stable
<1>13. QED BY <1>5, <1>9, <1>10, <1>11, <1>12, ReaderKeeps

(* After a state of a related-jobs listing comes the next in the order.    *)
LEMMA ThroughNext ==
  ASSUME NEW q \in Read, NEW n \in Read
  PROVE  /\ q.state \in QueueJobState /\ q.state \notin Through(q)
         /\ Index(q.state) + 1 <= 5 /\ n.state = RelatedOrder[Index(q.state) + 1] =>
              Through(n) = Through(q) \cup {q.state}
         /\ Index(q.state) + 1 > 5 => QueueJobState = Through(q) \cup {q.state}
<1> DEFINE x == Index(q.state)
<1>1. q.state \in QueueJobState /\ x \in 1..5 /\ RelatedOrder[x] = q.state
  BY RelatedStates DEF Read
<1>2. Through(q) = {RelatedOrder[i] : i \in 1..(x - 1)}
  BY DEF Through
<1> HIDE DEF x
<1>3. q.state \notin Through(q)
  <2>1. SUFFICES ASSUME NEW i \in 1..(x - 1), RelatedOrder[i] = q.state PROVE FALSE
    BY <1>2
  <2>2. i \in 1..5 /\ i # x
    BY <1>1
  <2>3. Index(RelatedOrder[i]) = i /\ Index(RelatedOrder[x]) = x
    BY <2>2, <1>1, RelatedStates
  <2>4. QED BY <2>1, <2>2, <2>3, <1>1
<1>4. Through(q) \cup {q.state} = {RelatedOrder[i] : i \in 1..x}
  <2>1. 1..x = (1..(x - 1)) \cup {x}
    BY <1>1
  <2>2. QED BY <2>1, <1>1, <1>2
<1>5. ASSUME x + 1 <= 5, n.state = RelatedOrder[x + 1]
      PROVE  Through(n) = Through(q) \cup {q.state}
  <2>1. x + 1 \in 1..5 /\ (x + 1) - 1 = x
    BY <1>1, <1>5
  <2>2. Index(n.state) = x + 1
    BY <2>1, <1>5, RelatedStates
  <2>3. Index(n.state) - 1 = x
    BY <2>1, <2>2
  <2>4. Through(n) = {RelatedOrder[i] : i \in 1..x}
    BY <2>3 DEF Through
  <2>5. QED BY <2>4, <1>4
<1>6. ASSUME x + 1 > 5
      PROVE  QueueJobState = Through(q) \cup {q.state}
  <2>1. x = 5
    BY <1>1, <1>6
  <2>2. QueueJobState = {RelatedOrder[i] : i \in 1..5}
    <3>1. \A s \in QueueJobState : \E i \in 1..5 : RelatedOrder[i] = s
      BY RelatedStates
    <3>2. \A i \in 1..5 : RelatedOrder[i] \in QueueJobState
      BY RelatedStates
    <3>3. QED BY <3>1, <3>2
  <2>3. QED BY <2>1, <2>2, <1>4
<1>7. QED BY <1>1, <1>3, <1>5, <1>6 DEF x

LEMMA JoinProperties ==
  ASSUME NEW S, NEW head \in Seq(S), NEW rest \in Seq(S)
  PROVE  /\ head \o rest \in Seq(S) /\ Len(head \o rest) = Len(head) + Len(rest)
         /\ \A i \in 1..Len(head) : i \in 1..Len(head \o rest) /\ (head \o rest)[i] = head[i]
         /\ \A i \in 1..Len(rest) :
              i + Len(head) \in 1..Len(head \o rest) /\ (head \o rest)[i + Len(head)] = rest[i]
         /\ \A i \in 1..Len(head \o rest) :
              \/ i \in 1..Len(head) /\ (head \o rest)[i] = head[i]
              \/ /\ i > Len(head) /\ i - Len(head) \in 1..Len(rest)
                 /\ (head \o rest)[i] = rest[i - Len(head)]
<1>1. PICK t : t = head \o rest
  OBVIOUS
<1>2. /\ t \in Seq(S) /\ Len(t) = Len(head) + Len(rest)
      /\ \A i \in 1..(Len(head) + Len(rest)) :
           t[i] = IF i <= Len(head) THEN head[i] ELSE rest[i - Len(head)]
  BY <1>1, ConcatProperties
<1>3. PICK m, n : m = Len(head) /\ n = Len(rest)
  OBVIOUS
<1>4. m \in Nat /\ n \in Nat
  BY <1>3, LenProperties
<1>5. /\ Len(t) = m + n
      /\ \A i \in 1..(m + n) : t[i] = IF i <= m THEN head[i] ELSE rest[i - m]
  BY <1>2, <1>3
<1>6. \A i \in 1..m : i \in 1..(m + n) /\ t[i] = head[i]
  BY <1>4, <1>5
<1>7. \A i \in 1..n : i + m \in 1..(m + n) /\ t[i + m] = rest[i]
  <2>1. SUFFICES ASSUME NEW i \in 1..n PROVE i + m \in 1..(m + n) /\ t[i + m] = rest[i]
    OBVIOUS
  <2>2. i + m \in 1..(m + n) /\ ~(i + m <= m) /\ i + m - m = i
    BY <1>4
  <2>3. PICK k \in Int : k = i + m
    BY <1>4
  <2>4. k \in 1..(m + n) /\ ~(k <= m) /\ k - m = i
    BY <2>3, <1>4
  <2>5. t[k] = rest[k - m]
    BY <2>4, <1>4, <1>5
  <2>6. QED BY <2>2, <2>3, <2>4, <2>5
<1>8. \A i \in 1..(m + n) : \/ i \in 1..m /\ t[i] = head[i]
                            \/ i > m /\ i - m \in 1..n /\ t[i] = rest[i - m]
  BY <1>4, <1>5
<1>9. QED BY <1>1, <1>2, <1>3, <1>6, <1>7, <1>8

(* The items of a related-jobs listing after one more state.               *)
WithMore(q) == q.items \o Slice(PageOf(MatchingJobs(q), 1, PanelLimit), 1, Room(q.items))

LEMMA MoreItems ==
  ASSUME Inv, NEW r \in Readers, NEW q \in Read, q.pc = "jobs", q.related,
         ReadShaped(q), ShownOnce(r, q), Found(r, q)
  PROVE  /\ WithMore(q) \in Seq(Jobs) /\ Len(WithMore(q)) <= PanelLimit
         /\ ToSet(WithMore(q)) \subseteq Matching
         /\ \A i, k \in 1..Len(WithMore(q)) :
              i < k /\ WithMore(q)[i] = WithMore(q)[k] => WithMore(q)[i] \in moved[r]
         /\ \A j \in ToSet(WithMore(q)) \ moved[r] :
              \E s \in Through(q) \cup {q.state} : In(j, s)
         /\ \A s \in Through(q) \cup {q.state}, j \in Stable(r, q) : In(j, s) =>
              j \in ToSet(WithMore(q)) \/ Len(WithMore(q)) = PanelLimit
<1>1. TypeOK /\ OnePlace /\ PanelLimit \in Nat \ {0} /\ Matching \subseteq Jobs
  BY Types DEF Inv
<1>2. /\ q.items \in Seq(Jobs) /\ q.state \in QueueJobState /\ q.state \notin Through(q)
      /\ Through(q) \subseteq QueueJobState
  BY ThroughNext, ThroughStates DEF Read
<1>3. PICK old : old = q.items
  OBVIOUS
<1>4. PICK m : m = MatchingJobs(q)
  OBVIOUS
<1>5. PICK found : found = PageOf(m, 1, PanelLimit)
  OBVIOUS
<1>6. PICK room : room = PanelLimit - Len(old)
  OBVIOUS
<1>7. PICK new : new = Slice(found, 1, room)
  OBVIOUS
<1>8. PICK items : items = old \o new
  OBVIOUS
<1>9. m \in Seq(Jobs) /\ IsMatching(m, q)
  BY <1>1, <1>4, MatchingJobsProperties
<1>10. /\ found \in Seq(Jobs) /\ Len(found) <= PanelLimit
       /\ \A e \in ToSet(found) : e \in ToSet(m)
       /\ Distinct(found) /\ IsSlice(found, m, 1, PanelLimit)
  <2>1. 1 \in Nat \ {0} /\ Distinct(m)
    BY <1>9 DEF IsMatching
  <2>2. QED BY <2>1, <1>1, <1>5, <1>9, PageProperties
<1>11. /\ old \in Seq(Jobs) /\ Len(old) \in Nat /\ Len(old) < PanelLimit
       /\ ToSet(old) \subseteq Matching
  BY <1>2, <1>3, LenProperties DEF ReadShaped
<1>12. room \in Nat /\ room <= PanelLimit /\ Len(old) + room = PanelLimit
  BY <1>1, <1>6, <1>11
<1>13. new \in Seq(Jobs) /\ IsSlice(new, found, 1, room) /\ Len(new) \in Nat
  <2>1. new \in Seq(Jobs) /\ IsSlice(new, found, 1, room)
    BY <1>7, <1>10, <1>12, SliceProperties
  <2>2. QED BY <2>1, LenProperties
<1>14. Distinct(new)
  BY <1>10, <1>13 DEF IsSlice
<1>15. Len(new) <= room
  <2>1. 1 <= room + 1
    BY <1>12
  <2>2. Len(new) <= room + 1 - 1
    BY <2>1, <1>13 DEF IsSlice
  <2>3. QED BY <2>2, <1>12
<1>16. \A k \in 1..Len(new) : new[k] \in ToSet(found)
  <2>1. \A k \in 1..Len(new) : \E i \in 1..Len(found) : new[k] = found[i]
    BY <1>13 DEF IsSlice
  <2>2. QED BY <2>1, <1>10, Members
<1>17. \A k \in 1..Len(new) : new[k] \in Matching /\ In(new[k], q.state)
  <2>1. \A e \in ToSet(m) : e \in Matching /\ In(e, q.state)
    BY <1>9, Members DEF IsMatching
  <2>2. QED BY <2>1, <1>10, <1>16
<1>18. /\ items \in Seq(Jobs) /\ Len(items) = Len(old) + Len(new)
       /\ \A i \in 1..Len(old) : i \in 1..Len(items) /\ items[i] = old[i]
       /\ \A i \in 1..Len(new) : i + Len(old) \in 1..Len(items) /\ items[i + Len(old)] = new[i]
       /\ \A i \in 1..Len(items) :
            \/ i \in 1..Len(old) /\ items[i] = old[i]
            \/ /\ i > Len(old) /\ i - Len(old) \in 1..Len(new)
               /\ items[i] = new[i - Len(old)]
  BY <1>8, <1>11, <1>13, JoinProperties
<1>19. Len(items) <= PanelLimit
  BY <1>1, <1>11, <1>12, <1>13, <1>15, <1>18
<1>20. \A i \in 1..Len(old) : old[i] \in ToSet(old)
  BY <1>11, Members
<1>21. \A e \in ToSet(items) : e \in ToSet(old) \/ (e \in Matching /\ In(e, q.state))
  <2>1. ASSUME NEW i \in 1..Len(items)
        PROVE  items[i] \in ToSet(old) \/ (items[i] \in Matching /\ In(items[i], q.state))
    <3>1. CASE i \in 1..Len(old) /\ items[i] = old[i]
      BY <3>1, <1>20
    <3>2. CASE i - Len(old) \in 1..Len(new) /\ items[i] = new[i - Len(old)]
      BY <3>2, <1>17
    <3>3. QED BY <3>1, <3>2, <1>18
  <2>2. QED BY <2>1, <1>18, Members
<1>22. ToSet(items) \subseteq Matching
  BY <1>11, <1>21
<1>23. \A j \in ToSet(old) \ moved[r] : \E s \in Through(q) : In(j, s)
  BY <1>3 DEF ShownOnce
<1>24. ASSUME NEW i \in 1..Len(items), NEW k \in 1..Len(items), i < k, items[i] = items[k]
       PROVE  items[i] \in moved[r]
  <2>1. CASE k \in 1..Len(old)
    <3>1. i \in 1..Len(old) /\ k \in 1..Len(old)
      BY <2>1, <1>11, <1>24
    <3>2. QED BY <3>1, <1>3, <1>18, <1>24 DEF ShownOnce
  <2>2. CASE i \notin 1..Len(old) /\ k \notin 1..Len(old)
    <3>1. /\ i - Len(old) \in 1..Len(new) /\ items[i] = new[i - Len(old)]
          /\ k - Len(old) \in 1..Len(new) /\ items[k] = new[k - Len(old)]
      BY <2>2, <1>18
    <3>2. i - Len(old) # k - Len(old)
      BY <1>11, <1>24
    <3>3. QED BY <3>1, <3>2, <1>14, <1>24 DEF Distinct
  <2>3. CASE i \in 1..Len(old) /\ k \notin 1..Len(old)
    <3>1. items[i] \in ToSet(old)
      BY <2>3, <1>18, <1>20
    <3>2. items[i] \in Matching /\ In(items[i], q.state)
      BY <2>3, <1>17, <1>18, <1>24
    <3>3. SUFFICES ASSUME items[i] \notin moved[r] PROVE FALSE
      OBVIOUS
    <3>4. PICK s \in Through(q) : In(items[i], s)
      BY <3>1, <3>3, <1>23
    <3>5. s = q.state
      BY <3>2, <3>4, <1>1, <1>2 DEF OnePlace
    <3>6. QED BY <3>4, <3>5, <1>2
  <2>4. QED BY <2>1, <2>2, <2>3
<1>25. ASSUME NEW s \in Through(q) \cup {q.state}, NEW j \in Stable(r, q), In(j, s)
       PROVE  j \in ToSet(items) \/ Len(items) = PanelLimit
  <2>1. CASE s \in Through(q)
    <3>1. q.filtered
      BY DEF ReadShaped
    <3>2. j \in ToSet(old)
      BY <2>1, <3>1, <1>3, <1>25 DEF Found
    <3>3. PICK i \in 1..Len(old) : old[i] = j
      BY <3>2, <1>11, Members
    <3>4. i \in 1..Len(items) /\ items[i] = j
      BY <3>3, <1>11, <1>13, <1>18
    <3>5. QED BY <3>4, <1>18, Members
  <2>2. CASE s = q.state
    <3>1. q.filtered
      BY DEF ReadShaped
    <3>2. PICK i \in 1..Len(queue[q.state]) : i <= q.count /\ queue[q.state][i] = j
      BY <2>2, <3>1, <1>25 DEF Found
    <3>3. \E k \in 1..Len(m) : m[k] = j
      BY <3>2, <1>9, <1>25 DEF IsMatching, Stable
    <3>4. j \in ToSet(m)
      BY <3>3, <1>9, Members
    <3>5. Len(found) <= PanelLimit /\ (j \in ToSet(found) \/ Len(found) = PanelLimit)
      BY <3>4, <1>1, <1>9, <1>10, FirstPageIsFull
    <3>6. CASE j \in ToSet(found)
      <4>1. j \in ToSet(new) \/ Len(new) = room
        BY <3>6, <1>10, <1>12, <1>13, FirstPageIsFull
      <4>2. CASE j \in ToSet(new)
        <5>1. PICK k \in 1..Len(new) : new[k] = j
          BY <4>2, <1>13, Members
        <5>2. k + Len(old) \in 1..Len(items) /\ items[k + Len(old)] = j
          BY <5>1, <1>18
        <5>3. QED BY <5>2, <1>18, Members
      <4>3. QED BY <4>1, <4>2, <1>12, <1>18
    <3>7. CASE Len(found) = PanelLimit
      <4>1. CASE room = 0
        BY <4>1, <1>1, <1>11, <1>12, <1>13, <1>15, <1>18
      <4>2. CASE room # 0
        <5>1. room \in 1..Len(found) /\ 1 <= room /\ room <= room /\ room + 1 - 1 = room
          BY <4>2, <3>7, <1>1, <1>12
        <5>2. room \in 1..Len(new)
          BY <5>1, <1>13 DEF IsSlice
        <5>3. Len(new) = room
          BY <5>2, <1>12, <1>13, <1>15
        <5>4. QED BY <5>3, <1>12, <1>18
      <4>3. QED BY <4>1, <4>2
    <3>8. QED BY <3>5, <3>6, <3>7
  <2>3. QED BY <2>1, <2>2
<1>26. \A j \in ToSet(items) \ moved[r] : \E s \in Through(q) \cup {q.state} : In(j, s)
  BY <1>21, <1>23
<1>27. WithMore(q) = items
  BY <1>3, <1>4, <1>5, <1>6, <1>7, <1>8 DEF WithMore, Room
<1>28. QED BY <1>18, <1>19, <1>22, <1>24, <1>25, <1>26, <1>27

LEMMA ReadRelatedInv ==
  ASSUME Inv, NEW r \in Readers, ReadRelated(r)
  PROVE  Inv'
<1>1. PICK q : q = read[r]
  OBVIOUS
<1>2. PICK items : items = WithMore(q)
  OBVIOUS
<1>3. PICK x : x = Index(q.state) + 1
  OBVIOUS
<1>4. PICK n : n = IF Len(items) >= PanelLimit \/ x > Len(RelatedOrder)
                   THEN [q EXCEPT !.pc = "answer", !.items = items]
                   ELSE [q EXCEPT !.pc = "counts", !.items = items, !.state = RelatedOrder[x]]
  OBVIOUS
<1>5. /\ q.pc = "jobs" /\ q.related /\ Reply(r, n)
      /\ UNCHANGED <<queue, paused, added, op, notes>>
  BY <1>1, <1>2, <1>3, <1>4 DEF ReadRelated, WithMore
<1>6. q \in Read /\ ReadShaped(q) /\ ShownOnce(r, q) /\ Found(r, q) /\ PanelLimit \in Nat \ {0}
  BY <1>1, <1>5, InFlightReads, Types
<1>7. /\ items \in Seq(Jobs) /\ Len(items) <= PanelLimit /\ ToSet(items) \subseteq Matching
      /\ \A i, k \in 1..Len(items) : i < k /\ items[i] = items[k] => items[i] \in moved[r]
      /\ \A j \in ToSet(items) \ moved[r] : \E s \in Through(q) \cup {q.state} : In(j, s)
      /\ \A s \in Through(q) \cup {q.state}, j \in Stable(r, q) : In(j, s) =>
           j \in ToSet(items) \/ Len(items) = PanelLimit
  BY <1>2, <1>5, <1>6, MoreItems
<1>8. Len(items) \in Nat
  BY <1>7, LenProperties
<1>9. q.state \in QueueJobState /\ x \in 2..6
  <2>1. q.state \in QueueJobState
    BY <1>6 DEF Read
  <2>2. Index(q.state) \in 1..5
    BY <2>1, RelatedStates
  <2>3. QED BY <2>1, <2>2, <1>3
<1>10. CASE Len(items) >= PanelLimit \/ x > Len(RelatedOrder)
  <2>1. n = [q EXCEPT !.pc = "answer", !.items = items]
    BY <1>4, <1>10
  <2>2. /\ n \in Read /\ n.pc = "answer" /\ n.items = items /\ n.related = q.related
        /\ n.filtered = q.filtered /\ n.page = q.page /\ n.state = q.state
        /\ Stable(r, n) = Stable(r, q)
    BY <2>1, <1>6, <1>7 DEF Read, Stable
  <2>3. ReadShaped(n)
    BY <2>2, <1>5, <1>6, <1>7 DEF ReadShaped
  <2>4. ShownOnce(r, n)
    BY <2>2, <1>7 DEF ShownOnce
  <2>5. Found(r, n)
    <3>1. ASSUME NEW j \in Stable(r, q), Exists(j)
          PROVE  j \in ToSet(items) \/ Len(items) = PanelLimit
      <4>1. CASE Len(items) >= PanelLimit
        BY <4>1, <1>6, <1>7, <1>8
      <4>2. CASE x > Len(RelatedOrder)
        <5>1. Index(q.state) + 1 > 5
          BY <4>2, <1>3, RelatedStates
        <5>2. QueueJobState = Through(q) \cup {q.state}
          BY <5>1, <1>6, ThroughNext
        <5>3. PICK s \in Through(q) \cup {q.state} : In(j, s)
          BY <3>1, <5>2 DEF Exists
        <5>4. QED BY <3>1, <5>3, <1>7
      <4>3. QED BY <4>1, <4>2, <1>10
    <3>2. QED BY <3>1, <2>2, <1>5 DEF Found
  <2>6. QED BY <2>2, <2>3, <2>4, <2>5, <1>5, ReaderKeeps
<1>11. CASE ~(Len(items) >= PanelLimit \/ x > Len(RelatedOrder))
  <2>1. n = [q EXCEPT !.pc = "counts", !.items = items, !.state = RelatedOrder[x]]
    BY <1>4, <1>11
  <2>2. x \in 1..5 /\ RelatedOrder[x] \in QueueJobState
    <3>1. x \in 1..5
      BY <1>9, <1>11, RelatedStates
    <3>2. QED BY <3>1, RelatedStates
  <2>3. /\ n \in Read /\ n.pc = "counts" /\ n.items = items /\ n.related = q.related
        /\ n.filtered = q.filtered /\ n.page = q.page /\ n.state = RelatedOrder[x]
        /\ Stable(r, n) = Stable(r, q)
    BY <2>1, <2>2, <1>6, <1>7 DEF Read, Stable
  <2>4. Through(n) = Through(q) \cup {q.state}
    <3>1. Index(q.state) + 1 <= 5 /\ n.state = RelatedOrder[Index(q.state) + 1]
      BY <2>2, <2>3, <1>3
    <3>2. QED BY <3>1, <2>3, <1>6, ThroughNext
  <2>5. Len(items) < PanelLimit
    BY <1>6, <1>8, <1>11
  <2>6. ReadShaped(n)
    BY <2>3, <2>5, <1>5, <1>6, <1>7 DEF ReadShaped
  <2>7. ShownOnce(r, n)
    BY <2>3, <2>4, <1>7 DEF ShownOnce
  <2>8. Found(r, n)
    <3>1. \A s \in Through(n), j \in Stable(r, n) : In(j, s) => j \in ToSet(n.items)
      <4>1. Len(items) # PanelLimit
        BY <2>5, <1>6, <1>8
      <4>2. QED BY <4>1, <2>3, <2>4, <1>7
    <3>2. QED BY <3>1, <2>3, <1>5 DEF Found
  <2>9. QED BY <2>3, <2>6, <2>7, <2>8, <1>5, ReaderKeeps
<1>12. QED BY <1>10, <1>11

-----------------------------------------------------------------------------
(* The steps of an operator.                                               *)

LEMMA InFlightOps ==
  ASSUME Inv, NEW o \in Operators,
         op[o].pc \in {"find", "apply", "select", "retry", "answer"}
  PROVE  /\ op[o] \in Op /\ op[o] # Idle
         /\ OpShaped(op[o]) /\ OpCounts(op[o]) /\ OpPossible(o, op[o])
<1>1. op[o] # Idle
  BY DEF Idle
<1>2. op[o] \in Op
  BY <1>1, Types
<1>3. QED BY <1>1, <1>2 DEF Inv, OpsRight

(* The fields of a request, with their types.                              *)
LEMMA OpFields ==
  ASSUME NEW q \in Op
  PROVE  /\ q.pc \in {"find", "apply", "select", "retry", "answer"}
         /\ \/ q.action \in JobActions \/ q.action = "retry-failed"
            \/ q.action \in {"pause", "resume", "empty", "clean"}
         /\ q.todo \in Seq(Jobs) /\ Len(q.todo) \in Nat
         /\ q.count \in 0..Cardinality(Jobs) /\ Cardinality(Jobs) \in Nat /\ q.count \in Nat
         /\ q.status \in {"ok", "unknown", "rejected", "down"}
         /\ q.done \subseteq Jobs /\ IsFiniteSet(q.done) /\ Cardinality(q.done) \in Nat
<1>1. /\ q.pc \in {"find", "apply", "select", "retry", "answer"}
      /\ q.todo \in Seq(Jobs) /\ q.count \in 0..Cardinality(Jobs)
      /\ q.status \in {"ok", "unknown", "rejected", "down"} /\ q.done \subseteq Jobs
  BY DEF Op
<1>2. \/ q.action \in JobActions \/ q.action = "retry-failed"
      \/ q.action \in {"pause", "resume", "empty", "clean"}
  BY DEF Op, JobActions
<1>3. Cardinality(Jobs) \in Nat
  BY JobsAssumption, FS_CardinalityType
<1>4. IsFiniteSet(q.done) /\ Cardinality(q.done) \in Nat
  BY <1>1, JobsAssumption, FS_Subset, FS_CardinalityType
<1>5. Len(q.todo) \in Nat
  BY <1>1, LenProperties
<1>6. QED BY <1>1, <1>2, <1>3, <1>4, <1>5

LEMMA StartQueueActionInv ==
  ASSUME Inv, NEW o \in Operators, StartQueueAction(o)
  PROVE  Inv'
<1>1. /\ UNCHANGED <<queue, paused, added, read, notes>> /\ paused' \in BOOLEAN
      /\ <<>> \in Seq(Jobs)
  BY EmptySeq DEF StartQueueAction, Inv, TypeOK, QueueTypeOK
<1>2. ASSUME NEW action \in {"pause", "resume", "empty", "clean"},
             Step(o, NewOp(action, "apply", <<>>, TRUE))
      PROVE  Inv'
  <2>1. PICK n : n = NewOp(action, "apply", <<>>, TRUE)
    OBVIOUS
  <2>2. /\ n \in Op /\ n.pc = "apply" /\ n.action = action /\ n.status = "ok"
        /\ n.done = {}
    BY <2>1, <1>1, NothingCounted DEF NewOp, Op
  <2>3. n.action \notin JobActions /\ n.action # "retry-failed"
    BY <2>2 DEF JobActions
  <2>4. OpShaped(n) /\ OpCounts(n) /\ OpPossible(o, n)
    BY <2>2, <2>3 DEF OpShaped, OpCounts, OpPossible
  <2>5. QED BY <2>1, <2>2, <2>4, <1>1, <1>2, OperatorWaits
<1>3. ASSUME Step(o, NewOp("retry-failed", "select", <<>>, TRUE))
      PROVE  Inv'
  <2>1. PICK n : n = NewOp("retry-failed", "select", <<>>, TRUE)
    OBVIOUS
  <2>2. /\ n \in Op /\ n.pc = "select" /\ n.action = "retry-failed" /\ n.status = "ok"
        /\ n.done = {}
    BY <2>1, <1>1, NothingCounted DEF NewOp, Op
  <2>3. n.action \notin JobActions
    BY <2>2 DEF JobActions
  <2>4. OpShaped(n) /\ OpCounts(n) /\ OpPossible(o, n)
    BY <2>2, <2>3 DEF OpShaped, OpCounts, OpPossible
  <2>5. QED BY <2>1, <2>2, <2>4, <1>1, <1>3, OperatorWaits
<1>4. QED BY <1>2, <1>3 DEF StartQueueAction

LEMMA StartJobActionInv ==
  ASSUME Inv, NEW o \in Operators, StartJobAction(o)
  PROVE  Inv'
<1>1. UNCHANGED <<queue, paused, added, read, notes>> /\ paused' \in BOOLEAN
  BY DEF StartJobAction, Inv, TypeOK, QueueTypeOK
<1>2. PICK action \in {"retry", "remove", "promote"}, j \in Jobs :
        Step(o, NewOp(action, "find", <<j>>, Accepts(action, j)))
  BY DEF StartJobAction
<1>3. PICK n : n = NewOp(action, "find", <<j>>, Accepts(action, j))
  OBVIOUS
<1>4. <<j>> \in Seq(Jobs) /\ <<j>>[1] = j /\ Accepts(action, j) \in BOOLEAN
  <2>1. Accepts(action, j) \in BOOLEAN
    <3>1. /\ In(j, "failed") \in BOOLEAN /\ In(j, "delayed") \in BOOLEAN
          /\ (Exists(j) /\ ~In(j, "active")) \in BOOLEAN
      BY DEF In, Contains
    <3>2. /\ action = "retry" => Accepts(action, j) = In(j, "failed")
          /\ action = "remove" => Accepts(action, j) = (Exists(j) /\ ~In(j, "active"))
          /\ action = "promote" => Accepts(action, j) = In(j, "delayed")
      BY DEF Accepts
    <3>3. QED BY <3>1, <3>2
  <2>2. QED BY <2>1
<1>5. /\ n \in Op /\ n.pc = "find" /\ n.action = action /\ n.status = "ok"
      /\ n.done = {} /\ n.todo = <<j>> /\ n.possible = Accepts(action, j)
  BY <1>3, <1>4, NothingCounted DEF NewOp, Op
<1>6. n.action \in JobActions
  BY <1>5 DEF JobActions
<1>7. OpShaped(n)
  BY <1>5, <1>6 DEF OpShaped, JobActions
<1>8. OpCounts(n)
  BY <1>5 DEF OpCounts
<1>9. OpPossible(o, n)
  <2>1. n.possible => Accepts(n.action, n.todo[1])
    BY <1>4, <1>5
  <2>2. QED BY <2>1, <1>5 DEF OpPossible
<1>10. QED BY <1>1, <1>2, <1>3, <1>5, <1>7, <1>8, <1>9, OperatorWaits

LEMMA DownInv ==
  ASSUME Inv, NEW o \in Operators, Down(o)
  PROVE  Inv'
<1>1. PICK q : q = op[o]
  OBVIOUS
<1>2. PICK n : n = [q EXCEPT !.pc = "answer", !.status = "down"]
  OBVIOUS
<1>3. /\ q.pc \in {"find", "apply", "select", "retry"} /\ Step(o, n)
      /\ UNCHANGED <<queue, paused, added, read, notes>> /\ paused' \in BOOLEAN
  BY <1>1, <1>2 DEF Down, Inv, TypeOK, QueueTypeOK
<1>4. q \in Op /\ OpShaped(q)
  BY <1>1, <1>3, InFlightOps
<1>5. n \in Op /\ n.pc = "answer" /\ n.status = "down" /\ n.action = q.action /\ n.todo = q.todo
  BY <1>2, <1>4 DEF Op
<1>6. OpShaped(n) /\ OpCounts(n) /\ OpPossible(o, n)
  BY <1>4, <1>5 DEF OpShaped, OpCounts, OpPossible
<1>7. QED BY <1>3, <1>5, <1>6, OperatorWaits

LEMMA FindJobInv ==
  ASSUME Inv, NEW o \in Operators, FindJob(o)
  PROVE  Inv'
<1>1. PICK q : q = op[o]
  OBVIOUS
<1>2. q.pc = "find"
  BY <1>1 DEF FindJob
<1>3. q \in Op /\ OpShaped(q) /\ OpCounts(q) /\ OpPossible(o, q)
  BY <1>1, <1>2, InFlightOps
<1>4. q.action \in JobActions /\ q.status = "ok"
  BY <1>2, <1>3, OpFields DEF OpShaped
<1>5. PICK j \in Jobs : q.todo = <<j>>
  BY <1>3, <1>4 DEF OpShaped
<1>6. q.todo[1] = j /\ Head(q.todo) = j /\ q.todo # <<>>
  BY <1>5
<1>7. PICK n : n = IF Exists(j) THEN [q EXCEPT !.pc = "apply"]
                   ELSE [q EXCEPT !.pc = "answer", !.status = "unknown"]
  OBVIOUS
<1>8. /\ Step(o, n) /\ UNCHANGED <<queue, paused, added, read, notes>> /\ paused' \in BOOLEAN
  BY <1>1, <1>6, <1>7 DEF FindJob, Inv, TypeOK, QueueTypeOK
<1>9. q.done = {} /\ (q.possible => Accepts(q.action, j) \/ j \in moved[o])
  BY <1>2, <1>3, <1>4, <1>6 DEF OpPossible
<1>10. CASE Exists(j)
  <2>1. /\ n \in Op /\ n.pc = "apply" /\ n.action = q.action /\ n.status = q.status
        /\ n.todo = q.todo /\ n.done = q.done /\ n.possible = q.possible
    BY <1>3, <1>7, <1>10 DEF Op
  <2>2. OpShaped(n) /\ OpCounts(n)
    BY <2>1, <1>3, <1>4 DEF OpShaped, OpCounts, JobActions
  <2>3. OpPossible(o, n)
    BY <2>1, <1>4, <1>6, <1>9 DEF OpPossible, JobActions
  <2>4. QED BY <2>1, <2>2, <2>3, <1>8, OperatorWaits
<1>11. CASE ~Exists(j)
  <2>1. /\ n \in Op /\ n.pc = "answer" /\ n.action = q.action /\ n.status = "unknown"
        /\ n.todo = q.todo /\ n.done = q.done /\ n.possible = q.possible
    BY <1>3, <1>7, <1>11 DEF Op
  <2>2. ~Accepts(q.action, j)
    BY <1>4, <1>11 DEF JobActions, Accepts, Exists, QueueJobState
  <2>3. OpShaped(n) /\ OpCounts(n)
    BY <2>1, <1>3, <1>4 DEF OpShaped, OpCounts, JobActions
  <2>4. OpPossible(o, n)
    BY <2>1, <2>2, <1>6, <1>9 DEF OpPossible
  <2>5. QED BY <2>1, <2>3, <2>4, <1>8, OperatorWaits
<1>12. QED BY <1>10, <1>11

LEMMA ApplyToJobInv ==
  ASSUME Inv, NEW o \in Operators, ApplyToJob(o)
  PROVE  Inv'
<1>1. PICK q : q = op[o]
  OBVIOUS
<1>2. q.pc = "apply" /\ q.action \in JobActions
  BY <1>1 DEF ApplyToJob, JobActions
<1>3. q \in Op /\ OpShaped(q) /\ OpCounts(q) /\ OpPossible(o, q) /\ TypeOK /\ OnePlace
  BY <1>1, <1>2, InFlightOps DEF Inv
<1>4. q.status = "ok"
  BY <1>2, <1>3, OpFields DEF OpShaped
<1>5. PICK j \in Jobs : q.todo = <<j>>
  BY <1>2, <1>3 DEF OpShaped
<1>6. q.todo[1] = j /\ Head(q.todo) = j /\ q.todo # <<>>
  BY <1>5
<1>7. q.done = {} /\ (q.possible => Accepts(q.action, j) \/ j \in moved[o])
  BY <1>2, <1>3, <1>6 DEF OpPossible
<1>8. UNCHANGED <<paused, added, read>> /\ paused' \in BOOLEAN
  BY <1>3 DEF ApplyToJob, TypeOK, QueueTypeOK
<1>9. CASE Accepts(q.action, j)
  <2>1. PICK n : n = [q EXCEPT !.pc = "answer", !.done = {j}]
    OBVIOUS
  <2>2. queue' = Applied(q.action, j) /\ Note({j}) /\ UNCHANGED pushed /\ Step(o, n)
    BY <2>1, <1>1, <1>6, <1>9 DEF ApplyToJob
  <2>3. Shift({j}, {})
    BY <2>2, <1>2, <1>3, <1>9, AppliedShift
  <2>4. moved' \in [Slots -> SUBSET Jobs] /\ \A s \in Slots : Noted(s, {j})
    BY <2>2, <1>3, NotedMoves
  <2>5. /\ n \in Op /\ n.pc = "answer" /\ n.action = q.action /\ n.status = "ok" /\ n.todo = q.todo
    BY <2>1, <1>3, <1>4 DEF Op
  <2>6. OpShaped(n) /\ OpCounts(n) /\ OpPossible(o, n)'
    BY <2>5, <1>2, <1>3 DEF OpShaped, OpCounts, OpPossible, JobActions
  <2>7. QED BY <2>2, <2>3, <2>4, <2>5, <2>6, <1>8, OperatorKeeps
<1>10. CASE ~Accepts(q.action, j)
  <2>1. PICK n : n = [q EXCEPT !.pc = "answer", !.status = "rejected"]
    OBVIOUS
  <2>2. UNCHANGED <<queue, notes>> /\ Step(o, n)
    BY <2>1, <1>1, <1>6, <1>10 DEF ApplyToJob
  <2>3. /\ n \in Op /\ n.pc = "answer" /\ n.action = q.action /\ n.status = "rejected"
        /\ n.todo = q.todo /\ n.done = {} /\ n.possible = q.possible
    BY <2>1, <1>3, <1>7 DEF Op
  <2>4. OpShaped(n) /\ OpCounts(n)
    BY <2>3, <1>2, <1>3 DEF OpShaped, OpCounts, JobActions
  <2>5. OpPossible(o, n)
    BY <2>3, <1>6, <1>7, <1>10 DEF OpPossible
  <2>6. QED BY <2>2, <2>3, <2>4, <2>5, <1>8, OperatorWaits
<1>11. QED BY <1>9, <1>10

(* The jobs that there are leave, and no other job is there.               *)
LEMMA EmptiedShift ==
  ASSUME TypeOK, OnePlace, NEW js, js = {j \in Jobs : Exists(j)}, queue' = Removed(Jobs)
  PROVE  Shift(js, {})
<1>1. Shift(Jobs, {})
  BY RemovedShift
<1>2. queue \in [QueueJobState -> Seq(Jobs)]
  BY DEF TypeOK, QueueTypeOK
<1>3. \A s \in QueueJobState, j \in Jobs : ~Contains(queue'[s], j)
  <2>1. ASSUME NEW s \in QueueJobState, NEW j \in Jobs
        PROVE  ~Contains(queue'[s], j)
    <3>1. PICK t : t = Kept(queue[s], Jobs \ Jobs)
      OBVIOUS
    <3>2. queue[s] \in Seq(Jobs)
      BY <1>2
    <3>3. IsKept(t, queue[s], Jobs \ Jobs)
      BY <3>1, <3>2, KeptProperties
    <3>4. queue'[s] = t
      BY <3>1 DEF Removed
    <3>5. \A k \in 1..Len(t) : t[k] \in Jobs \ Jobs
      BY <3>3 DEF IsKept
    <3>6. QED BY <3>4, <3>5 DEF Contains
  <2>2. QED BY <2>1
<1>4. \A s \in QueueJobState, j \in Jobs \ js : Contains(queue'[s], j) <=> In(j, s)
  BY <1>3 DEF Exists
<1>5. \A s \in QueueJobState : \A i \in 1..Len(queue[s]) : queue[s][i] \in js
  <2>1. SUFFICES ASSUME NEW s \in QueueJobState, NEW i \in 1..Len(queue[s])
                 PROVE  queue[s][i] \in js
    OBVIOUS
  <2>2. queue[s][i] \in Jobs
    BY <1>2, ElementOfSeq
  <2>3. In(queue[s][i], s)
    BY DEF In, Contains
  <2>4. QED BY <2>2, <2>3 DEF Exists
<1>6. QED BY <1>1, <1>4, <1>5 DEF Shift

LEMMA ApplyToQueueInv ==
  ASSUME Inv, NEW o \in Operators, ApplyToQueue(o)
  PROVE  Inv'
<1>1. PICK q : q = op[o]
  OBVIOUS
<1>2. q.pc = "apply" /\ UNCHANGED <<added, read>>
  BY <1>1 DEF ApplyToQueue
<1>3. q \in Op /\ OpShaped(q) /\ OpCounts(q) /\ OpPossible(o, q) /\ TypeOK /\ OnePlace
  BY <1>1, <1>2, InFlightOps DEF Inv
<1>4. q.status = "ok"
  BY <1>2, <1>3, OpFields DEF OpShaped
<1>5. PICK n : n = [q EXCEPT !.pc = "answer"]
  OBVIOUS
<1>6. /\ n \in Op /\ n.pc = "answer" /\ n.action = q.action /\ n.status = "ok"
      /\ n.todo = q.todo
  BY <1>3, <1>4, <1>5 DEF Op
<1>7. ASSUME q.action \in {"pause", "resume", "empty"}
      PROVE  OpShaped(n) /\ OpCounts(n) /\ OpPossible(o, n)
  BY <1>6, <1>7 DEF OpShaped, OpCounts, OpPossible, JobActions
<1>8. CASE /\ q.action \in {"pause", "resume"}
           /\ paused' = (q.action = "pause")
           /\ Step(o, n)
           /\ UNCHANGED <<queue, notes>>
  <2>1. paused' \in BOOLEAN
    BY <1>8
  <2>2. QED BY <2>1, <1>2, <1>6, <1>7, <1>8, OperatorWaits
<1>9. CASE /\ q.action = "empty"
           /\ queue' = Removed(Jobs)
           /\ paused' = FALSE
           /\ Step(o, n)
           /\ Note({j \in Jobs : Exists(j)}) /\ UNCHANGED pushed
  <2>1. PICK js : js = {j \in Jobs : Exists(j)}
    OBVIOUS
  <2>2. js \in SUBSET Jobs
    BY <2>1
  <2>3. Shift(js, {})
    BY <2>1, <1>3, <1>9, EmptiedShift
  <2>4. moved' \in [Slots -> SUBSET Jobs] /\ \A s \in Slots : Noted(s, js)
    BY <2>1, <2>2, <1>3, <1>9, NotedMoves
  <2>5. OpPossible(o, n)'
    BY <1>6 DEF OpPossible
  <2>6. paused' \in BOOLEAN
    BY <1>9
  <2>7. QED BY <2>3, <2>4, <2>5, <2>6, <1>2, <1>6, <1>7, <1>9, OperatorKeeps
<1>10. ASSUME q.action = "clean", UNCHANGED <<paused, pushed>>,
              NEW state \in QueueJobState, NEW cleaned, cleaned = Slice(Reached(state), 1, Limit),
              queue' = Removed(ToSet(cleaned)), Note(ToSet(cleaned)),
              Step(o, [q EXCEPT !.pc = "answer", !.count = Len(cleaned),
                                !.done = ToSet(cleaned)])
       PROVE  Inv'
  <2>1. Reached(state) \in Seq(Jobs) /\ Distinct(Reached(state)) /\ Limit \in Nat \ {0}
    <3>1. queue[state] \in Seq(Jobs) /\ Distinct(queue[state]) /\ Limit \in Nat \ {0}
      BY <1>3, Types DEF TypeOK, QueueTypeOK, OnePlace
    <3>2. <<>> \in Seq(Jobs) /\ Distinct(<<>>)
      BY EmptySeq DEF Distinct
    <3>3. QED BY <3>1, <3>2 DEF Reached
  <2>2. cleaned \in Seq(Jobs) /\ IsSlice(cleaned, Reached(state), 1, Limit)
    <3>1. 1 \in Nat \ {0} /\ Limit \in Nat
      BY <2>1
    <3>2. /\ Slice(Reached(state), 1, Limit) \in Seq(Jobs)
          /\ IsSlice(Slice(Reached(state), 1, Limit), Reached(state), 1, Limit)
      BY <3>1, <2>1, SliceProperties
    <3>3. QED BY <3>2, <1>10
  <2>3. Distinct(cleaned)
    BY <2>1, <2>2 DEF IsSlice
  <2>4. Len(cleaned) \in 0..Cardinality(Jobs) /\ Cardinality(ToSet(cleaned)) = Len(cleaned)
    BY <2>2, <2>3, DistinctIsShort
  <2>5. ToSet(cleaned) \in SUBSET Jobs
    BY <2>2, Members
  <2>6. Shift(ToSet(cleaned), {})
    BY <1>3, <1>10, RemovedShift
  <2>7. moved' \in [Slots -> SUBSET Jobs] /\ \A s \in Slots : Noted(s, ToSet(cleaned))
    BY <2>5, <1>3, <1>10, NotedMoves
  <2>8. PICK c : c = [q EXCEPT !.pc = "answer", !.count = Len(cleaned), !.done = ToSet(cleaned)]
    OBVIOUS
  <2>9. /\ c \in Op /\ c.pc = "answer" /\ c.action = "clean" /\ c.status = "ok"
        /\ c.count = Len(cleaned) /\ c.done = ToSet(cleaned)
    BY <2>4, <2>5, <2>8, <1>3, <1>4, <1>10 DEF Op
  <2>10. OpShaped(c) /\ OpCounts(c) /\ OpPossible(o, c)'
    BY <2>4, <2>9 DEF OpShaped, OpCounts, OpPossible, JobActions
  <2>11. Step(o, c) /\ paused' \in BOOLEAN
    BY <2>8, <1>3, <1>10 DEF TypeOK, QueueTypeOK
  <2>12. UNCHANGED <<added, read, pushed>>
    BY <1>2, <1>10
  <2>13. QED BY <2>6, <2>7, <2>9, <2>10, <2>11, <2>12, OperatorKeeps
<1>11. CASE /\ q.action = "clean" /\ UNCHANGED <<paused, pushed>>
            /\ \E state \in QueueJobState \ {"active"} :
                 LET cleaned == Slice(Reached(state), 1, Limit)
                 IN  /\ queue' = Removed(ToSet(cleaned))
                     /\ Step(o, [q EXCEPT !.pc = "answer", !.count = Len(cleaned),
                                          !.done = ToSet(cleaned)])
                     /\ Note(ToSet(cleaned))
  BY <1>10, <1>11
<1>12. QED BY <1>1, <1>5, <1>8, <1>9, <1>11 DEF ApplyToQueue

LEMMA SelectFailedInv ==
  ASSUME Inv, NEW o \in Operators, SelectFailed(o)
  PROVE  Inv'
<1>1. PICK q : q = op[o]
  OBVIOUS
<1>2. PICK jobs : jobs = GetJobs("failed", 0, Limit - 1)
  OBVIOUS
<1>3. PICK n : n = [q EXCEPT !.pc = "retry", !.todo = jobs, !.count = Len(jobs)]
  OBVIOUS
<1>4. /\ q.pc = "select" /\ Step(o, n)
      /\ UNCHANGED <<queue, paused, added, read, notes>> /\ paused' \in BOOLEAN
  BY <1>1, <1>2, <1>3 DEF SelectFailed, Inv, TypeOK, QueueTypeOK
<1>5. q \in Op /\ OpShaped(q) /\ OpCounts(q) /\ TypeOK /\ OnePlace /\ Limit \in Nat \ {0}
  BY <1>1, <1>4, InFlightOps, Types DEF Inv
<1>6. q.action = "retry-failed" /\ q.status = "ok" /\ q.done = {}
  BY <1>4, <1>5, OpFields DEF OpShaped, OpCounts
<1>7. "failed" \in QueueJobState /\ Limit - 1 \in Int /\ 0 <= Limit - 1
  BY <1>5 DEF QueueJobState
<1>8. /\ jobs \in Seq(Jobs) /\ Distinct(jobs)
      /\ IsSlice(jobs, queue["failed"], 0 + 1, Limit - 1 + 1)
  BY <1>2, <1>5, <1>7, GetJobsProperties
<1>9. Len(jobs) \in 0..Cardinality(Jobs) /\ Len(jobs) \in Nat
  BY <1>8, DistinctIsShort, LenProperties
<1>10. \A j \in ToSet(jobs) : In(j, "failed")
  <2>1. \A k \in 1..Len(jobs) : \E i \in 1..Len(queue["failed"]) : queue["failed"][i] = jobs[k]
    BY <1>8 DEF IsSlice
  <2>2. QED BY <2>1, <1>8, Members DEF In, Contains
<1>11. /\ n \in Op /\ n.pc = "retry" /\ n.action = "retry-failed" /\ n.status = "ok"
       /\ n.todo = jobs /\ n.count = Len(jobs) /\ n.done = {}
  BY <1>3, <1>5, <1>6, <1>8, <1>9 DEF Op
<1>12. OpShaped(n)
  BY <1>11 DEF OpShaped, JobActions
<1>13. OpCounts(n)
  <2>1. n.count = Cardinality(n.done) + Len(n.todo)
    BY <1>9, <1>11, FS_EmptySet
  <2>2. QED BY <2>1, <1>8, <1>11 DEF OpCounts
<1>14. OpPossible(o, n)
  BY <1>10, <1>11 DEF OpPossible, JobActions
<1>15. QED BY <1>4, <1>11, <1>12, <1>13, <1>14, OperatorWaits

LEMMA RetryDoneInv ==
  ASSUME Inv, NEW o \in Operators, RetryDone(o)
  PROVE  Inv'
<1>1. PICK q : q = op[o]
  OBVIOUS
<1>2. PICK n : n = [q EXCEPT !.pc = "answer"]
  OBVIOUS
<1>3. /\ q.pc = "retry" /\ q.todo = <<>> /\ Step(o, n)
      /\ UNCHANGED <<queue, paused, added, read, notes>> /\ paused' \in BOOLEAN
  BY <1>1, <1>2 DEF RetryDone, Inv, TypeOK, QueueTypeOK
<1>4. q \in Op /\ OpShaped(q) /\ OpCounts(q)
  BY <1>1, <1>3, InFlightOps
<1>5. q.action = "retry-failed" /\ q.status = "ok"
  BY <1>3, <1>4, OpFields DEF OpShaped
<1>6. /\ n \in Op /\ n.pc = "answer" /\ n.action = q.action /\ n.status = q.status
      /\ n.todo = q.todo /\ n.count = q.count /\ n.done = q.done
  BY <1>2, <1>4 DEF Op
<1>7. OpShaped(n)
  BY <1>5, <1>6 DEF OpShaped, JobActions
<1>8. OpCounts(n)
  BY <1>3, <1>4, <1>5, <1>6 DEF OpCounts
<1>9. OpPossible(o, n)
  BY <1>5, <1>6 DEF OpPossible, JobActions
<1>10. QED BY <1>3, <1>6, <1>7, <1>8, <1>9, OperatorWaits

LEMMA RetryNextInv ==
  ASSUME Inv, NEW o \in Operators, RetryNext(o)
  PROVE  Inv'
<1>1. PICK q : q = op[o]
  OBVIOUS
<1>2. PICK j : j = Head(q.todo)
  OBVIOUS
<1>3. q.pc = "retry" /\ q.todo # <<>>
  BY <1>1 DEF RetryNext
<1>4. q \in Op /\ OpShaped(q) /\ OpCounts(q) /\ OpPossible(o, q) /\ TypeOK /\ OnePlace
  BY <1>1, <1>3, InFlightOps DEF Inv
<1>5. q.action = "retry-failed" /\ q.status = "ok"
  BY <1>3, <1>4, OpFields DEF OpShaped
<1>6. /\ Distinct(q.todo) /\ q.done \cap ToSet(q.todo) = {}
      /\ q.count = Cardinality(q.done) + Len(q.todo)
      /\ \A i \in ToSet(q.todo) : In(i, "failed") \/ i \in moved[o]
  BY <1>3, <1>4, <1>5 DEF OpCounts, OpPossible
<1>7. /\ q.todo \in Seq(Jobs) /\ Len(q.todo) \in Nat /\ q.count \in Nat
      /\ q.done \subseteq Jobs /\ IsFiniteSet(q.done) /\ Cardinality(q.done) \in Nat
  BY <1>4, OpFields
<1>8. PICK rest : rest = Tail(q.todo)
  OBVIOUS
<1>9. /\ Len(q.todo) \in Nat \ {0} /\ j = q.todo[1] /\ j \in Jobs
      /\ rest \in Seq(Jobs) /\ Len(rest) = Len(q.todo) - 1
      /\ \A i \in 1..Len(rest) : rest[i] = q.todo[i + 1]
  <2>1. Len(q.todo) # 0
    BY <1>3, <1>7, EmptySeq
  <2>2. j = q.todo[1]
    BY <1>2
  <2>3. QED BY <2>1, <2>2, <1>2, <1>3, <1>7, <1>8, HeadTailProperties
<1>10. j \in ToSet(q.todo)
  <2>1. 1 \in 1..Len(q.todo)
    BY <1>9
  <2>2. QED BY <2>1, <1>7, <1>9, Members
<1>11. UNCHANGED <<paused, added, read>> /\ paused' \in BOOLEAN
  BY <1>4 DEF RetryNext, TypeOK, QueueTypeOK
<1>12. CASE Accepts("retry", j)
  <2>1. PICK n : n = [q EXCEPT !.todo = rest, !.done = q.done \cup {j}]
    OBVIOUS
  <2>2. queue' = Applied("retry", j) /\ Note({j}) /\ UNCHANGED pushed /\ Step(o, n)
    BY <2>1, <1>1, <1>2, <1>8, <1>12 DEF RetryNext
  <2>3. Shift({j}, {})
    BY <2>2, <1>4, <1>9, <1>12, AppliedShift DEF JobActions
  <2>4. moved' \in [Slots -> SUBSET Jobs] /\ \A s \in Slots : Noted(s, {j})
    BY <2>2, <1>4, <1>9, NotedMoves
  <2>5. /\ n \in Op /\ n.pc = "retry" /\ n.action = "retry-failed" /\ n.status = "ok"
        /\ n.todo = rest /\ n.count = q.count /\ n.done = q.done \cup {j}
    BY <2>1, <1>3, <1>4, <1>5, <1>7, <1>9 DEF Op
  <2>6. \A i \in 1..Len(rest) : i + 1 \in 1..Len(q.todo) /\ i + 1 # 1 /\ rest[i] = q.todo[i + 1]
    BY <1>9
  <2>7. Distinct(rest)
    <3>1. SUFFICES ASSUME NEW i \in 1..Len(rest), NEW k \in 1..Len(rest), rest[i] = rest[k]
                   PROVE  i = k
      BY DEF Distinct
    <3>2. i + 1 = k + 1
      BY <3>1, <2>6, <1>6 DEF Distinct
    <3>3. i \in Int /\ k \in Int
      BY <1>9
    <3>4. QED BY <3>2, <3>3
  <2>8. \A i \in ToSet(rest) : i \in ToSet(q.todo) /\ i # j
    <3>1. ASSUME NEW k \in 1..Len(rest)
          PROVE  rest[k] \in ToSet(q.todo) /\ rest[k] # j
      <4>1. k + 1 \in 1..Len(q.todo) /\ k + 1 # 1 /\ 1 \in 1..Len(q.todo)
        BY <2>6, <1>9
      <4>2. q.todo[k + 1] \in ToSet(q.todo) /\ q.todo[k + 1] # q.todo[1]
        BY <4>1, <1>6, <1>7, Members DEF Distinct
      <4>3. QED BY <4>2, <2>6, <1>9
    <3>2. QED BY <3>1, <1>9, Members
  <2>9. OpShaped(n)
    BY <2>5 DEF OpShaped, JobActions
  <2>10. OpCounts(n)
    <3>1. Cardinality(q.done \cup {j}) = Cardinality(q.done) + 1
      BY <1>6, <1>7, <1>10, FS_AddElement
    <3>2. n.count = Cardinality(n.done) + Len(n.todo)
      BY <3>1, <2>5, <1>6, <1>7, <1>9
    <3>3. n.done \cap ToSet(n.todo) = {}
      BY <2>5, <2>8, <1>6
    <3>4. QED BY <3>2, <3>3, <2>5, <2>7 DEF OpCounts
  <2>11. OpPossible(o, n)'
    <3>1. ASSUME NEW i \in ToSet(rest)
          PROVE  In(i, "failed")' \/ i \in moved'[o]
      <4>1. i \in Jobs \ {j} /\ "failed" \in QueueJobState
        BY <3>1, <2>8, <1>9, Members DEF QueueJobState
      <4>2. In(i, "failed") \/ i \in moved[o]
        BY <3>1, <2>8, <1>6
      <4>3. moved[o] \subseteq moved'[o]
        BY <2>4 DEF Noted, Slots
      <4>4. QED BY <4>1, <4>2, <4>3, <2>3, ShiftKeeps
    <3>2. QED BY <3>1, <2>5 DEF OpPossible, JobActions, In
  <2>12. QED BY <2>2, <2>3, <2>4, <2>5, <2>9, <2>10, <2>11, <1>11, OperatorKeeps
<1>13. CASE ~Accepts("retry", j)
  <2>1. PICK n : n = [q EXCEPT !.pc = "answer", !.status = "rejected"]
    OBVIOUS
  <2>2. UNCHANGED <<queue, notes>> /\ Step(o, n)
    BY <2>1, <1>1, <1>2, <1>13 DEF RetryNext
  <2>3. /\ n \in Op /\ n.pc = "answer" /\ n.action = "retry-failed" /\ n.status = "rejected"
        /\ n.todo = q.todo /\ n.done = q.done
    BY <2>1, <1>4, <1>5 DEF Op
  <2>4. OpShaped(n) /\ OpCounts(n)
    BY <2>3 DEF OpShaped, OpCounts, JobActions
  <2>5. j \in moved[o] \ q.done
    <3>1. ~In(j, "failed")
      BY <1>13 DEF Accepts
    <3>2. QED BY <3>1, <1>6, <1>10
  <2>6. OpPossible(o, n)
    BY <2>3, <2>5, <1>3, <1>9 DEF OpPossible
  <2>7. QED BY <2>2, <2>3, <2>4, <2>6, <1>11, OperatorWaits
<1>14. QED BY <1>12, <1>13

-----------------------------------------------------------------------------
(* The invariant holds at the start, and every step keeps it.              *)

LEMMA SetToSeqProperties ==
  ASSUME NEW S, IsFiniteSet(S)
  PROVE  SetToSeq(S) \in Seq(S) /\ Distinct(SetToSeq(S))
<1> DEFINE n == Cardinality(S)
<1>1. n \in Nat /\ ExistsBijection(1..n, S)
  BY FS_CardinalityType
<1>2. \E f \in [1..n -> S] : IsInjective(f)
  BY <1>1 DEF ExistsBijection, Bijection, Injection
<1>3. PICK t : t = SetToSeq(S)
  OBVIOUS
<1>4. t \in [1..n -> S] /\ IsInjective(t)
  BY <1>2, <1>3 DEF SetToSeq
<1> HIDE DEF n
<1>5. t \in Seq(S) /\ Len(t) = n /\ DOMAIN t = 1..Len(t)
  BY <1>1, <1>4
<1>6. Distinct(t)
  BY <1>4, <1>5 DEF IsInjective, Distinct
<1>7. QED BY <1>3, <1>5, <1>6

LEMMA InitInv == Init => Inv
<1>1. SUFFICES ASSUME Init PROVE Inv
  OBVIOUS
<1>2. added \subseteq Jobs
  BY <1>1 DEF Init
<1>3. PICK place \in [added -> QueueJobState] :
        queue = [s \in QueueJobState |-> SetToSeq({j \in added : place[j] = s})]
  BY <1>1 DEF Init
<1> DEFINE at(s) == {j \in added : place[j] = s}
<1>4. \A s \in QueueJobState : IsFiniteSet(at(s)) /\ at(s) \subseteq Jobs
  <2>1. \A s \in QueueJobState : at(s) \subseteq Jobs
    BY <1>2
  <2> HIDE DEF at
  <2>2. QED BY <2>1, JobsAssumption, FS_Subset
<1>5. \A s, t \in QueueJobState, j \in Jobs : j \in at(s) /\ j \in at(t) => s = t
  OBVIOUS
<1>6. queue = [s \in QueueJobState |-> SetToSeq(at(s))]
  BY <1>3
<1> HIDE DEF at
<1>7. \A s \in QueueJobState : SetToSeq(at(s)) \in Seq(at(s)) /\ Distinct(SetToSeq(at(s)))
  BY <1>4, SetToSeqProperties
<1>8. \A s \in QueueJobState : queue[s] \in Seq(at(s)) /\ Distinct(queue[s])
  BY <1>6, <1>7
<1>9. \A s \in QueueJobState : \A i \in 1..Len(queue[s]) : queue[s][i] \in at(s)
  BY <1>8, ElementOfSeq
<1>10. \A s \in QueueJobState : queue[s] \in Seq(Jobs)
  <2>1. ASSUME NEW s \in QueueJobState
        PROVE  queue[s] \in Seq(Jobs)
    <3>1. PICK t : t = queue[s]
      OBVIOUS
    <3>2. Len(t) \in Nat /\ t \in [1..Len(t) -> at(s)]
      BY <3>1, <1>8, LenProperties
    <3>3. t \in [1..Len(t) -> Jobs]
      BY <3>2, <1>4
    <3>4. QED BY <3>1, <3>2, <3>3
  <2>2. QED BY <2>1
<1>11. queue \in [QueueJobState -> Seq(Jobs)]
  BY <1>6, <1>10
<1>12. OnePlace
  <2>1. \A s \in QueueJobState, j \in Jobs : In(j, s) => j \in at(s)
    BY <1>9 DEF In, Contains
  <2>2. QED BY <2>1, <1>5, <1>8 DEF OnePlace
<1>13. TypeOK
  BY <1>1, <1>2, <1>11 DEF Init, TypeOK, QueueTypeOK
<1>14. OpsRight /\ ReadsRight
  BY <1>1 DEF Init, OpsRight, ReadsRight
<1>15. QED BY <1>12, <1>13, <1>14 DEF Inv

LEMMA StutterInv ==
  ASSUME Inv, UNCHANGED vars
  PROVE  Inv'
<1>1. TypeOK /\ OnePlace /\ queue' = queue /\ paused' = paused /\ added' = added
      /\ read' = read /\ op' = op /\ moved' = moved /\ pushed' = pushed
  BY DEF Inv, vars, notes
<1>2. Shift({}, {}) /\ PushesNoted({})
  BY <1>1, NoShift, NoPushes
<1>3. \A s \in Slots : Noted(s, {})
  BY <1>1 DEF Noted
<1>4. /\ paused' \in BOOLEAN /\ added' \subseteq Jobs /\ moved' \in [Slots -> SUBSET Jobs]
      /\ read' \in [Readers -> Read \cup {Idle}] /\ op' \in [Operators -> Op \cup {Idle}]
  BY <1>1 DEF TypeOK, QueueTypeOK
<1>5. (\A r \in Readers : read'[r] = read[r] /\ Noted(r, {}))
      /\ \A o \in Operators : op'[o] = op[o] /\ Noted(o, {})
  BY <1>1, <1>3 DEF Slots
<1>6. QED BY <1>2, <1>4, <1>5, Keeps

LEMMA NextInv == Inv /\ [Next]_vars => Inv'
<1>1. SUFFICES ASSUME Inv, [Next]_vars PROVE Inv'
  OBVIOUS
<1>2. CASE \E j \in Jobs : Host(j)
  BY <1>1, <1>2, HostInv
<1>3. ASSUME NEW r \in Readers, ListJobs(r) \/ ListRelatedJobs(r) \/ ReadStep(r)
      PROVE  Inv'
  BY <1>1, <1>3, ListJobsInv, ListRelatedJobsInv, ReadCountsInv, ReadPageInv, ReadRelatedInv
     DEF ReadStep
<1>4. ASSUME NEW o \in Operators,
             StartQueueAction(o) \/ StartJobAction(o) \/ OpStep(o) \/ Down(o)
      PROVE  Inv'
  <2>1. CASE OpStep(o)
    BY <2>1, <1>1, ApplyToQueueInv, SelectFailedInv, RetryNextInv, RetryDoneInv, FindJobInv,
       ApplyToJobInv DEF OpStep
  <2>2. QED BY <2>1, <1>1, <1>4, StartQueueActionInv, StartJobActionInv, DownInv
<1>5. CASE \E s \in Slots : TakeAnswer(s)
  BY <1>1, <1>5, TakeAnswerInv
<1>6. CASE UNCHANGED vars
  BY <1>1, <1>6, StutterInv
<1>7. QED BY <1>1, <1>2, <1>3, <1>4, <1>5, <1>6 DEF Next

(* A job is in one place of the queue, and every request in flight may go  *)
(* on relying on what it found, as far as its jobs have not been moved by  *)
(* somebody else.                                                          *)
THEOREM Invariance == Spec => []Inv
BY InitInv, NextInv, PTL DEF Spec

(* Queue, requests and history keep their types: no count and no list of   *)
(* jobs outgrows the jobs that there are.                                  *)
THEOREM TypeCorrect == Spec => []TypeOK
<1>1. Inv => TypeOK
  BY DEF Inv
<1>2. QED BY <1>1, Invariance, PTL

-----------------------------------------------------------------------------
(* What the invariant says of the answers.                                 *)

(* A listing finds every job that matches and that has stayed where it was *)
(* since the request came in, unless its page or panel is full: the count  *)
(* that was read before the jobs, and the states that were read one after  *)
(* the other, do not let a job slip through because others come and go.    *)
(* What it may miss are jobs that another was put before, once counted,    *)
(* and the waiting jobs of a queue that was paused when they were counted. *)
THEOREM ListingsFindStableJobs == Spec => []StableJobsAreFound
<1>1. Inv => StableJobsAreFound
  <2>1. SUFFICES ASSUME Inv, NEW r \in Readers, Answered(r), read[r].filtered,
                        NEW j \in Stable(r, read[r]),
                        IF read[r].related THEN Exists(j) ELSE In(j, read[r].state)
                 PROVE  \/ j \in ToSet(read[r].items)
                        \/ read[r].related /\ Len(read[r].items) = PanelLimit
                        \/ ~read[r].related
                             /\ (read[r].page > 1 \/ Len(read[r].items) = PageSize)
    BY DEF StableJobsAreFound
  <2>2. PICK q : q = read[r]
    OBVIOUS
  <2>3. q.pc = "answer" /\ q.filtered
    BY <2>1, <2>2 DEF Answered
  <2>4. Found(r, q)
    BY <2>1, <2>2, <2>3, InFlightReads
  <2>5. QED BY <2>1, <2>2, <2>3, <2>4 DEF Found
<1>2. QED BY <1>1, Invariance, PTL

(* A filtered listing shows matching jobs only, never more than its page   *)
(* or panel holds, and the same job twice only if that job has moved while *)
(* the listing was read.                                                   *)
THEOREM ListingsAreSound == Spec => []ListingIsSound
<1>1. Inv => ListingIsSound
  <2>1. SUFFICES ASSUME Inv, NEW r \in Readers, Answered(r)
                 PROVE  /\ read[r].filtered => ToSet(read[r].items) \subseteq Matching
                        /\ Len(read[r].items)
                             <= (IF read[r].related THEN PanelLimit ELSE PageSize)
                        /\ \A i, k \in DOMAIN read[r].items :
                             i < k /\ read[r].items[i] = read[r].items[k] =>
                               read[r].items[i] \in moved[r]
    BY DEF ListingIsSound
  <2>2. PICK q : q = read[r]
    OBVIOUS
  <2>3. q \in Read /\ ReadShaped(q) /\ ShownOnce(r, q)
    BY <2>1, <2>2, InFlightReads DEF Answered
  <2>4. DOMAIN q.items = 1..Len(q.items)
    BY <2>3, LenProperties DEF Read
  <2>5. QED BY <2>2, <2>3, <2>4 DEF ReadShaped, ShownOnce
<1>2. QED BY <1>1, Invariance, PTL

(* The number that clean and retry-failed answer, and that the audit log   *)
(* keeps, is the number of jobs this request removed or retried.           *)
THEOREM CountsAreOfWhatWasDone == Spec => []CountIsDone
<1>1. Inv => CountIsDone
  <2>1. SUFFICES ASSUME Inv, NEW o \in Operators, op[o].pc = "answer", op[o].status = "ok",
                        op[o].action \in {"clean", "retry-failed"}
                 PROVE  op[o].count = Cardinality(op[o].done)
    BY DEF CountIsDone
  <2>2. PICK q : q = op[o]
    OBVIOUS
  <2>3. q \in Op /\ OpCounts(q)
    BY <2>1, <2>2, InFlightOps
  <2>4. CASE q.action = "clean"
    BY <2>1, <2>2, <2>3, <2>4 DEF OpCounts
  <2>5. CASE q.action = "retry-failed"
    <3>1. q.todo = <<>> /\ q.count = Cardinality(q.done) + Len(q.todo)
      BY <2>1, <2>2, <2>3, <2>5 DEF OpCounts
    <3>2. Len(q.todo) = 0 /\ Cardinality(q.done) \in Nat
      BY <3>1, <2>3, OpFields, EmptySeq
    <3>3. QED BY <3>1, <3>2, <2>2
  <2>6. QED BY <2>1, <2>2, <2>4, <2>5
<1>2. QED BY <1>1, Invariance, PTL

(* An operator who is told that a job is unknown, or that it cannot be     *)
(* acted on, though it could when the request came in (or though the       *)
(* request itself selected it), was overtaken: somebody else has moved or  *)
(* removed that job since, it is not this request that did.                *)
THEOREM RefusalsComeFromRaces == Spec => []RefusalsAreRaces
<1>1. Inv => RefusalsAreRaces
  <2>1. SUFFICES ASSUME Inv, NEW o \in Operators, op[o].pc = "answer",
                        op[o].status \in {"unknown", "rejected"}, op[o].possible
                 PROVE  Head(op[o].todo) \in moved[o] \ op[o].done
    BY DEF RefusalsAreRaces
  <2>2. PICK q : q = op[o]
    OBVIOUS
  <2>3. q \in Op /\ OpPossible(o, q)
    BY <2>1, <2>2, InFlightOps
  <2>4. q.todo # <<>> /\ q.todo[1] \in moved[o] \ q.done
    BY <2>1, <2>2, <2>3 DEF OpPossible
  <2>5. Head(q.todo) = q.todo[1]
    BY <2>3, <2>4, OpFields
  <2>6. QED BY <2>2, <2>4, <2>5
<1>2. QED BY <1>1, Invariance, PTL

-----------------------------------------------------------------------------
(* The pages.                                                              *)

-----------------------------------------------------------------------------
(* The lists of requests in flight: one is dropped, one is added, or each  *)
(* is changed where it stands.                                             *)

(* RemoveAt keeps the order of the others.                                 *)
LEMMA RemoveAtProperties ==
  ASSUME NEW S, NEW s \in Seq(S), NEW i \in 1..Len(s)
  PROVE  /\ RemoveAt(s, i) \in Seq(S)
         /\ Len(RemoveAt(s, i)) = Len(s) - 1
         /\ \A k \in 1..(Len(s) - 1) :
              RemoveAt(s, i)[k] = IF k < i THEN s[k] ELSE s[k + 1]
<1>1. Len(s) \in Nat /\ i \in Int /\ i >= 1 /\ i <= Len(s)
  BY LenProperties
<1>2. \A k \in 1..Len(s) : s[k] \in S
  BY ElementOfSeq
<1> DEFINE a == SubSeq(s, 1, i - 1)
           b == SubSeq(s, i + 1, Len(s))
<1>3. /\ a \in Seq(S) /\ Len(a) = i - 1
      /\ \A k \in 1..(i - 1) : a[k] = s[k]
  <2>1. \A k \in 1..(i - 1) : s[k] \in S
    BY <1>1, <1>2
  <2>2. /\ a \in Seq(S)
        /\ Len(a) = IF 1 <= i - 1 THEN (i - 1) - 1 + 1 ELSE 0
        /\ \A k \in 1..((i - 1) - 1 + 1) : a[k] = s[1 + k - 1]
    BY <2>1, <1>1, SubSeqProperties
  <2>3. QED BY <2>2, <1>1
<1>4. /\ b \in Seq(S) /\ Len(b) = Len(s) - i
      /\ \A k \in 1..(Len(s) - i) : b[k] = s[i + k]
  <2>1. \A k \in (i + 1)..Len(s) : s[k] \in S
    BY <1>1, <1>2
  <2>2. /\ b \in Seq(S)
        /\ Len(b) = IF i + 1 <= Len(s) THEN Len(s) - (i + 1) + 1 ELSE 0
        /\ \A k \in 1..(Len(s) - (i + 1) + 1) : b[k] = s[(i + 1) + k - 1]
    BY <2>1, <1>1, SubSeqProperties
  <2>3. QED BY <2>2, <1>1
<1> HIDE DEF a, b
<1>5. /\ a \o b \in Seq(S)
      /\ Len(a \o b) = Len(a) + Len(b)
      /\ \A k \in 1..(Len(a) + Len(b)) :
           (a \o b)[k] = IF k <= Len(a) THEN a[k] ELSE b[k - Len(a)]
  BY <1>3, <1>4, ConcatProperties
<1>6. RemoveAt(s, i) = a \o b
  BY DEF RemoveAt, a, b
<1>7. Len(RemoveAt(s, i)) = Len(s) - 1
  <2>1. Len(a) = i - 1 /\ Len(b) = Len(s) - i /\ Len(a \o b) = Len(a) + Len(b)
    BY <1>3, <1>4, <1>5
  <2>2. Len(a \o b) = Len(s) - 1
    BY <2>1, <1>1
  <2>3. QED BY <2>2, <1>6
<1>8. ASSUME NEW k \in 1..(Len(s) - 1)
      PROVE  RemoveAt(s, i)[k] = IF k < i THEN s[k] ELSE s[k + 1]
  <2>1. CASE k < i
    <3>1. k <= Len(a) /\ k \in 1..(i - 1) /\ k \in 1..(Len(a) + Len(b))
      BY <2>1, <1>1, <1>3, <1>4
    <3>2. QED BY <3>1, <2>1, <1>3, <1>5, <1>6
  <2>2. CASE ~(k < i)
    <3>1. ~(k <= Len(a)) /\ k - Len(a) \in 1..(Len(s) - i) /\ k \in 1..(Len(a) + Len(b))
      BY <2>2, <1>1, <1>3, <1>4
    <3>2. (a \o b)[k] = s[i + (k - Len(a))]
      BY <3>1, <1>4, <1>5
    <3>3. i + (k - Len(a)) = k + 1
      BY <1>1, <1>3, <2>2
    <3>4. QED BY <3>2, <3>3, <2>2, <1>6
  <2>3. QED BY <2>1, <2>2
<1>9. QED BY <1>5, <1>6, <1>7, <1>8

(* What RemoveAt leaves was there, in another place.                       *)
LEMMA RemoveAtOrigin ==
  ASSUME NEW S, NEW s \in Seq(S), NEW i \in 1..Len(s), NEW k \in 1..Len(RemoveAt(s, i))
  PROVE  \E j \in 1..Len(s) : j # i /\ RemoveAt(s, i)[k] = s[j]
<1>1. /\ Len(s) \in Nat /\ i \in Int /\ k \in 1..(Len(s) - 1)
      /\ RemoveAt(s, i)[k] = IF k < i THEN s[k] ELSE s[k + 1]
  BY LenProperties, RemoveAtProperties
<1>2. CASE k < i
  <2>1. k \in 1..Len(s) /\ k # i /\ RemoveAt(s, i)[k] = s[k]
    BY <1>1, <1>2
  <2>2. QED BY <2>1
<1>3. CASE ~(k < i)
  <2>1. k + 1 \in 1..Len(s) /\ k + 1 # i /\ RemoveAt(s, i)[k] = s[k + 1]
    BY <1>1, <1>3
  <2>2. QED BY <2>1
<1>4. QED BY <1>2, <1>3

(* What was in another place is what RemoveAt leaves.                      *)
LEMMA RemoveAtRest ==
  ASSUME NEW S, NEW s \in Seq(S), NEW i \in 1..Len(s), NEW j \in 1..Len(s), j # i
  PROVE  \E k \in 1..Len(RemoveAt(s, i)) : RemoveAt(s, i)[k] = s[j]
<1>1. /\ Len(s) \in Nat /\ i \in Int /\ j \in Int /\ Len(RemoveAt(s, i)) = Len(s) - 1
      /\ \A k \in 1..(Len(s) - 1) : RemoveAt(s, i)[k] = IF k < i THEN s[k] ELSE s[k + 1]
  BY LenProperties, RemoveAtProperties
<1>2. CASE j < i
  <2>1. j \in 1..(Len(s) - 1) /\ RemoveAt(s, i)[j] = s[j]
    BY <1>1, <1>2
  <2>2. QED BY <2>1, <1>1
<1>3. CASE ~(j < i)
  <2>1. j - 1 \in 1..(Len(s) - 1) /\ ~(j - 1 < i) /\ (j - 1) + 1 = j
    BY <1>1, <1>3
  <2>2. RemoveAt(s, i)[j - 1] = s[j]
    BY <1>1, <2>1
  <2>3. QED BY <2>1, <2>2, <1>1
<1>4. QED BY <1>2, <1>3

(* Changing each element where it stands keeps the length.                 *)
LEMMA MapProperties ==
  ASSUME NEW S, NEW T, NEW s \in Seq(S), NEW t, t = [k \in DOMAIN s |-> t[k]],
         \A k \in 1..Len(s) : t[k] \in T
  PROVE  t \in Seq(T) /\ Len(t) = Len(s) /\ DOMAIN t = 1..Len(s)
<1>1. Len(s) \in Nat /\ DOMAIN s = 1..Len(s)
  BY LenProperties
<1>2. t \in [1..Len(s) -> T]
  BY <1>1
<1>3. QED BY <1>1, <1>2, SMT

LEMMA OneElement ==
  ASSUME NEW S, NEW e \in S
  PROVE  /\ <<e>> \in Seq(S) /\ <<e>> # <<>> /\ Len(<<e>>) = 1 /\ <<e>>[1] = e
<1>1. <<e>> \in Seq(S) /\ Len(<<e>>) = 1 /\ <<e>>[1] = e
  OBVIOUS
<1>2. Len(<<>>) = 0
  BY EmptySeq
<1>3. QED BY <1>1, <1>2

-----------------------------------------------------------------------------
(* What holds in every state.                                              *)

(* What the page that is mounted shows is what there is.                   *)
ViewIsCurrent ==
  /\ where = "queue" => view.rows = view.query
  /\ view.job = Seen(where, view.query)
  /\ where # "job" => view.mode = mode

(* A load that will make the page current, if it is the last to answer.    *)
WillDo(load) ==
  /\ load.query = view.query
  /\ load.read => /\ load.job = Seen(where, view.query)
                  /\ where # "job" => load.mode = mode

(* An action of the page has changed the server, and its load is to come.  *)
Pending == \E i \in 1..Len(acts) : acts[i].mounted /\ acts[i].status = "done"

(* No load is under way that could show what is out of date.               *)
Settling ==
  /\ view.excused \/ ViewIsCurrent
  /\ \A k \in 1..Len(loads) : loads[k].excused

(* The last load puts things right.                                        *)
Refreshing ==
  /\ loads # <<>>
  /\ loads[Len(loads)].excused \/ WillDo(loads[Len(loads)])

Accounted == where # "away" /\ ~Pending => Settling \/ Refreshing

(* A job is removed from its own page, and a page left has no actions.     *)
ActionsHaveTheirPage ==
  /\ where = "away" => view.dialog = NoDialog
  /\ view.dialog = "remove" => where = "job"
  /\ \A i \in 1..Len(acts) :
       acts[i].mounted => where # "away" /\ (acts[i].name = "remove" => where = "job")

(* The load that a confirmed action ends with is in flight.                *)
Closing == \E k \in 1..Len(loads) : loads[k].closes

(* The dialog that waits has an action in flight whose end it waits for,   *)
(* or the load that this action has ended with.                            *)
DialogWaits ==
  view.confirming =>
    /\ view.dialog # NoDialog
    /\ \/ \E i \in 1..Len(acts) : acts[i].mounted /\ acts[i].name = view.dialog
       \/ Closing

Gone == where = "away" => loads = <<>>

PageInv == PageTypeOK /\ Accounted /\ ActionsHaveTheirPage /\ DialogWaits /\ Gone

-----------------------------------------------------------------------------
(* Types.                                                                  *)

LEMMA FirstTypes ==
  /\ FirstQuery \in Queries /\ NewView \in View
  /\ \A q \in Queries, e \in BOOLEAN : LoadOf(q, e) \in Load
<1>1. 1 \in 1..LastPage
  BY BoundAssumption
<1>2. FirstQuery \in Queries
  BY <1>1, FilterAssumption DEF FirstQuery, Queries, JobState
<1>3. NewView \in View
  BY <1>1, <1>2, FilterAssumption DEF NewView, View, Modes, NoDialog
<1>4. ASSUME NEW q \in Queries, NEW e \in BOOLEAN
      PROVE  LoadOf(q, e) \in Load
  BY DEF LoadOf, Load, Modes
<1>5. QED BY <1>2, <1>3, <1>4

LEMMA Elements ==
  ASSUME PageTypeOK
  PROVE  /\ loads \in Seq(Load) /\ Len(loads) \in Nat /\ DOMAIN loads = 1..Len(loads)
         /\ \A k \in 1..Len(loads) : loads[k] \in Load
         /\ acts \in Seq(Action) /\ Len(acts) \in Nat /\ DOMAIN acts = 1..Len(acts)
         /\ \A k \in 1..Len(acts) : acts[k] \in Action
BY LenProperties, ElementOfSeq DEF PageTypeOK

LEMMA OvertakenProperties ==
  ASSUME PageTypeOK, NEW i \in 1..Len(loads)
  PROVE  /\ Overtaken(i) \in Seq(Load)
         /\ Len(Overtaken(i)) = Len(loads) - 1
         /\ \A k \in 1..(Len(loads) - 1) :
              Overtaken(i)[k] = IF k < i THEN [loads[k] EXCEPT !.excused = TRUE] ELSE loads[k + 1]
<1> DEFINE marked == [k \in DOMAIN loads |->
                        IF k < i THEN [loads[k] EXCEPT !.excused = TRUE] ELSE loads[k]]
<1>1. \A k \in 1..Len(loads) : marked[k] \in Load
  <2>1. ASSUME NEW k \in 1..Len(loads)
        PROVE  [loads[k] EXCEPT !.excused = TRUE] \in Load
    BY Elements DEF Load
  <2>2. QED BY <2>1, Elements
<1>2. marked \in Seq(Load) /\ Len(marked) = Len(loads)
  BY <1>1, Elements, MapProperties
<1>3. \A k \in 1..Len(loads) :
        marked[k] = IF k < i THEN [loads[k] EXCEPT !.excused = TRUE] ELSE loads[k]
  BY Elements
<1>4. Overtaken(i) = RemoveAt(marked, i)
  BY DEF Overtaken
<1> HIDE DEF marked
<1>5. /\ RemoveAt(marked, i) \in Seq(Load)
      /\ Len(RemoveAt(marked, i)) = Len(marked) - 1
      /\ \A k \in 1..(Len(marked) - 1) :
           RemoveAt(marked, i)[k] = IF k < i THEN marked[k] ELSE marked[k + 1]
  BY <1>2, RemoveAtProperties
<1>6. ASSUME NEW k \in 1..(Len(loads) - 1)
      PROVE  Overtaken(i)[k] = IF k < i THEN [loads[k] EXCEPT !.excused = TRUE] ELSE loads[k + 1]
  <2>1. /\ k \in 1..Len(loads) /\ k + 1 \in 1..Len(loads) /\ k \in 1..(Len(marked) - 1)
        /\ k < i => ~(k + 1 < i) \/ k + 1 < i
        /\ ~(k < i) => ~(k + 1 < i)
    BY <1>2, Elements
  <2>2. CASE k < i
    BY <2>1, <2>2, <1>3, <1>4, <1>5
  <2>3. CASE ~(k < i)
    BY <2>1, <2>3, <1>3, <1>4, <1>5
  <2>4. QED BY <2>2, <2>3
<1>7. QED BY <1>2, <1>4, <1>5, <1>6

-----------------------------------------------------------------------------
(* What most steps do to the parts of the invariant.                       *)

(* A step that shows, loads and applies nothing.                           *)
LEMMA NothingShown ==
  ASSUME Accounted, Gone, UNCHANGED <<job, mode, where, loads>>, Pending => Pending',
         view'.query = view.query, view'.rows = view.rows, view'.job = view.job,
         view'.mode = view.mode, view'.excused = view.excused
  PROVE  Accounted' /\ Gone'
BY DEF Accounted, Gone, Settling, Refreshing, ViewIsCurrent, WillDo, Seen

(* A load that is added last and is excused or of the page's query.        *)
LEMMA LastRefreshes ==
  ASSUME NEW seq \in Seq(Load), NEW load \in Load, loads' = Append(seq, load),
         ~load.read, load.excused \/ load.query = view'.query
  PROVE  /\ Refreshing' /\ loads' \in Seq(Load)
         /\ Len(loads') = Len(seq) + 1 /\ loads'[Len(seq) + 1] = load
         /\ \A k \in 1..Len(seq) : loads'[k] = seq[k]
<1>1. /\ loads' \in Seq(Load) /\ loads' # <<>> /\ Len(loads') = Len(seq) + 1
      /\ loads'[Len(seq) + 1] = load /\ \A k \in 1..Len(seq) : loads'[k] = seq[k]
  BY AppendProperties
<1>2. loads'[Len(loads')] = load
  BY <1>1
<1>3. QED BY <1>1, <1>2 DEF Refreshing, WillDo

LEMMA AddedRefreshes ==
  ASSUME NEW seq \in Seq(Load), NEW q \in Queries, NEW e \in BOOLEAN,
         loads' = Append(seq, LoadOf(q, e)), e \/ q = view'.query
  PROVE  Refreshing' /\ loads' \in Seq(Load)
<1>1. LoadOf(q, e) \in Load
  BY FirstTypes
<1>2. LoadOf(q, e).excused = e /\ LoadOf(q, e).query = q /\ ~LoadOf(q, e).read
  BY DEF LoadOf
<1> DEFINE load == LoadOf(q, e)
<1> HIDE DEF load
<1>3. load \in Load /\ ~load.read /\ (load.excused \/ load.query = view'.query)
      /\ loads' = Append(seq, load)
  BY <1>1, <1>2 DEF load
<1>4. QED BY <1>3, LastRefreshes

LEMMA Mounted ==
  ASSUME NEW page \in Pages, Mount(page)
  PROVE  /\ where' \in Pages /\ view' \in View /\ loads' \in Seq(Load)
         /\ Accounted' /\ Gone'
         /\ view'.dialog = NoDialog /\ view'.confirming = FALSE
<1>1. view' = NewView /\ where' = page /\ view' \in View
  BY FirstTypes DEF Mount
<1>2. view'.dialog = NoDialog /\ view'.confirming = FALSE /\ view'.query = FirstQuery
  BY <1>1 DEF NewView
<1>3. CASE page = "away"
  BY <1>1, <1>2, <1>3, EmptySeq DEF Mount, Accounted, Gone
<1>4. CASE page # "away"
  <2>1. loads' = <<LoadOf(FirstQuery, FALSE)>>
    BY <1>4 DEF Mount
  <2>2. LoadOf(FirstQuery, FALSE) \in Load
    BY FirstTypes
  <2>3. loads' \in Seq(Load) /\ Len(loads') = 1 /\ loads'[1] = LoadOf(FirstQuery, FALSE)
        /\ loads' # <<>>
    BY <2>1, <2>2, OneElement
  <2>4. Refreshing'
    BY <2>3, <1>2 DEF Refreshing, WillDo, LoadOf
  <2>5. QED BY <1>1, <1>2, <1>4, <2>3, <2>4 DEF Accounted, Gone
<1>5. QED BY <1>3, <1>4

(* What becomes of the actions of a page that is left.                     *)
LEMMA LeftBehind ==
  ASSUME NEW s \in Seq(Action), acts' = [k \in DOMAIN s |-> [s[k] EXCEPT !.mounted = FALSE]]
  PROVE  acts' \in Seq(Action) /\ \A k \in 1..Len(acts') : ~acts'[k].mounted
<1>1. Len(s) \in Nat /\ DOMAIN s = 1..Len(s) /\ \A k \in 1..Len(s) : s[k] \in Action
  BY LenProperties, ElementOfSeq
<1>2. ASSUME NEW k \in 1..Len(s)
      PROVE  acts'[k] \in Action /\ ~acts'[k].mounted
  BY <1>1 DEF Action
<1>3. acts' \in [1..Len(s) -> Action]
  BY <1>1, <1>2
<1>4. acts' \in Seq(Action) /\ Len(acts') = Len(s)
  BY <1>1, <1>3
<1>5. QED BY <1>2, <1>4

LEMMA NavigateInv ==
  ASSUME PageInv, clicks' \in 0..MaxClicks, NEW page \in Pages, Navigate(page)
  PROVE  PageInv'
<1>1. acts' \in Seq(Action) /\ \A k \in 1..Len(acts') : ~acts'[k].mounted
  BY LeftBehind, Elements DEF Navigate, Leave, PageInv
<1>2. /\ where' \in Pages /\ view' \in View /\ loads' \in Seq(Load) /\ Accounted' /\ Gone'
      /\ view'.dialog = NoDialog /\ view'.confirming = FALSE
  BY Mounted DEF Navigate
<1>3. PageTypeOK'
  BY <1>1, <1>2 DEF Navigate, PageInv, PageTypeOK
<1>4. QED BY <1>1, <1>2, <1>3 DEF PageInv, ActionsHaveTheirPage, DialogWaits, NoDialog

-----------------------------------------------------------------------------
(* Loads.                                                                  *)

LEMMA ReadServerInv ==
  ASSUME PageInv, clicks' \in 0..MaxClicks, NEW i \in 1..Len(loads), ReadServer(i)
  PROVE  PageInv'
<1> DEFINE load == [loads[i] EXCEPT !.read = TRUE,
                                    !.mode = IF where = "job" THEN @ ELSE mode,
                                    !.job = Seen(where, loads[i].query)]
<1>1. PageTypeOK /\ loads \in Seq(Load) /\ loads[i] \in Load
  BY Elements DEF PageInv
<1>2. /\ load \in Load /\ load.query = loads[i].query /\ load.excused = loads[i].excused
      /\ load.closes = loads[i].closes
      /\ load.job = Seen(where, load.query) /\ (where # "job" => load.mode = mode)
  BY <1>1 DEF Load, Seen, PageTypeOK
<1> HIDE DEF load
<1>3. loads' = [loads EXCEPT ![i] = load]
  BY DEF ReadServer, SetLoad, load
<1>4. /\ loads' \in Seq(Load) /\ Len(loads') = Len(loads)
      /\ \A k \in 1..Len(loads) : loads'[k] = IF k = i THEN load ELSE loads[k]
  BY <1>1, <1>2, <1>3, ExceptSeq, Elements
<1>5. UNCHANGED <<job, mode, where, view, acts>>
  BY DEF ReadServer
<1>6. PageTypeOK'
  BY <1>1, <1>4, <1>5 DEF PageTypeOK
<1>7. Len(loads) \in Nat /\ Len(loads) \in 1..Len(loads) /\ loads # <<>> /\ loads' # <<>>
  <2>1. Len(loads) \in Nat /\ Len(loads) >= 1
    BY <1>1, Elements
  <2>2. Len(<<>>) = 0
    BY EmptySeq
  <2>3. QED BY <2>1, <2>2, <1>4
<1>8. Accounted'
  <2>1. SUFFICES ASSUME where # "away", ~Pending PROVE Settling' \/ Refreshing'
    BY <1>5 DEF Accounted, Pending
  <2>2. CASE Settling
    BY <2>2, <1>2, <1>4, <1>5 DEF Settling, ViewIsCurrent, Seen
  <2>3. CASE Refreshing
    <3>1. loads'[Len(loads)].excused \/ WillDo(loads[Len(loads)])
      BY <2>3, <1>2, <1>4, <1>7 DEF Refreshing
    <3>2. CASE Len(loads) = i
      BY <2>3, <3>2, <1>2, <1>4, <1>5, <1>7 DEF Refreshing, WillDo, Seen
    <3>3. CASE Len(loads) # i
      BY <2>3, <3>3, <1>4, <1>5, <1>7 DEF Refreshing, WillDo, Seen
    <3>4. QED BY <3>2, <3>3
  <2>4. QED BY <2>1, <2>2, <2>3 DEF PageInv, Accounted
<1>9. Gone'
  BY <1>5, <1>7 DEF PageInv, Gone
<1>10. Closing => Closing'
  BY <1>2, <1>4 DEF Closing
<1>11. QED BY <1>5, <1>6, <1>8, <1>9, <1>10 DEF PageInv, ActionsHaveTheirPage, DialogWaits

(* A load that ends leaves the last one the last, or nothing but loads     *)
(* that are excused.                                                       *)
LEMMA LoadEnds ==
  ASSUME PageInv, NEW i \in 1..Len(loads), loads' = Overtaken(i)
  PROVE  /\ loads' \in Seq(Load) /\ Gone
         /\ i = Len(loads) => \A k \in 1..Len(loads') : loads'[k].excused
         /\ i # Len(loads) => loads' # <<>> /\ loads'[Len(loads')] = loads[Len(loads)]
         /\ (\A k \in 1..Len(loads) : loads[k].excused) =>
              \A k \in 1..Len(loads') : loads'[k].excused
         /\ ~loads[i].closes => (Closing => Closing')
<1>1. /\ PageTypeOK /\ Gone /\ Len(loads) \in Nat /\ i \in Nat /\ i >= 1 /\ i <= Len(loads)
      /\ \A k \in 1..Len(loads) : loads[k] \in Load
  BY Elements DEF PageInv
<1>2. /\ loads' \in Seq(Load) /\ Len(loads') = Len(loads) - 1
      /\ \A k \in 1..(Len(loads) - 1) :
           loads'[k] = IF k < i THEN [loads[k] EXCEPT !.excused = TRUE] ELSE loads[k + 1]
  BY <1>1, OvertakenProperties
<1>3. \A k \in 1..Len(loads) : [loads[k] EXCEPT !.excused = TRUE].excused
  BY <1>1 DEF Load
<1>4. ASSUME i = Len(loads), NEW k \in 1..Len(loads')
      PROVE  loads'[k].excused
  <2>1. k < i /\ k \in 1..Len(loads) /\ k \in 1..(Len(loads) - 1)
    BY <1>1, <1>2, <1>4
  <2>2. QED BY <2>1, <1>2, <1>3
<1>5. ASSUME i # Len(loads)
      PROVE  loads' # <<>> /\ loads'[Len(loads')] = loads[Len(loads)]
  <2> DEFINE last == Len(loads) - 1
  <2>1. last \in 1..(Len(loads) - 1) /\ ~(last < i) /\ last + 1 = Len(loads) /\ last > 0
    BY <1>1, <1>5
  <2>2. Len(<<>>) = 0
    BY EmptySeq
  <2>3. Len(loads') = last
    BY <1>2
  <2> HIDE DEF last
  <2>4. loads'[last] = loads[Len(loads)]
    BY <2>1, <1>2
  <2>5. QED BY <2>1, <2>2, <2>3, <2>4
<1>6. ASSUME \A k \in 1..Len(loads) : loads[k].excused, NEW k \in 1..Len(loads')
      PROVE  loads'[k].excused
  <2>1. k \in 1..(Len(loads) - 1) /\ k \in 1..Len(loads) /\ k + 1 \in 1..Len(loads)
    BY <1>1, <1>2
  <2>2. QED BY <2>1, <1>2, <1>3, <1>6
<1>7. ASSUME ~loads[i].closes, Closing
      PROVE  Closing'
  <2>1. PICK j \in 1..Len(loads) : loads[j].closes
    BY <1>7 DEF Closing
  <2>2. CASE j < i
    <3>1. j \in 1..(Len(loads) - 1)
      BY <1>1, <2>2
    <3>2. loads'[j] = [loads[j] EXCEPT !.excused = TRUE]
      BY <2>2, <3>1, <1>2
    <3>3. loads'[j].closes
      BY <3>2, <2>1, <1>1 DEF Load
    <3>4. QED BY <3>1, <3>3, <1>2 DEF Closing
  <2>3. CASE j > i
    <3>1. j - 1 \in 1..(Len(loads) - 1) /\ ~(j - 1 < i) /\ (j - 1) + 1 = j
      BY <1>1, <2>3
    <3>2. loads'[j - 1] = loads[j]
      BY <3>1, <1>2
    <3>3. QED BY <3>1, <3>2, <2>1, <1>2 DEF Closing
  <2>4. j \in Nat /\ j # i
    BY <1>7, <2>1
  <2>5. QED BY <2>2, <2>3, <2>4, <1>1
<1>8. QED BY <1>1, <1>2, <1>4, <1>5, <1>6, <1>7

(* The end of what a dialog waits for releases it and shows nothing.       *)
LEMMA ReleasedView ==
  ASSUME PageInv, NEW ends \in BOOLEAN, NEW v, v = Released(view, ends)
  PROVE  /\ v \in View /\ v.query = view.query /\ v.rows = view.rows /\ v.job = view.job
         /\ v.mode = view.mode /\ v.excused = view.excused
         /\ ends => v.dialog = NoDialog /\ v.confirming = FALSE
         /\ ~ends => v = view
<1>1. view \in View
  BY DEF PageInv, PageTypeOK
<1>2. QED BY <1>1 DEF Released, View

LEMMA LoadAnswersInv ==
  ASSUME PageInv, clicks' \in 0..MaxClicks, NEW i \in 1..Len(loads), LoadAnswers(i)
  PROVE  PageInv'
<1>1. /\ loads' \in Seq(Load) /\ Gone
      /\ i = Len(loads) => \A k \in 1..Len(loads') : loads'[k].excused
      /\ i # Len(loads) => loads' # <<>> /\ loads'[Len(loads')] = loads[Len(loads)]
      /\ (\A k \in 1..Len(loads) : loads[k].excused) =>
           \A k \in 1..Len(loads') : loads'[k].excused
      /\ ~loads[i].closes => (Closing => Closing')
  BY LoadEnds DEF LoadAnswers
<1>2. loads[i] \in Load /\ view \in View /\ loads # <<>>
  BY Elements, EmptySeq DEF PageInv, PageTypeOK
<1> DEFINE v == Released(view, loads[i].closes)
<1>20. /\ v \in View /\ v.query = view.query /\ v.rows = view.rows
       /\ loads[i].closes => v.dialog = NoDialog /\ v.confirming = FALSE
       /\ ~loads[i].closes => v = view
  <2>1. loads[i].closes \in BOOLEAN
    BY <1>2 DEF Load
  <2>2. QED BY <2>1, ReleasedView
<1>3. PICK pages \in 1..LastPage :
        view' = [v EXCEPT
          !.rows = loads[i].query, !.job = loads[i].job, !.mode = loads[i].mode,
          !.pages = IF where = "queue" THEN pages ELSE 1, !.input = view.query.filter,
          !.excused = loads[i].excused]
  BY DEF LoadAnswers
<1>4. view' \in View
  <2>1. 1 \in 1..LastPage
    BY BoundAssumption
  <2>2. view.query.filter \in Filters
    BY <1>2 DEF View, Queries
  <2> HIDE DEF v
  <2>3. QED BY <2>1, <2>2, <1>2, <1>20, <1>3 DEF View, Load
<1>5. /\ view'.query = view.query /\ view'.rows = loads[i].query /\ view'.job = loads[i].job
      /\ view'.mode = loads[i].mode /\ view'.excused = loads[i].excused
      /\ view'.dialog = v.dialog /\ view'.confirming = v.confirming
  <2> HIDE DEF v
  <2>1. QED BY <1>2, <1>20, <1>3 DEF View
<1> HIDE DEF v
<1>6. UNCHANGED <<job, mode, where, acts>> /\ loads[i].read
  BY DEF LoadAnswers
<1>7. PageTypeOK'
  BY <1>1, <1>4, <1>6 DEF PageInv, PageTypeOK
<1>8. Accounted'
  <2>1. SUFFICES ASSUME where # "away", ~Pending PROVE Settling' \/ Refreshing'
    BY <1>6 DEF Accounted, Pending
  <2>2. CASE Settling
    BY <2>2, <1>1, <1>5 DEF Settling
  <2>3. CASE Refreshing /\ i = Len(loads)
    BY <2>3, <1>1, <1>5, <1>6 DEF Settling, Refreshing, ViewIsCurrent, WillDo, Seen
  <2>4. CASE Refreshing /\ i # Len(loads)
    BY <2>4, <1>1, <1>5, <1>6 DEF Refreshing, WillDo, Seen
  <2>5. QED BY <2>1, <2>2, <2>3, <2>4 DEF PageInv, Accounted
<1>9. ActionsHaveTheirPage'
  BY <1>20, <1>5, <1>6 DEF PageInv, ActionsHaveTheirPage, NoDialog
<1>10. DialogWaits'
  BY <1>1, <1>20, <1>5, <1>6 DEF PageInv, DialogWaits
<1>11. QED BY <1>1, <1>2, <1>6, <1>7, <1>8, <1>9, <1>10 DEF PageInv, Gone

LEMMA LoadFailsInv ==
  ASSUME PageInv, clicks' \in 0..MaxClicks, NEW i \in 1..Len(loads), LoadFails(i)
  PROVE  PageInv'
<1>1. /\ loads' \in Seq(Load) /\ Gone
      /\ i = Len(loads) => \A k \in 1..Len(loads') : loads'[k].excused
      /\ i # Len(loads) => loads' # <<>> /\ loads'[Len(loads')] = loads[Len(loads)]
      /\ (\A k \in 1..Len(loads) : loads[k].excused) =>
           \A k \in 1..Len(loads') : loads'[k].excused
      /\ ~loads[i].closes => (Closing => Closing')
  BY LoadEnds DEF LoadFails
<1>2. loads[i] \in Load /\ view \in View /\ loads # <<>>
  BY Elements, EmptySeq DEF PageInv, PageTypeOK
<1> DEFINE v == Released(view, loads[i].closes)
<1>20. /\ v \in View /\ v.query = view.query
       /\ loads[i].closes => v.dialog = NoDialog /\ v.confirming = FALSE
       /\ ~loads[i].closes => v = view
  <2>1. loads[i].closes \in BOOLEAN
    BY <1>2 DEF Load
  <2>2. QED BY <2>1, ReleasedView
<1>21. view' = [v EXCEPT !.excused = TRUE]
  BY DEF LoadFails
<1> HIDE DEF v
<1>3. /\ view' \in View /\ view'.query = view.query /\ view'.excused
      /\ view'.dialog = v.dialog /\ view'.confirming = v.confirming
  BY <1>20, <1>21 DEF View
<1>4. UNCHANGED <<job, mode, where, acts>>
  BY DEF LoadFails
<1>5. PageTypeOK'
  BY <1>1, <1>3, <1>4 DEF PageInv, PageTypeOK
<1>6. Accounted'
  <2>1. SUFFICES ASSUME where # "away", ~Pending PROVE Settling' \/ Refreshing'
    BY <1>4 DEF Accounted, Pending
  <2>2. CASE i = Len(loads) \/ Settling
    BY <2>2, <1>1, <1>3 DEF Settling
  <2>3. CASE Refreshing /\ i # Len(loads)
    BY <2>3, <1>1, <1>3, <1>4 DEF Refreshing, WillDo, Seen
  <2>4. QED BY <2>1, <2>2, <2>3 DEF PageInv, Accounted
<1>7. ActionsHaveTheirPage'
  BY <1>20, <1>3, <1>4 DEF PageInv, ActionsHaveTheirPage, NoDialog
<1>8. DialogWaits'
  BY <1>1, <1>20, <1>3, <1>4 DEF PageInv, DialogWaits
<1>9. QED BY <1>1, <1>2, <1>4, <1>5, <1>6, <1>7, <1>8 DEF PageInv, Gone

-----------------------------------------------------------------------------
(* What the operator clicks.                                               *)

LEMMA SettledQuery ==
  ASSUME NEW query \in Queries
  PROVE  /\ [query EXCEPT !.page = 1] \in Queries /\ Settled(query) \in Queries
         /\ query.page = 1 => [query EXCEPT !.page = 1] = query
<1>1. 1 \in 1..LastPage
  BY BoundAssumption
<1>2. [query EXCEPT !.page = 1] \in Queries
  BY <1>1 DEF Queries
<1>3. query.page = 1 => [query EXCEPT !.page = 1] = query
  BY DEF Queries
<1>4. QED BY <1>2, <1>3 DEF Settled

(* The effects of a render end with a load of the query it settles on.     *)
LEMMA EffectsRefresh ==
  ASSUME PageTypeOK, NEW query \in Queries, query # view.query, Effects(query),
         view'.query = Settled(query)
  PROVE  Refreshing' /\ loads' \in Seq(Load)
<1> DEFINE other == query.tab # view.query.tab \/ query.filter # view.query.filter
           again == [query EXCEPT !.page = 1]
           first == loads \o <<LoadOf(query, FALSE)>>
<1>1. again \in Queries /\ (query.page = 1 => again = query)
  BY SettledQuery
<1>2. LoadOf(query, FALSE) \in Load /\ LoadOf(again, FALSE) \in Load
  BY <1>1, FirstTypes
<1>3. loads' = first \o (IF other /\ query.page # 1 THEN <<LoadOf(again, FALSE)>> ELSE <<>>)
  BY DEF Effects
<1>4. first = Append(loads, LoadOf(query, FALSE)) /\ first \in Seq(Load)
  <2>1. loads \in Seq(Load)
    BY DEF PageTypeOK
  <2>2. Append(loads, LoadOf(query, FALSE)) = first
    BY <2>1, <1>2, AppendIsConcat
  <2>3. Append(loads, LoadOf(query, FALSE)) \in Seq(Load)
    BY <2>1, <1>2, AppendProperties
  <2>4. QED BY <2>2, <2>3
<1>5. CASE other /\ query.page # 1
  <2> HIDE DEF first
  <2>1. loads' = first \o <<LoadOf(again, FALSE)>>
    BY <1>3, <1>5
  <2>2. loads' = Append(first, LoadOf(again, FALSE))
    BY <2>1, <1>2, <1>4, AppendIsConcat
  <2>3. view'.query = again
    BY <1>5 DEF Settled
  <2> HIDE DEF again
  <2>4. QED BY <2>2, <2>3, <1>1, <1>4, AddedRefreshes
<1>6. CASE ~(other /\ query.page # 1)
  <2> HIDE DEF first
  <2>1. loads' = first \o <<>>
    BY <1>3, <1>6
  <2>2. loads' = Append(loads, LoadOf(query, FALSE))
    BY <2>1, <1>4, ConcatEmptySeq
  <2>3. view'.query = query
    BY <1>1, <1>6 DEF Settled
  <2>4. QED BY <2>2, <2>3, AddedRefreshes DEF PageTypeOK
<1>7. QED BY <1>5, <1>6

LEMMA ShowInv ==
  ASSUME PageInv, clicks' \in 0..MaxClicks, where = "queue", view.dialog = NoDialog,
         NEW query \in Queries, NEW input \in Filters, Show(query, input)
  PROVE  PageInv'
<1>1. PageTypeOK /\ view \in View
  BY DEF PageInv, PageTypeOK
<1>2. Settled(query) \in Queries
  BY SettledQuery
<1>3. /\ view' \in View /\ view'.query = Settled(query) /\ view'.rows = view.rows
      /\ view'.job = view.job /\ view'.mode = view.mode /\ view'.excused = view.excused
      /\ view'.dialog = view.dialog /\ view'.confirming = view.confirming
  BY <1>1, <1>2 DEF Show, View
<1>4. UNCHANGED <<job, mode, where, acts>>
  BY DEF Show
<1>5. loads' \in Seq(Load) /\ Accounted' /\ Gone'
  <2>1. CASE query = view.query
    <3>1. loads' = loads
      BY <2>1 DEF Show, Effects
    <3>2. view'.query = view.query
      BY <2>1, <1>3 DEF Settled
    <3>3. Pending => Pending'
      BY <1>4 DEF Pending
    <3>4. QED BY <3>1, <3>2, <3>3, <1>3, <1>4, NothingShown DEF PageInv, PageTypeOK
  <2>2. CASE query # view.query
    <3>1. Effects(query)
      BY DEF Show
    <3>2. Refreshing' /\ loads' \in Seq(Load)
      BY <3>1, <2>2, <1>1, <1>3, EffectsRefresh
    <3>3. QED BY <3>2, <1>4 DEF Accounted, Gone
  <2>3. QED BY <2>1, <2>2
<1>6. PageTypeOK'
  BY <1>1, <1>3, <1>4, <1>5 DEF PageTypeOK
<1>7. QED BY <1>3, <1>4, <1>5, <1>6 DEF PageInv, ActionsHaveTheirPage, DialogWaits

LEMMA QueriesInv ==
  ASSUME PageInv, clicks' \in 0..MaxClicks,
         \/ \E tab \in Tabs : PickTab(tab)
         \/ NextPage \/ PreviousPage \/ ApplyFilters \/ ClearFilters
  PROVE  PageInv'
<1>1. view \in View /\ view.query \in Queries /\ view.input \in Filters
  BY DEF PageInv, PageTypeOK, View
<1>2. CASE \E tab \in Tabs : PickTab(tab)
  <2>1. PICK tab \in Tabs : PickTab(tab)
    BY <1>2
  <2>2. [view.query EXCEPT !.tab = tab] \in Queries
    BY <1>1, TabsAssumption DEF Queries
  <2>3. QED BY <2>1, <2>2, <1>1, ShowInv DEF PickTab, OnQueuePage, Clickable
<1>3. CASE NextPage
  <2>1. view.pages \in 1..LastPage /\ view.query.page \in 1..LastPage /\ LastPage \in Nat
    BY <1>1, BoundAssumption DEF View, Queries
  <2>2. view.query.page + 1 \in 1..LastPage
    BY <1>3, <2>1 DEF NextPage
  <2>3. [view.query EXCEPT !.page = @ + 1] \in Queries
    BY <1>1, <2>2 DEF Queries
  <2>4. QED BY <1>3, <2>3, <1>1, ShowInv DEF NextPage, OnQueuePage, Clickable
<1>4. CASE PreviousPage
  <2>1. view.query.page \in 1..LastPage /\ LastPage \in Nat
    BY <1>1, BoundAssumption DEF View, Queries
  <2>2. view.query.page - 1 \in 1..LastPage
    BY <1>4, <2>1 DEF PreviousPage
  <2>3. [view.query EXCEPT !.page = @ - 1] \in Queries
    BY <1>1, <2>2 DEF Queries
  <2>4. QED BY <1>4, <2>3, <1>1, ShowInv DEF PreviousPage, OnQueuePage, Clickable
<1>5. 1 \in 1..LastPage
  BY BoundAssumption
<1>6. CASE ApplyFilters
  <2>1. [view.query EXCEPT !.filter = view.input, !.page = 1] \in Queries
    BY <1>1, <1>5 DEF Queries
  <2>2. QED BY <1>6, <2>1, <1>1, ShowInv DEF ApplyFilters, OnQueuePage, Clickable
<1>7. CASE ClearFilters
  <2>1. [view.query EXCEPT !.filter = NoFilter, !.page = 1] \in Queries
    BY <1>1, <1>5, FilterAssumption DEF Queries
  <2>2. QED BY <1>7, <2>1, <1>1, FilterAssumption, ShowInv DEF ClearFilters, OnQueuePage, Clickable
<1>8. QED BY <1>2, <1>3, <1>4, <1>6, <1>7

(* A click that sends no request and asks for no other rows.               *)
LEMMA QuietClick ==
  ASSUME PageInv, clicks' \in 0..MaxClicks, UNCHANGED <<job, mode, where, loads, acts>>,
         view' \in View, view'.query = view.query, view'.rows = view.rows,
         view'.job = view.job, view'.mode = view.mode, view'.excused = view.excused,
         (where = "away" => view'.dialog = NoDialog) /\ (view'.dialog = "remove" => where = "job"),
         view'.confirming => view.confirming /\ view'.dialog = view.dialog
  PROVE  PageInv'
<1>1. Pending => Pending'
  BY DEF Pending
<1>2. Accounted' /\ Gone'
  BY <1>1, NothingShown DEF PageInv
<1>3. PageTypeOK'
  BY DEF PageInv, PageTypeOK
<1>4. QED BY <1>2, <1>3 DEF PageInv, ActionsHaveTheirPage, DialogWaits, Closing

LEMMA DialogsInv ==
  ASSUME PageInv, clicks' \in 0..MaxClicks,
         \/ \E f \in Filters : TypeFilter(f)
         \/ \E name \in Dialogs : ConfirmAction(name)
         \/ Cancel
  PROVE  PageInv'
<1>1. view \in View
  BY DEF PageInv, PageTypeOK
<1>2. UNCHANGED <<job, mode, where, loads, acts>>
  BY DEF TypeFilter, ConfirmAction, Cancel
<1>3. CASE \E f \in Filters : TypeFilter(f)
  <2>1. PICK f \in Filters : view' = [view EXCEPT !.input = f]
    BY <1>3 DEF TypeFilter
  <2>2. /\ view' \in View /\ view'.query = view.query /\ view'.rows = view.rows
        /\ view'.job = view.job /\ view'.mode = view.mode /\ view'.excused = view.excused
        /\ view'.dialog = view.dialog /\ view'.confirming = view.confirming
    BY <2>1, <1>1 DEF View
  <2>3. (where = "away" => view'.dialog = NoDialog) /\ (view'.dialog = "remove" => where = "job")
    BY <2>2 DEF PageInv, ActionsHaveTheirPage
  <2>4. QED BY <2>2, <2>3, <1>2, QuietClick
<1>4. CASE \E name \in Dialogs : ConfirmAction(name)
  <2>1. PICK name \in Dialogs : ConfirmAction(name)
    BY <1>4
  <2>2. /\ view' \in View /\ view'.query = view.query /\ view'.rows = view.rows
        /\ view'.job = view.job /\ view'.mode = view.mode /\ view'.excused = view.excused
        /\ view'.dialog = name /\ view'.confirming = view.confirming
    BY <2>1, <1>1 DEF ConfirmAction, View
  <2>3. (where = "away" => view'.dialog = NoDialog) /\ (view'.dialog = "remove" => where = "job")
    BY <2>1, <2>2 DEF ConfirmAction, Offered
  <2>4. view'.confirming => view.confirming /\ view'.dialog = view.dialog
    BY <2>1, <2>2 DEF ConfirmAction, Clickable, PageInv, DialogWaits
  <2>5. QED BY <2>2, <2>3, <2>4, <1>2, QuietClick
<1>5. CASE Cancel
  <2>1. /\ view' \in View /\ view'.query = view.query /\ view'.rows = view.rows
        /\ view'.job = view.job /\ view'.mode = view.mode /\ view'.excused = view.excused
        /\ view'.dialog = NoDialog /\ view'.confirming = view.confirming
    BY <1>1, <1>5 DEF Cancel, View, NoDialog
  <2>2. (where = "away" => view'.dialog = NoDialog) /\ (view'.dialog = "remove" => where = "job")
    BY <2>1 DEF NoDialog
  <2>3. view'.confirming => view.confirming /\ view'.dialog = view.dialog
    BY <2>1, <1>5 DEF Cancel
  <2>4. QED BY <2>1, <2>2, <2>3, <1>2, QuietClick
<1>6. QED BY <1>3, <1>4, <1>5

LEMMA SendProperties ==
  ASSUME PageInv, NEW name \in Dialogs \cup {"pause", "resume"}, Send(name)
  PROVE  /\ acts' \in Seq(Action) /\ Len(acts') = Len(acts) + 1
         /\ \A k \in 1..Len(acts) : acts'[k] = acts[k]
         /\ Len(acts') \in 1..Len(acts')
         /\ acts'[Len(acts')].name = name /\ acts'[Len(acts')].mounted
         /\ Pending => Pending'
<1>1. PageTypeOK /\ Len(acts) \in Nat /\ acts \in Seq(Action) /\ view.query \in Queries
  BY Elements DEF PageInv, PageTypeOK, View
<1> DEFINE new == [name |-> name, query |-> view.query, mounted |-> TRUE, status |-> "sent"]
<1>2. new \in Action /\ new.name = name /\ new.mounted
  BY <1>1 DEF Action
<1>3. acts' = Append(acts, new)
  BY DEF Send
<1> HIDE DEF new
<1>4. /\ acts' \in Seq(Action) /\ Len(acts') = Len(acts) + 1
      /\ \A k \in 1..Len(acts) : acts'[k] = acts[k]
      /\ acts'[Len(acts) + 1] = new
  BY <1>1, <1>2, <1>3, AppendProperties
<1>5. ASSUME Pending PROVE Pending'
  <2>1. PICK i \in 1..Len(acts) : acts[i].mounted /\ acts[i].status = "done"
    BY <1>5 DEF Pending
  <2>2. i \in 1..Len(acts') /\ acts'[i] = acts[i]
    BY <1>1, <1>4
  <2>3. QED BY <2>1, <2>2 DEF Pending
<1>6. QED BY <1>1, <1>2, <1>4, <1>5

LEMMA TogglePauseInv ==
  ASSUME PageInv, clicks' \in 0..MaxClicks, TogglePause
  PROVE  PageInv'
<1>1. PICK name \in {"pause", "resume"} : Send(name)
  BY DEF TogglePause
<1>2. /\ acts' \in Seq(Action) /\ Len(acts') = Len(acts) + 1
      /\ \A k \in 1..Len(acts) : acts'[k] = acts[k]
      /\ acts'[Len(acts')].name = name /\ (Pending => Pending')
  BY <1>1, SendProperties
<1>3. UNCHANGED <<job, mode, where, view, loads>> /\ view.dialog = NoDialog /\ where = "queue"
  BY DEF TogglePause, OnQueuePage, Clickable
<1>4. Accounted' /\ Gone'
  BY <1>2, <1>3, NothingShown DEF PageInv
<1>5. PageTypeOK'
  BY <1>2, <1>3 DEF PageInv, PageTypeOK
<1>6. ActionsHaveTheirPage'
  <2>1. Len(acts) \in Nat
    BY Elements DEF PageInv
  <2>2. \A k \in 1..Len(acts') : k \in 1..Len(acts) \/ k = Len(acts')
    BY <2>1, <1>2
  <2>3. QED BY <2>2, <1>1, <1>2, <1>3 DEF PageInv, ActionsHaveTheirPage
<1>7. DialogWaits'
  BY <1>3 DEF PageInv, DialogWaits, NoDialog
<1>8. QED BY <1>4, <1>5, <1>6, <1>7 DEF PageInv

LEMMA HandleConfirmInv ==
  ASSUME PageInv, clicks' \in 0..MaxClicks, HandleConfirm
  PROVE  PageInv'
<1>1. view \in View /\ view.dialog \in Dialogs /\ Send(view.dialog)
  BY DEF HandleConfirm, PageInv, PageTypeOK, View
<1>2. /\ acts' \in Seq(Action) /\ Len(acts') = Len(acts) + 1
      /\ \A k \in 1..Len(acts) : acts'[k] = acts[k]
      /\ Len(acts') \in 1..Len(acts')
      /\ acts'[Len(acts')].name = view.dialog /\ acts'[Len(acts')].mounted
      /\ (Pending => Pending')
  BY <1>1, SendProperties
<1>3. /\ view' \in View /\ view'.query = view.query /\ view'.rows = view.rows
      /\ view'.job = view.job /\ view'.mode = view.mode /\ view'.excused = view.excused
      /\ view'.dialog = view.dialog
  BY <1>1 DEF HandleConfirm, View
<1>4. UNCHANGED <<job, mode, where, loads>> /\ view.dialog # NoDialog
  BY DEF HandleConfirm
<1>5. Accounted' /\ Gone'
  BY <1>2, <1>3, <1>4, NothingShown DEF PageInv
<1>6. PageTypeOK'
  BY <1>2, <1>3, <1>4 DEF PageInv, PageTypeOK
<1>7. ActionsHaveTheirPage'
  <2>1. Len(acts) \in Nat
    BY Elements DEF PageInv
  <2>2. \A k \in 1..Len(acts') : k \in 1..Len(acts) \/ k = Len(acts')
    BY <2>1, <1>2
  <2>3. QED BY <2>2, <1>2, <1>3, <1>4 DEF PageInv, ActionsHaveTheirPage
<1>8. DialogWaits'
  BY <1>2, <1>3, <1>4 DEF DialogWaits
<1>9. QED BY <1>5, <1>6, <1>7, <1>8 DEF PageInv

-----------------------------------------------------------------------------
(* The ends of actions.                                                    *)

(* Others' work excuses what has been read before it.                      *)
LEMMA Blamed ==
  ASSUME PageInv, UNCHANGED where, Blame, Pending => Pending'
  PROVE  /\ view' \in View /\ view'.dialog = view.dialog /\ view'.confirming = view.confirming
         /\ loads' \in Seq(Load) /\ Accounted' /\ Gone' /\ (Closing => Closing')
<1>1. /\ PageTypeOK /\ view \in View /\ Len(loads) \in Nat /\ DOMAIN loads = 1..Len(loads)
      /\ \A k \in 1..Len(loads) : loads[k] \in Load
  BY Elements DEF PageInv, PageTypeOK
<1>2. /\ view' \in View /\ view'.dialog = view.dialog /\ view'.confirming = view.confirming
      /\ view'.query = view.query /\ view'.excused
  BY <1>1 DEF Blame, View
<1>3. ASSUME NEW k \in 1..Len(loads)
      PROVE  /\ loads'[k] \in Load /\ loads'[k].query = loads[k].query
             /\ loads'[k].read = loads[k].read /\ (loads[k].excused => loads'[k].excused)
             /\ loads[k].read => loads'[k].excused
             /\ loads'[k].closes = loads[k].closes
  <2>1. loads'[k] = [loads[k] EXCEPT !.excused = @ \/ loads[k].read]
    BY <1>1 DEF Blame
  <2>2. loads[k] \in Load
    BY <1>1
  <2>3. loads'[k] = [loads[k] EXCEPT !.excused = loads[k].excused \/ loads[k].read]
    BY <2>1
  <2>4. (loads[k].excused \/ loads[k].read) \in BOOLEAN
    OBVIOUS
  <2>5. QED BY <2>2, <2>3, <2>4 DEF Load
<1>4. loads' \in [1..Len(loads) -> Load]
  BY <1>1, <1>3 DEF Blame
<1>5. loads' \in Seq(Load) /\ Len(loads') = Len(loads)
  BY <1>1, <1>4
<1>6. loads = <<>> <=> loads' = <<>>
  BY <1>1, <1>5, EmptySeq DEF PageTypeOK
<1>7. Accounted'
  <2>1. CASE Settling
    BY <2>1, <1>2, <1>3, <1>5 DEF Settling, Accounted
  <2>2. CASE Refreshing
    <3>1. Len(loads) \in 1..Len(loads)
      BY <1>1, <2>2, EmptySeq DEF Refreshing, PageTypeOK
    <3>2. loads'[Len(loads)].excused \/ WillDo(loads[Len(loads)])
      BY <2>2, <3>1, <1>3 DEF Refreshing
    <3>3. QED BY <2>2, <3>1, <3>2, <1>2, <1>3, <1>5, <1>6 DEF Refreshing, WillDo, Accounted
  <2>3. CASE where = "away" \/ Pending
    BY <2>3 DEF Accounted
  <2>4. QED BY <2>1, <2>2, <2>3 DEF PageInv, Accounted
<1>8. Closing => Closing'
  BY <1>3, <1>5 DEF Closing
<1>9. QED BY <1>2, <1>5, <1>6, <1>7, <1>8 DEF Gone, PageInv

LEMMA OthersInv ==
  ASSUME PageInv, clicks' \in 0..MaxClicks, Others
  PROVE  PageInv'
<1>1. UNCHANGED <<where, acts, mode>> /\ Blame /\ job' \in JobState
  BY DEF Others, JobState
<1>2. Pending => Pending'
  BY <1>1 DEF Pending
<1>3. /\ view' \in View /\ view'.dialog = view.dialog /\ view'.confirming = view.confirming
      /\ loads' \in Seq(Load) /\ Accounted' /\ Gone' /\ (Closing => Closing')
  BY <1>1, <1>2, Blamed
<1>4. PageTypeOK'
  BY <1>1, <1>3 DEF PageInv, PageTypeOK
<1>5. QED BY <1>1, <1>3, <1>4 DEF PageInv, ActionsHaveTheirPage, DialogWaits

LEMMA ActionAppliesInv ==
  ASSUME PageInv, clicks' \in 0..MaxClicks, NEW i \in 1..Len(acts), ActionApplies(i)
  PROVE  PageInv'
<1>1. /\ PageTypeOK /\ acts \in Seq(Action) /\ Len(acts) \in Nat /\ acts[i] \in Action
      /\ DOMAIN acts = 1..Len(acts)
  BY Elements DEF PageInv
<1>2. PICK status \in {"done", "refused"} :
        /\ acts' = [acts EXCEPT ![i].status = status]
        /\ status = "refused" => UNCHANGED <<job, mode>>
  BY DEF ActionApplies
<1> DEFINE a == [acts[i] EXCEPT !.status = status]
<1>3. a \in Action /\ a.name = acts[i].name /\ a.mounted = acts[i].mounted /\ a.status = status
  BY <1>1 DEF Action
<1>4. acts' = [acts EXCEPT ![i] = a]
  BY <1>2
<1> HIDE DEF a
<1>5. /\ acts' \in Seq(Action) /\ Len(acts') = Len(acts)
      /\ \A k \in 1..Len(acts) : acts'[k] = IF k = i THEN a ELSE acts[k]
  BY <1>1, <1>3, <1>4, ExceptSeq
<1>6. job' \in JobState \cup {"none"} /\ mode' \in Modes /\ UNCHANGED where
  <2>1. CASE UNCHANGED <<job, mode>>
    BY <2>1, <1>1 DEF ActionApplies, PageTypeOK
  <2>2. CASE job' = JobAfter(acts[i]) /\ mode' = ModeAfter(acts[i])
    BY <2>2, <1>1 DEF ActionApplies, PageTypeOK, JobAfter, ModeAfter, JobState, Modes, Action, Dialogs
  <2>3. QED BY <2>1, <2>2 DEF ActionApplies
<1>7. Pending => Pending'
  <2>1. SUFFICES ASSUME Pending PROVE Pending'
    OBVIOUS
  <2>2. PICK k \in 1..Len(acts) : acts[k].mounted /\ acts[k].status = "done"
    BY <2>1 DEF Pending
  <2>3. k # i
    BY <2>2 DEF ActionApplies
  <2>4. QED BY <2>2, <2>3, <1>5 DEF Pending
<1>8. /\ view' \in View /\ view'.dialog = view.dialog /\ view'.confirming = view.confirming
      /\ loads' \in Seq(Load) /\ Accounted' /\ Gone' /\ (Closing => Closing')
  <2>1. CASE ~acts[i].mounted
    <3>1. Blame
      BY <2>1 DEF ActionApplies
    <3>2. QED BY <3>1, <1>6, <1>7, Blamed
  <2>2. CASE acts[i].mounted
    <3>1. UNCHANGED <<view, loads>>
      BY <2>2 DEF ActionApplies
    <3>2. CASE status = "done"
      <4>1. acts'[i].mounted /\ acts'[i].status = "done" /\ i \in 1..Len(acts')
        BY <3>2, <2>2, <1>3, <1>5
      <4>2. Pending'
        BY <4>1 DEF Pending
      <4>3. QED BY <4>2, <3>1, <1>1, <1>6 DEF Accounted, PageInv, Gone, PageTypeOK, Closing
    <3>3. CASE status = "refused"
      <4>1. UNCHANGED <<job, mode, where, loads>>
        BY <3>1, <3>3, <1>2, <1>6
      <4>2. Accounted' /\ Gone'
        BY <4>1, <3>1, <1>7, NothingShown DEF PageInv
      <4>3. QED BY <4>2, <3>1, <1>1 DEF PageTypeOK, Closing
    <3>4. QED BY <3>2, <3>3
  <2>3. QED BY <2>1, <2>2
<1>9. PageTypeOK'
  BY <1>1, <1>5, <1>6, <1>8 DEF PageTypeOK
<1>10. ActionsHaveTheirPage'
  BY <1>3, <1>5, <1>6, <1>8 DEF PageInv, ActionsHaveTheirPage
<1>11. DialogWaits'
  BY <1>3, <1>5, <1>8 DEF PageInv, DialogWaits
<1>12. QED BY <1>8, <1>9, <1>10, <1>11 DEF PageInv

(* An action that ends leaves the others.                                  *)
LEMMA ActionLeaves ==
  ASSUME PageTypeOK, NEW i \in 1..Len(acts)
  PROVE  /\ RemoveAt(acts, i) \in Seq(Action)
         /\ \A k \in 1..Len(RemoveAt(acts, i)) : \E j \in 1..Len(acts) : j # i /\ RemoveAt(acts, i)[k] = acts[j]
         /\ \A j \in 1..Len(acts) : j # i => \E k \in 1..Len(RemoveAt(acts, i)) : RemoveAt(acts, i)[k] = acts[j]
<1>1. acts \in Seq(Action)
  BY DEF PageTypeOK
<1>2. ASSUME NEW k \in 1..Len(RemoveAt(acts, i))
      PROVE  \E j \in 1..Len(acts) : j # i /\ RemoveAt(acts, i)[k] = acts[j]
  BY <1>1, RemoveAtOrigin
<1>3. ASSUME NEW j \in 1..Len(acts), j # i
      PROVE  \E k \in 1..Len(RemoveAt(acts, i)) : RemoveAt(acts, i)[k] = acts[j]
  BY <1>1, <1>3, RemoveAtRest
<1>4. RemoveAt(acts, i) \in Seq(Action)
  BY <1>1, RemoveAtProperties
<1>5. QED BY <1>2, <1>3, <1>4

(* One that is not awaited by the page ends.                               *)
LEMMA IdleEnd ==
  ASSUME PageInv, clicks' \in 0..MaxClicks, NEW i \in 1..Len(acts), ~acts[i].mounted,
         acts' = RemoveAt(acts, i), UNCHANGED <<job, mode, where, view, loads>>
  PROVE  PageInv'
<1>1. /\ acts' \in Seq(Action)
      /\ \A k \in 1..Len(acts') : \E j \in 1..Len(acts) : j # i /\ acts'[k] = acts[j]
      /\ \A j \in 1..Len(acts) : j # i => \E k \in 1..Len(acts') : acts'[k] = acts[j]
  <2>1. PageTypeOK
    BY DEF PageInv
  <2>2. QED BY <2>1, ActionLeaves
<1>2. Pending => Pending'
  <2>1. SUFFICES ASSUME Pending PROVE Pending'
    OBVIOUS
  <2>2. PICK j \in 1..Len(acts) : acts[j].mounted /\ acts[j].status = "done"
    BY <2>1 DEF Pending
  <2>3. PICK k \in 1..Len(acts') : acts'[k] = acts[j]
    BY <2>2, <1>1
  <2>4. QED BY <2>2, <2>3 DEF Pending
<1>3. Accounted' /\ Gone'
  BY <1>2, NothingShown DEF PageInv
<1>4. PageTypeOK'
  BY <1>1 DEF PageInv, PageTypeOK
<1>5. ActionsHaveTheirPage'
  <2>1. ASSUME NEW k \in 1..Len(acts'), acts'[k].mounted
        PROVE  where # "away" /\ (acts'[k].name = "remove" => where = "job")
    <3>1. PICK j \in 1..Len(acts) : acts'[k] = acts[j]
      BY <1>1
    <3>2. QED BY <2>1, <3>1 DEF PageInv, ActionsHaveTheirPage
  <2>2. QED BY <2>1 DEF PageInv, ActionsHaveTheirPage
<1>6. DialogWaits'
  <2>1. SUFFICES ASSUME view.confirming, ~Closing PROVE DialogWaits'
    BY DEF PageInv, DialogWaits, Closing
  <2>2. PICK j \in 1..Len(acts) : acts[j].mounted /\ acts[j].name = view.dialog
    BY <2>1 DEF PageInv, DialogWaits
  <2>3. PICK k \in 1..Len(acts') : acts'[k] = acts[j]
    BY <2>2, <1>1
  <2>4. QED BY <2>1, <2>2, <2>3 DEF PageInv, DialogWaits
<1>7. QED BY <1>3, <1>4, <1>5, <1>6 DEF PageInv

LEMMA RemovalEndsInv ==
  ASSUME PageInv, clicks' \in 0..MaxClicks, NEW i \in 1..Len(acts), RemovalEnds(i)
  PROVE  PageInv'
<1> DEFINE rest == RemoveAt(acts, i)
<1>1. /\ rest \in Seq(Action)
      /\ \A k \in 1..Len(rest) : \E j \in 1..Len(acts) : j # i /\ rest[k] = acts[j]
  BY ActionLeaves DEF PageInv
<1>2. Len(rest) \in Nat /\ DOMAIN rest = 1..Len(rest)
  BY <1>1, LenProperties
<1>3. CASE where = "queue"
  <2>1. ~acts[i].mounted
    BY <1>3 DEF RemovalEnds, PageInv, ActionsHaveTheirPage
  <2>2. acts' = [k \in DOMAIN rest |-> rest[k]]
    BY <1>3 DEF RemovalEnds
  <2>3. acts' = rest
    BY <2>2, <1>1, <1>2
  <2>4. QED BY <2>1, <2>3, <1>3, IdleEnd DEF RemovalEnds
<1>4. CASE where # "queue"
  <2>1. acts' = [k \in DOMAIN rest |-> [rest[k] EXCEPT !.mounted = FALSE]]
    BY <1>4 DEF RemovalEnds
  <2> HIDE DEF rest
  <2>2. acts' \in Seq(Action) /\ \A k \in 1..Len(acts') : ~acts'[k].mounted
    BY <2>1, <1>1, LeftBehind
  <2>3. Mount("queue") /\ UNCHANGED <<job, mode>> /\ "queue" \in Pages
    BY <1>4 DEF RemovalEnds, Pages
  <2>4. /\ where' \in Pages /\ view' \in View /\ loads' \in Seq(Load) /\ Accounted' /\ Gone'
        /\ view'.dialog = NoDialog /\ view'.confirming = FALSE
    BY <2>3, Mounted
  <2>5. PageTypeOK'
    BY <2>2, <2>3, <2>4 DEF PageInv, PageTypeOK
  <2>6. QED BY <2>2, <2>4, <2>5 DEF PageInv, ActionsHaveTheirPage, DialogWaits, NoDialog
<1>5. QED BY <1>3, <1>4

LEMMA LateEndInv ==
  ASSUME PageInv, clicks' \in 0..MaxClicks, NEW i \in 1..Len(acts), LateEnd(i)
  PROVE  PageInv'
BY IdleEnd DEF LateEnd

(* What the end of an awaited action leaves of the dialogs and of the      *)
(* actions: either it releases the dialog, or a load does later, or it was *)
(* none that a dialog waits for.                                           *)
LEMMA AwaitedEnd ==
  ASSUME PageInv, NEW i \in 1..Len(acts), acts[i].mounted, acts' = RemoveAt(acts, i),
         UNCHANGED where,
         \/ view'.dialog = NoDialog /\ view'.confirming = FALSE
         \/ /\ view'.dialog = view.dialog /\ view'.confirming = view.confirming
            /\ Closing => Closing'
            /\ acts[i].name \in Dialogs => Closing'
  PROVE  /\ acts' \in Seq(Action) /\ ActionsHaveTheirPage' /\ DialogWaits'
         /\ acts[i].status # "done" => (Pending => Pending')
<1>1. PageTypeOK /\ view \in View
  BY DEF PageInv, PageTypeOK
<1>2. /\ acts' \in Seq(Action)
      /\ \A k \in 1..Len(acts') : \E j \in 1..Len(acts) : j # i /\ acts'[k] = acts[j]
      /\ \A j \in 1..Len(acts) : j # i => \E k \in 1..Len(acts') : acts'[k] = acts[j]
  BY <1>1, ActionLeaves
<1>3. ASSUME acts[i].status # "done", Pending PROVE Pending'
  <2>1. PICK j \in 1..Len(acts) : acts[j].mounted /\ acts[j].status = "done"
    BY <1>3 DEF Pending
  <2>2. PICK k \in 1..Len(acts') : acts'[k] = acts[j]
    BY <2>1, <1>2, <1>3
  <2>3. QED BY <2>1, <2>2 DEF Pending
<1>4. ASSUME NEW k \in 1..Len(acts'), acts'[k].mounted
      PROVE  where # "away" /\ (acts'[k].name = "remove" => where = "job")
  <2>1. PICK j \in 1..Len(acts) : acts'[k] = acts[j]
    BY <1>2
  <2>2. QED BY <1>4, <2>1 DEF PageInv, ActionsHaveTheirPage
<1>5. CASE view'.dialog = NoDialog /\ view'.confirming = FALSE
  <2>1. ActionsHaveTheirPage'
    BY <1>4, <1>5 DEF ActionsHaveTheirPage, NoDialog
  <2>2. DialogWaits'
    BY <1>5 DEF DialogWaits
  <2>3. QED BY <2>1, <2>2, <1>2, <1>3
<1>6. CASE /\ view'.dialog = view.dialog /\ view'.confirming = view.confirming
           /\ Closing => Closing'
           /\ acts[i].name \in Dialogs => Closing'
  <2>1. DialogWaits'
    <3>1. SUFFICES ASSUME view.confirming, ~Closing' PROVE DialogWaits'
      BY <1>6 DEF PageInv, DialogWaits
    <3>2. PICK j \in 1..Len(acts) : acts[j].mounted /\ acts[j].name = view.dialog
      BY <3>1, <1>6 DEF PageInv, DialogWaits
    <3>3. view.dialog \in Dialogs
      BY <3>1, <1>1 DEF PageInv, DialogWaits, View
    <3>4. PICK k \in 1..Len(acts') : acts'[k] = acts[j]
      BY <3>1, <3>2, <3>3, <1>2, <1>6
    <3>5. QED BY <3>1, <3>2, <3>4, <1>6 DEF PageInv, DialogWaits
  <2>2. ActionsHaveTheirPage'
    <3>1. /\ where = "away" => view.dialog = NoDialog
          /\ view.dialog = "remove" => where = "job"
      BY DEF PageInv, ActionsHaveTheirPage
    <3>2. QED BY <3>1, <1>4, <1>6 DEF ActionsHaveTheirPage
  <2>3. QED BY <2>1, <2>2, <1>2, <1>3
<1>7. QED BY <1>5, <1>6

LEMMA ActionEndsInv ==
  ASSUME PageInv, clicks' \in 0..MaxClicks, NEW i \in 1..Len(acts), ActionEnds(i)
  PROVE  PageInv'
<1> DEFINE load == [LoadOf(acts[i].query, acts[i].query # view.query) EXCEPT
                      !.closes = acts[i].name \in Dialogs]
<1>1. view' = view /\ view \in View
  BY DEF ActionEnds, PageInv, PageTypeOK
<1>2. loads \in Seq(Load) /\ Len(loads) \in Nat /\ acts[i].query \in Queries
  BY Elements DEF PageInv, Action
<1>3. /\ load \in Load /\ load.query = acts[i].query /\ ~load.read
      /\ load.excused = (acts[i].query # view.query)
      /\ load.closes = (acts[i].name \in Dialogs)
  <2>1. (acts[i].query # view.query) \in BOOLEAN /\ (acts[i].name \in Dialogs) \in BOOLEAN
    OBVIOUS
  <2>2. LoadOf(acts[i].query, acts[i].query # view.query) \in Load
    BY <2>1, <1>2, FirstTypes
  <2>3. QED BY <2>1, <2>2 DEF LoadOf, Load
<1>4. loads' = Append(loads, load)
  BY DEF ActionEnds
<1> HIDE DEF load
<1>5. /\ Refreshing' /\ loads' \in Seq(Load)
      /\ Len(loads') = Len(loads) + 1 /\ loads'[Len(loads) + 1] = load
      /\ \A k \in 1..Len(loads) : loads'[k] = loads[k]
  BY <1>1, <1>2, <1>3, <1>4, LastRefreshes
<1>6. Closing => Closing'
  BY <1>2, <1>5 DEF Closing
<1>7. acts[i].name \in Dialogs => Closing'
  <2>1. Len(loads) + 1 \in 1..Len(loads')
    BY <1>2, <1>5
  <2>2. QED BY <2>1, <1>3, <1>5 DEF Closing
<1>8. acts' \in Seq(Action) /\ ActionsHaveTheirPage' /\ DialogWaits'
  BY <1>1, <1>6, <1>7, AwaitedEnd DEF ActionEnds
<1>9. UNCHANGED <<job, mode, where>>
  BY DEF ActionEnds
<1>10. where # "away"
  BY DEF ActionEnds, PageInv, ActionsHaveTheirPage
<1>11. PageTypeOK'
  BY <1>1, <1>5, <1>8, <1>9 DEF PageInv, PageTypeOK
<1>12. QED BY <1>5, <1>8, <1>9, <1>10, <1>11 DEF PageInv, Accounted, Gone

LEMMA ActionFailsInv ==
  ASSUME PageInv, clicks' \in 0..MaxClicks, NEW i \in 1..Len(acts), ActionFails(i)
  PROVE  PageInv'
<1> DEFINE late == acts[i].status = "done"
           ends == acts[i].name \in Dialogs
           v == Released(view, ends)
<1>1. /\ v \in View /\ v.query = view.query /\ v.rows = view.rows /\ v.job = view.job
      /\ v.mode = view.mode /\ v.excused = view.excused
      /\ ends => v.dialog = NoDialog /\ v.confirming = FALSE
      /\ ~ends => v = view
  <2>1. ends \in BOOLEAN
    OBVIOUS
  <2>2. QED BY <2>1, ReleasedView
<1>2. view' = [v EXCEPT !.excused = v.excused \/ late]
  BY DEF ActionFails
<1>3. /\ view' \in View /\ view'.query = view.query /\ view'.rows = view.rows
      /\ view'.job = view.job /\ view'.mode = view.mode
      /\ view'.excused = (view.excused \/ late)
      /\ view'.dialog = v.dialog /\ view'.confirming = v.confirming
  <2>1. (v.excused \/ late) \in BOOLEAN
    OBVIOUS
  <2> HIDE DEF v, late
  <2>2. QED BY <2>1, <1>1, <1>2 DEF View
<1>5. UNCHANGED <<job, mode, where>>
  BY DEF ActionFails
<1>6. /\ PageTypeOK /\ loads \in Seq(Load) /\ Len(loads) \in Nat /\ DOMAIN loads = 1..Len(loads)
      /\ \A k \in 1..Len(loads) : loads[k] \in Load
  BY Elements DEF PageInv
<1>7. ASSUME NEW k \in 1..Len(loads)
      PROVE  /\ loads'[k] \in Load /\ (late => loads'[k].excused) /\ (~late => loads'[k] = loads[k])
             /\ loads'[k].closes = loads[k].closes
  <2>1. loads'[k] = [loads[k] EXCEPT !.excused = loads[k].excused \/ late]
    BY <1>6 DEF ActionFails
  <2>2. (loads[k].excused \/ late) \in BOOLEAN /\ loads[k] \in Load
    BY <1>6
  <2> HIDE DEF late
  <2>3. loads'[k] \in Load /\ (late => loads'[k].excused) /\ loads'[k].closes = loads[k].closes
    BY <2>1, <2>2 DEF Load
  <2>4. CASE ~late
    <3>1. (loads[k].excused \/ late) = loads[k].excused
      BY <2>2, <2>4 DEF Load
    <3>2. loads'[k] = [loads[k] EXCEPT !.excused = loads[k].excused]
      BY <2>1, <3>1
    <3>3. QED BY <3>2, <2>2, <2>3, <2>4 DEF Load
  <2>5. QED BY <2>3, <2>4
<1>8. loads' \in [1..Len(loads) -> Load]
  BY <1>6, <1>7 DEF ActionFails
<1>9. loads' \in Seq(Load) /\ Len(loads') = Len(loads)
  BY <1>6, <1>8
<1>4. /\ acts' \in Seq(Action) /\ ActionsHaveTheirPage' /\ DialogWaits'
      /\ ~late => (Pending => Pending')
  <2>1. Closing => Closing'
    BY <1>7, <1>9 DEF Closing
  <2>2. \/ view'.dialog = NoDialog /\ view'.confirming = FALSE
        \/ /\ view'.dialog = view.dialog /\ view'.confirming = view.confirming
           /\ acts[i].name \notin Dialogs
    BY <1>1, <1>3
  <2>3. QED BY <2>1, <2>2, AwaitedEnd DEF ActionFails
<1>10. PageTypeOK'
  BY <1>3, <1>4, <1>5, <1>9 DEF PageInv, PageTypeOK
<1>11. Accounted' /\ Gone'
  <2>1. CASE late
    <3>1. Settling'
      BY <2>1, <1>3, <1>7, <1>9 DEF Settling
    <3>2. loads = <<>> => loads' = <<>>
      BY <1>6, <1>9, EmptySeq
    <3>3. QED BY <3>1, <3>2, <1>5 DEF PageInv, Accounted, Gone
  <2>2. CASE ~late
    <3>1. loads' = loads
      BY <2>2, <1>6, <1>7, <1>9, SeqEqual
    <3>2. view'.excused = view.excused
      BY <2>2, <1>3, <1>6 DEF PageTypeOK, View
    <3>3. Pending => Pending'
      BY <2>2, <1>4
    <3>4. UNCHANGED <<job, mode, where, loads>>
      BY <3>1, <1>5
    <3>5. QED BY <3>2, <3>3, <3>4, <1>3, NothingShown DEF PageInv
  <2>3. QED BY <2>1, <2>2
<1>12. QED BY <1>4, <1>10, <1>11 DEF PageInv

-----------------------------------------------------------------------------
(* Theorems.                                                               *)

LEMMA PageInitInv == PageInit => PageInv
<1> SUFFICES ASSUME PageInit PROVE PageInv
  OBVIOUS
<1>1. LoadOf(FirstQuery, FALSE) \in Load /\ NewView \in View
  BY FirstTypes
<1>2. /\ loads \in Seq(Load) /\ loads # <<>> /\ Len(loads) = 1
      /\ loads[1] = LoadOf(FirstQuery, FALSE)
  BY <1>1, OneElement DEF PageInit
<1>3. acts \in Seq(Action) /\ Len(acts) = 0
  BY EmptySeq DEF PageInit
<1>4. clicks \in 0..MaxClicks
  <2>1. clicks = 0 /\ MaxClicks \in Nat
    BY BoundAssumption DEF PageInit
  <2>2. QED BY <2>1
<1>5. PageTypeOK
  BY <1>1, <1>2, <1>3, <1>4 DEF PageInit, PageTypeOK, JobState, Modes
<1>6. Refreshing
  BY <1>2 DEF PageInit, Refreshing, WillDo, LoadOf, NewView
<1>7. ActionsHaveTheirPage /\ DialogWaits /\ Gone /\ Accounted
  BY <1>3, <1>6 DEF PageInit, ActionsHaveTheirPage, DialogWaits, Gone, Accounted, NewView, NoDialog
<1>8. QED BY <1>5, <1>7 DEF PageInv

LEMMA PageNextInv == PageInv /\ [PageNext]_pageVars => PageInv'
<1> SUFFICES ASSUME PageInv, [PageNext]_pageVars PROVE PageInv'
  OBVIOUS
<1>1. CASE UNCHANGED pageVars
  BY <1>1 DEF pageVars, PageInv, PageTypeOK, Accounted, Settling, Refreshing, ViewIsCurrent, WillDo, Seen,
              Pending, ActionsHaveTheirPage, DialogWaits, Closing, Gone
<1>2. clicks \in 0..MaxClicks /\ MaxClicks \in Nat
  BY BoundAssumption DEF PageInv, PageTypeOK
<1>3. DOMAIN loads = 1..Len(loads) /\ DOMAIN acts = 1..Len(acts)
  BY Elements DEF PageInv
<1>4. CASE Answers
  <2>1. clicks' \in 0..MaxClicks
    BY <1>2, <1>4 DEF Answers
  <2>2. CASE \E i \in DOMAIN loads : ReadServer(i) \/ LoadAnswers(i) \/ LoadFails(i)
    BY <2>1, <2>2, <1>3, ReadServerInv, LoadAnswersInv, LoadFailsInv
  <2>3. CASE \E i \in DOMAIN acts :
               ActionApplies(i) \/ ActionEnds(i) \/ RemovalEnds(i) \/ LateEnd(i) \/ ActionFails(i)
    BY <2>1, <2>3, <1>3, ActionAppliesInv, ActionEndsInv, RemovalEndsInv, LateEndInv, ActionFailsInv
  <2>4. QED BY <2>2, <2>3, <1>4 DEF Answers, Server
<1>5. CASE Operator
  <2>1. clicks' \in 0..MaxClicks
    BY <1>2, <1>5 DEF Operator
  <2>2. QED
    BY <2>1, <1>5, NavigateInv, QueriesInv, DialogsInv, TogglePauseInv, HandleConfirmInv
    DEF Operator, Click
<1>6. CASE Others /\ UNCHANGED clicks
  BY <1>2, <1>6, OthersInv
<1>7. QED BY <1>1, <1>4, <1>5, <1>6 DEF PageNext

THEOREM PageInvariance == PageSpec => []PageInv
BY PageInitInv, PageNextInv, PTL DEF PageSpec

(* The pages keep their types: no click or answer, in whatever order, puts *)
(* a page number, a tab or a request where the code has no case for it.    *)
THEOREM PageTypeCorrect == PageSpec => []PageTypeOK
BY PageInvariance, PTL DEF PageInv

(* For any number of loads and actions that cross, a queue page at rest    *)
(* shows the query that is selected and the job and the queue as they are, *)
(* unless something is known to have come in between.                      *)
THEOREM PagesAreCurrent == PageSpec => []ShownIsCurrent
<1>1. PageInv => ShownIsCurrent
  <2>1. SUFFICES ASSUME PageInv, AtRest, where # "away", ~view.excused
                 PROVE  /\ where = "queue" => view.rows = view.query
                        /\ view.job = Seen(where, view.query)
                        /\ where # "job" => view.mode = mode
    BY DEF ShownIsCurrent
  <2>2. ~Pending
    BY <2>1, Elements DEF AtRest, Pending, PageInv
  <2>3. ~Refreshing
    BY <2>1 DEF AtRest, Refreshing
  <2>4. Settling
    BY <2>1, <2>2, <2>3 DEF PageInv, Accounted
  <2>5. QED BY <2>1, <2>4 DEF Settling, ViewIsCurrent
<1>2. QED BY <1>1, PageInvariance, PTL

(* A dialog that is waiting waits for an action of this page that has not  *)
(* ended, or for the load it has ended with: none is left without the      *)
(* answer that releases it.                                                *)
THEOREM DialogsAreReleased == PageSpec => []DialogWaits
BY PageInvariance, PTL DEF PageInv
=============================================================================
