------------------------- MODULE AuditStoreProofs -------------------------
(***************************************************************************)
(* Proofs about AuditStore, for every set of requests, every supply of ids *)
(* and timestamps and every maxEntries.                                    *)
(*                                                                         *)
(* The inductive invariant rests on one observation: what an append has    *)
(* selected for deletion is compared with everything ever inserted, a set  *)
(* that only grows, and not with the table, which other appends shrink.    *)
(***************************************************************************)
EXTENDS AuditStore, TLAPS, FiniteSetTheorems, WellFoundedInduction

-----------------------------------------------------------------------------
(* The order of the entries and the window of the newest MaxEntries, for   *)
(* every finite set of entries.  The library's induction theorems are out  *)
(* of reach; where a least element is needed it comes from WFMin, applied  *)
(* to the family of the sets Above(r, S), which strict inclusion orders    *)
(* well.                                                                   *)

(* Timestamp and then id is a strict order, total on entries.              *)
LEMMA NewerIsStrictOrder ==
  ASSUME NEW a \in Entry, NEW b \in Entry, NEW c \in Entry
  PROVE  /\ ~Newer(a, a)
         /\ Newer(a, b) /\ Newer(b, c) => Newer(a, c)
         /\ a = b \/ Newer(a, b) \/ Newer(b, a)
<1>1. \A e \in {a, b, c} : e.ts \in Nat /\ e.id \in Nat
  BY IdsAssumption, TimesAssumption DEF Entry
<1>2. a.ts = b.ts /\ a.id = b.id => a = b
  BY DEF Entry
<1>3. QED
  BY <1>1, <1>2 DEF Newer

(* The entries before e are finitely many, and never more in a subset.     *)
LEMMA AboveFinite ==
  ASSUME NEW S, IsFiniteSet(S), NEW T \in SUBSET S, NEW e
  PROVE  /\ IsFiniteSet(Above(e, S)) /\ Cardinality(Above(e, S)) \in Nat
         /\ IsFiniteSet(Above(e, T)) /\ Cardinality(Above(e, T)) \in Nat
         /\ Cardinality(Above(e, T)) <= Cardinality(Above(e, S))
<1>1. Above(e, S) \in SUBSET S /\ Above(e, T) \in SUBSET Above(e, S)
  BY DEF Above
<1>2. IsFiniteSet(Above(e, S)) /\ Cardinality(Above(e, S)) \in Nat
  BY <1>1, FS_Subset, FS_CardinalityType
<1>3. QED
  BY <1>1, <1>2, FS_Subset, FS_CardinalityType

(* Every entry is in the window or in the overflow, and none is in both.   *)
LEMMA WindowSplit ==
  ASSUME NEW S, IsFiniteSet(S)
  PROVE  /\ Newest(S) \cup Overflow(S) = S
         /\ Newest(S) \cap Overflow(S) = {}
<1>1. \A e : Cardinality(Above(e, S)) \in Nat
  BY AboveFinite
<1>2. QED
  BY <1>1, MaxEntriesAssumption DEF Newest, Overflow

(* An entry that is in the window of a set is in the window of each subset *)
(* that holds it: storing more entries can only push it out.               *)
LEMMA WindowAntitone ==
  ASSUME NEW S, IsFiniteSet(S), NEW T \in SUBSET S
  PROVE  Newest(S) \cap T \subseteq Newest(T)
<1> SUFFICES ASSUME NEW e \in T, Cardinality(Above(e, S)) < MaxEntries
             PROVE  Cardinality(Above(e, T)) < MaxEntries
  BY DEF Newest
<1> QED
  BY AboveFinite, MaxEntriesAssumption

(* An entry that is out of the window of a set is out of that of every     *)
(* larger set.                                                             *)
LEMMA OverflowMonotone ==
  ASSUME NEW S, IsFiniteSet(S), NEW T \in SUBSET S, NEW e \in Overflow(T)
  PROVE  e \in Overflow(S)
<1>1. e \in S /\ Cardinality(Above(e, T)) >= MaxEntries
  BY DEF Overflow
<1>2. Cardinality(Above(e, S)) >= MaxEntries
  BY <1>1, AboveFinite, MaxEntriesAssumption
<1>3. QED
  BY <1>1, <1>2 DEF Overflow

(* Of every non-empty set of entries of S one has no entry of that set     *)
(* among those before it.                                                  *)
LEMMA NewestOf ==
  ASSUME NEW S \in SUBSET Entry, IsFiniteSet(S), NEW R \in SUBSET S, R # {}
  PROVE  \E r \in R : \A x \in R : ~Newer(x, r)
<1> DEFINE Aboves == {Above(r, S) : r \in R}
           Less   == StrictSubsetOrdering(S)
<1>1. Aboves \subseteq FiniteSubsetsOf(S) /\ Aboves # {}
  <2>1. \A r \in R : Above(r, S) \in SUBSET S /\ IsFiniteSet(Above(r, S))
    BY AboveFinite DEF Above
  <2>2. QED
    BY <2>1 DEF FiniteSubsetsOf
<1>2. PICK A \in Aboves : \A B \in Aboves : <<B, A>> \notin Less
  <2>1. IsWellFoundedOn(Less, FiniteSubsetsOf(S))
    BY FS_StrictSubsetOrderingWellFounded
  <2> HIDE DEF Aboves, Less
  <2>2. QED
    BY <1>1, <2>1, WFMin
<1>3. PICK r \in R : A = Above(r, S)
  OBVIOUS
<1>4. ASSUME NEW x \in R, Newer(x, r)
      PROVE  FALSE
  <2>1. Above(x, S) \subseteq Above(r, S)
    BY <1>4, NewerIsStrictOrder DEF Above
  <2>2. x \in Above(r, S) /\ x \notin Above(x, S)
    BY <1>4, NewerIsStrictOrder DEF Above
  <2>3. <<Above(x, S), Above(r, S)>> \in Less
    BY <2>1, <2>2 DEF StrictSubsetOrdering, Above
  <2>4. QED
    BY <1>2, <1>3, <2>3
<1>5. QED
  BY <1>4

(* A window is full before anything overflows: an entry with MaxEntries    *)
(* newer ones has MaxEntries newer ones in the window alone.               *)
LEMMA WindowFull ==
  ASSUME NEW S \in SUBSET Entry, IsFiniteSet(S), NEW e \in Entry,
         Cardinality(Above(e, S)) >= MaxEntries
  PROVE  Cardinality(Above(e, Newest(S))) >= MaxEntries
<1> DEFINE Inside  == Above(e, Newest(S))
           Outside == Above(e, S) \ Newest(S)
<1>1. /\ Newest(S) \in SUBSET S
      /\ Inside \subseteq S /\ IsFiniteSet(Inside) /\ Cardinality(Inside) \in Nat
  <2>1. Newest(S) \in SUBSET S
    BY DEF Newest
  <2>2. QED
    BY <2>1, AboveFinite DEF Above
<1>2. CASE Outside = {}
  <2>1. Above(e, S) = Inside
    BY <1>1, <1>2 DEF Above
  <2>2. QED
    BY <2>1
<1>3. CASE Outside # {}
  <2>1. Outside \in SUBSET S
    BY DEF Above
  <2>2. PICK r \in Outside : \A x \in Outside : ~Newer(x, r)
    BY <1>3, <2>1, NewestOf
  <2>3. Above(r, S) \subseteq Inside
    <3>1. SUFFICES ASSUME NEW x \in S, Newer(x, r)
                   PROVE  x \in Inside
      BY DEF Above
    <3>2. r \in Entry /\ Newer(r, e) /\ x \in Entry
      BY DEF Above
    <3>3. Newer(x, e)
      BY <3>1, <3>2, NewerIsStrictOrder
    <3>4. x \notin Outside
      BY <2>2, <3>1
    <3>5. QED
      BY <3>3, <3>4 DEF Above
  <2>4. Cardinality(Above(r, S)) <= Cardinality(Inside)
    BY <1>1, <2>3, FS_Subset
  <2>5. r \in Overflow(S)
    BY <2>1, WindowSplit
  <2>6. Cardinality(Above(r, S)) >= MaxEntries /\ Cardinality(Above(r, S)) \in Nat
    BY <2>5, AboveFinite DEF Overflow
  <2>7. QED
    BY <1>1, <2>4, <2>6, MaxEntriesAssumption
<1>4. QED
  BY <1>2, <1>3

(* Dropping any part of the overflow leaves the window as it is.           *)
LEMMA WindowStable ==
  ASSUME NEW S \in SUBSET Entry, IsFiniteSet(S), NEW T \in SUBSET S,
         Newest(S) \subseteq T
  PROVE  Newest(T) = Newest(S)
<1>1. Newest(S) \subseteq Newest(T)
  BY WindowAntitone DEF Newest
<1>2. ASSUME NEW e \in Newest(T), e \notin Newest(S)
      PROVE  FALSE
  <2>1. e \in T /\ e \in S /\ e \in Entry /\ IsFiniteSet(T)
    BY <1>2, FS_Subset DEF Newest
  <2>2. e \in Overflow(S)
    BY <1>2, <2>1, WindowSplit
  <2>3. Cardinality(Above(e, Newest(S))) >= MaxEntries
    BY <2>1, <2>2, WindowFull DEF Overflow
  <2>4. /\ Cardinality(Above(e, Newest(S))) <= Cardinality(Above(e, T))
        /\ Cardinality(Above(e, T)) \in Nat /\ Cardinality(Above(e, Newest(S))) \in Nat
    BY <2>1, AboveFinite
  <2>5. Cardinality(Above(e, T)) < MaxEntries
    BY <1>2 DEF Newest
  <2>6. QED
    BY <2>3, <2>4, <2>5, MaxEntriesAssumption
<1>3. QED
  BY <1>1, <1>2

(* A set without overflow holds at most MaxEntries entries.                *)
LEMMA WindowBounded ==
  ASSUME NEW S \in SUBSET Entry, IsFiniteSet(S), Overflow(S) = {}
  PROVE  Cardinality(S) <= MaxEntries
<1>1. CASE S = {}
  BY <1>1, FS_EmptySet, MaxEntriesAssumption
<1>2. CASE S # {}
  <2> DEFINE Below(e) == {r \in S : Newer(e, r)}
             Belows   == {Below(e) : e \in S}
             Less     == StrictSubsetOrdering(S)
  <2>1. PICK A \in Belows : \A B \in Belows : <<B, A>> \notin Less
    <3>1. \A e \in S : Below(e) \in SUBSET S /\ IsFiniteSet(Below(e))
      BY FS_Subset
    <3>2. Belows \subseteq FiniteSubsetsOf(S) /\ Belows # {}
      BY <1>2, <3>1 DEF FiniteSubsetsOf
    <3>3. IsWellFoundedOn(Less, FiniteSubsetsOf(S))
      BY FS_StrictSubsetOrderingWellFounded
    <3> HIDE DEF Belows, Less
    <3>4. QED
      BY <3>2, <3>3, WFMin
  <2>2. PICK e \in S : A = Below(e)
    OBVIOUS
  <2>3. \A x \in S : ~Newer(e, x)
    <3>1. SUFFICES ASSUME NEW x \in S, Newer(e, x)
                   PROVE  FALSE
      OBVIOUS
    <3>2. Below(x) \subseteq Below(e) /\ x \in Below(e) /\ x \notin Below(x)
      BY <3>1, NewerIsStrictOrder
    <3>3. <<Below(x), Below(e)>> \in Less
      BY <3>2 DEF StrictSubsetOrdering
    <3>4. QED
      BY <2>1, <2>2, <3>3
  <2>4. S \ {e} = Above(e, S)
    BY <2>3, NewerIsStrictOrder DEF Above
  <2>5. Cardinality(Above(e, S)) < MaxEntries /\ Cardinality(Above(e, S)) \in Nat
    BY WindowSplit, AboveFinite DEF Newest
  <2>6. Cardinality(S \ {e}) = Cardinality(S) - 1 /\ Cardinality(S) \in Nat
    BY FS_RemoveElement, FS_CardinalityType
  <2>7. Cardinality(S) - 1 < MaxEntries
    <3>1. Cardinality(S) - 1 = Cardinality(Above(e, S))
      BY <2>4, <2>6
    <3>2. QED
      BY <2>5, <3>1
  <2>8. QED
    BY <2>6, <2>7, MaxEntriesAssumption
<1>3. QED
  BY <1>1, <1>2

-----------------------------------------------------------------------------
(* The store.                                                              *)

(* An append about to delete has selected only entries that lie outside    *)
(* the newest MaxEntries of all entries ever inserted.                     *)
DoomedAreOld ==
  \A r \in Requests :
    call[r].pc = "delete" => call[r].overflow \subseteq Overflow(inserted)

IInv ==
  /\ TypeOK
  /\ rows \subseteq inserted
  /\ NewestRetained
  /\ DoomedAreOld

(* The shape of the states of a call, used to read the pc off a record.    *)
LEMMA CallShape ==
  ASSUME NEW c \in Call
  PROVE  /\ c.pc \in {"idle", "insert", "select", "delete"}
         /\ c.pc # "idle" => c.entry \in Entry
         /\ c.pc = "delete" => c.overflow \subseteq Entry
  BY DEF Call, Idle

LEMMA InitType == Init => TypeOK
<1> SUFFICES ASSUME Init
             PROVE  TypeOK
  OBVIOUS
<1>1. IsFiniteSet(rows) /\ IsFiniteSet(inserted)
  BY FS_EmptySet DEF Init
<1>2. call \in [Requests -> Call]
  BY DEF Init, Idling, Call, Idle
<1>3. QED
  BY <1>1, <1>2 DEF Init, TypeOK

(* Every reachable state has the declared types; the table stays finite.   *)
THEOREM TypeCorrect == Spec => []TypeOK
<1>1. TypeOK /\ [Next]_vars => TypeOK'
  <2> SUFFICES ASSUME TypeOK, [Next]_vars
               PROVE  TypeOK'
    OBVIOUS
  <2>1. ASSUME NEW r \in Requests, Record(r)
        PROVE  TypeOK'
    BY <2>1 DEF TypeOK, Record, Call
  <2>2. ASSUME NEW r \in Requests, Insert(r)
        PROVE  TypeOK'
    <3>1. call[r].entry \in Entry
      BY <2>2, CallShape DEF TypeOK, Insert
    <3>2. IsFiniteSet(rows') /\ IsFiniteSet(inserted')
      BY <2>2, FS_AddElement DEF TypeOK, Insert
    <3>3. call' \in [Requests -> Call]
      BY <2>2, <3>1 DEF TypeOK, Insert, Call
    <3>4. QED
      BY <2>2, <3>1, <3>2, <3>3 DEF TypeOK, Insert
  <2>3. ASSUME NEW r \in Requests, SelectOverflow(r)
        PROVE  TypeOK'
    <3>1. call[r].entry \in Entry /\ Overflow(rows) \in SUBSET Entry
      BY <2>3, CallShape DEF TypeOK, SelectOverflow, Overflow
    <3>2. call' \in [Requests -> Call]
      BY <2>3, <3>1 DEF TypeOK, SelectOverflow, Call, Idle, Idling
    <3>3. QED
      BY <2>3, <3>2 DEF TypeOK, SelectOverflow
  <2>4. ASSUME NEW r \in Requests, DeleteOverflow(r)
        PROVE  TypeOK'
    <3>1. IsFiniteSet(rows')
      BY <2>4, FS_Difference DEF TypeOK, DeleteOverflow
    <3>2. QED
      BY <2>4, <3>1 DEF TypeOK, DeleteOverflow, Call, Idle, Idling
  <2>5. ASSUME NEW r \in Requests, Abort(r)
        PROVE  TypeOK'
    BY <2>5 DEF TypeOK, Abort, Call, Idle, Idling
  <2>6. CASE UNCHANGED vars
    BY <2>6 DEF vars, TypeOK
  <2>7. QED
    BY <2>1, <2>2, <2>3, <2>4, <2>5, <2>6 DEF Next, Append
<1>2. QED
  BY <1>1, InitType, PTL DEF Spec

-----------------------------------------------------------------------------

(* What an append selects from the table is old among all entries ever     *)
(* inserted, because the table is a part of these.                         *)
LEMMA SelectedAreOld ==
  ASSUME IInv
  PROVE  Overflow(rows) \subseteq Overflow(inserted)
  BY OverflowMonotone DEF IInv, TypeOK

LEMMA InvInsert ==
  ASSUME IInv, NEW r \in Requests, Insert(r), TypeOK'
  PROVE  IInv'
<1> DEFINE e == call[r].entry
<1>1. /\ rows' = rows \cup {e} /\ inserted' = inserted \cup {e}
      /\ inserted \in SUBSET inserted' /\ IsFiniteSet(inserted')
  BY DEF Insert, TypeOK
<1>2. rows' \subseteq inserted'
  BY <1>1 DEF IInv
<1>3. NewestRetained'
  <2>1. Newest(inserted') \cap inserted \subseteq Newest(inserted)
    BY <1>1, WindowAntitone
  <2>2. Newest(inserted') \subseteq inserted'
    BY DEF Newest
  <2>3. QED
    BY <1>1, <2>1, <2>2 DEF IInv, NewestRetained
<1>4. DoomedAreOld'
  <2>1. Overflow(inserted) \subseteq Overflow(inserted')
    BY <1>1, OverflowMonotone
  <2>2. \A q \in Requests : call'[q].pc = "delete" => call'[q] = call[q]
    BY DEF Insert, IInv, TypeOK
  <2>3. QED
    BY <2>1, <2>2 DEF IInv, DoomedAreOld
<1>5. QED
  BY <1>2, <1>3, <1>4 DEF IInv

LEMMA InvSelect ==
  ASSUME IInv, NEW r \in Requests, SelectOverflow(r), TypeOK'
  PROVE  IInv'
<1>1. UNCHANGED <<rows, inserted>>
  BY DEF SelectOverflow
<1>2. DoomedAreOld'
  <2>1. \A q \in Requests : call'[q].pc = "delete" =>
          call'[q] = call[q] \/ call'[q].overflow = Overflow(rows)
    BY DEF SelectOverflow, IInv, TypeOK, Idling
  <2>2. QED
    BY <1>1, <2>1, SelectedAreOld DEF IInv, DoomedAreOld
<1>3. QED
  BY <1>1, <1>2 DEF IInv, NewestRetained

(* A DELETE takes nothing from the window.                                 *)
LEMMA DeleteSparesNewest ==
  ASSUME IInv, NEW r \in Requests, DeleteOverflow(r)
  PROVE  Newest(inserted) \subseteq rows'
<1>1. call[r].overflow \subseteq Overflow(inserted)
  BY DEF DeleteOverflow, IInv, DoomedAreOld
<1>2. call[r].overflow \cap Newest(inserted) = {}
  BY <1>1, WindowSplit DEF IInv, TypeOK
<1>3. QED
  BY <1>2 DEF DeleteOverflow, IInv, NewestRetained

LEMMA InvDelete ==
  ASSUME IInv, NEW r \in Requests, DeleteOverflow(r), TypeOK'
  PROVE  IInv'
<1>1. rows' = rows \ call[r].overflow /\ inserted' = inserted
  BY DEF DeleteOverflow
<1>3. NewestRetained'
  BY <1>1, DeleteSparesNewest DEF NewestRetained
<1>4. DoomedAreOld'
  BY <1>1 DEF DeleteOverflow, IInv, TypeOK, DoomedAreOld, Idling
<1>5. QED
  BY <1>1, <1>3, <1>4 DEF IInv

(* The steps that touch neither the table nor its history.                 *)
LEMMA InvOther ==
  ASSUME IInv, NEW r \in Requests, Record(r) \/ Abort(r), TypeOK'
  PROVE  IInv'
<1>1. UNCHANGED <<rows, inserted>>
  BY DEF Record, Abort
<1>2. \A q \in Requests : call'[q].pc = "delete" => call'[q] = call[q]
  BY DEF Record, Abort, IInv, TypeOK, Idling
<1>3. QED
  BY <1>1, <1>2 DEF IInv, NewestRetained, DoomedAreOld

(* IInv is inductive.                                                      *)
LEMMA InvStep == IInv /\ TypeOK' /\ [Next]_vars => IInv'
<1> SUFFICES ASSUME IInv, TypeOK', [Next]_vars
             PROVE  IInv'
  OBVIOUS
<1>1. CASE UNCHANGED vars
  BY <1>1 DEF vars, IInv, NewestRetained, DoomedAreOld
<1>2. QED
  BY <1>1, InvInsert, InvSelect, InvDelete, InvOther DEF Next, Append

LEMMA Invariance == Spec => []IInv
<1>1. Init => IInv
  BY InitType DEF Init, IInv, NewestRetained, DoomedAreOld, Newest, Idling
<1>2. QED
  BY <1>1, InvStep, TypeCorrect, PTL DEF Spec

(* No append ever prunes one of the newest maxEntries entries of all that  *)
(* were inserted, however appends interleave and wherever they die.        *)
THEOREM NewestAreRetained == Spec => []NewestRetained
<1>1. IInv => NewestRetained
  BY DEF IInv
<1>2. QED
  BY <1>1, Invariance, PTL
-----------------------------------------------------------------------------

(* OverflowAccounted with the types it needs to be inductive.              *)
AccountInv == TypeOK /\ OverflowAccounted

LEMMA AccountStep ==
  ASSUME AccountInv, NEW r \in Requests, Append(r) \/ Abort(r), TypeOK'
  PROVE  OverflowAccounted'
<1>1. CASE Record(r)
  BY <1>1 DEF Record, AccountInv, TypeOK, OverflowAccounted, Running
<1>2. CASE Insert(r)
  <2>1. call'[r].pc = "select"
    BY <1>2 DEF Insert, AccountInv, TypeOK
  <2>2. QED
    BY <2>1 DEF OverflowAccounted
<1>3. CASE SelectOverflow(r)
  <2>1. SUFFICES ASSUME NEW e \in Overflow(rows')
                 PROVE  call'[r].pc = "delete" /\ e \in call'[r].overflow
    BY DEF OverflowAccounted
  <2>2. Overflow(rows) # {} /\ e \in Overflow(rows)
    BY <1>3, <2>1 DEF SelectOverflow
  <2>3. QED
    BY <1>3, <2>2 DEF SelectOverflow, AccountInv, TypeOK
<1>4. CASE DeleteOverflow(r)
  <2>1. SUFFICES ASSUME NEW e \in Overflow(rows'), ~leaked
                 PROVE  \E q \in Requests :
                          \/ call'[q].pc = "select"
                          \/ call'[q].pc = "delete" /\ e \in call'[q].overflow
    BY <1>4 DEF OverflowAccounted, DeleteOverflow
  <2>2. rows' \in SUBSET rows /\ IsFiniteSet(rows) /\ e \notin call[r].overflow
    BY <1>4, <2>1 DEF DeleteOverflow, AccountInv, TypeOK, Overflow
  <2>3. e \in Overflow(rows)
    BY <2>1, <2>2, OverflowMonotone
  <2>4. PICK q \in Requests : \/ call[q].pc = "select"
                              \/ call[q].pc = "delete" /\ e \in call[q].overflow
    BY <2>1, <2>3 DEF AccountInv, OverflowAccounted
  <2>5. q # r
    BY <1>4, <2>2, <2>4 DEF DeleteOverflow
  <2>6. call'[q] = call[q]
    BY <1>4, <2>5 DEF DeleteOverflow, AccountInv, TypeOK
  <2>7. QED
    BY <2>4, <2>6
<1>5. CASE Abort(r)
  <2>1. CASE call[r].pc = "insert"
    BY <1>5, <2>1 DEF Abort, AccountInv, TypeOK, OverflowAccounted
  <2>2. CASE call[r].pc # "insert"
    BY <1>5, <2>2 DEF Abort, OverflowAccounted
  <2>3. QED
    BY <2>1, <2>2
<1>6. QED
  BY <1>1, <1>2, <1>3, <1>4, <1>5 DEF Append

(* Every row outside the window is on its way out, unless an append died   *)
(* and none has selected since.                                            *)
THEOREM OverflowIsAccounted == Spec => []OverflowAccounted
<1>1. Init => OverflowAccounted
  BY DEF Init, OverflowAccounted, Overflow
<1>2. OverflowAccounted /\ TypeOK /\ TypeOK' /\ [Next]_vars => OverflowAccounted'
  <2>1. CASE UNCHANGED vars
    BY <2>1 DEF vars, OverflowAccounted
  <2>2. CASE Next
    BY <2>2, AccountStep DEF Next, AccountInv
  <2>3. QED
    BY <2>1, <2>2
<1>3. QED
  BY <1>1, <1>2, TypeCorrect, PTL DEF Spec

(* Retention holds at rest: no append running and none lost, the table has *)
(* at most maxEntries rows.                                                *)
THEOREM TableBoundedAtRest == Spec => []BoundedAtRest
<1>1. TypeOK /\ OverflowAccounted => BoundedAtRest
  <2> SUFFICES ASSUME TypeOK, OverflowAccounted, ~leaked,
                      \A r \in Requests : ~Running(r)
               PROVE  Cardinality(rows) <= MaxEntries
    BY DEF BoundedAtRest
  <2>1. Overflow(rows) = {}
    BY DEF OverflowAccounted, Running
  <2>2. QED
    BY <2>1, WindowBounded DEF TypeOK
<1>2. QED
  BY <1>1, TypeCorrect, OverflowIsAccounted, PTL

-----------------------------------------------------------------------------

(* The abstract log reads the same order and window.                       *)
LEMMA SameOrder ==
  /\ Log!Entry = Entry
  /\ \A S : Log!Newest(S) = Newest(S)
<1>1. \A S : Log!Cardinality(S) = Cardinality(S)
  BY DEF Log!Cardinality, Cardinality, Log!IsFiniteSet, IsFiniteSet
<1>2. \A e, S : Log!Above(e, S) = Above(e, S)
  BY DEF Log!Above, Above, Log!Newer, Newer
<1>3. QED
  BY <1>1, <1>2 DEF Log!Entry, Entry, Log!Newest, Newest

(* The stores implement the abstract log: an INSERT is its Store step,     *)
(* every other step leaves what a reader is shown as it was.               *)
THEOREM StoreImplementsLog == Spec => ImplementsAuditLog
<1>1. Init => Log!Init
  BY DEF Init, Log!Init, Listed, Newest
<1>2. IInv /\ [Next]_vars => [Log!Next]_Listed
  <2> SUFFICES ASSUME IInv, [Next]_vars
               PROVE  Log!Next \/ Listed' = Listed
    OBVIOUS
  <2>1. ASSUME NEW r \in Requests, Insert(r)
        PROVE  Log!Next
    <3> DEFINE e == call[r].entry
    <3>1. e \in Entry /\ rows' = rows \cup {e} /\ rows' \in SUBSET Entry
      BY <2>1, CallShape DEF Insert, IInv, TypeOK
    <3>2. IsFiniteSet(rows')
      BY <3>1, FS_AddElement DEF IInv, TypeOK
    <3>3. Newest(rows) \cup {e} \in SUBSET rows'
      BY <3>1 DEF Newest
    <3>4. Newest(rows') \subseteq Newest(rows) \cup {e}
      <4>1. Newest(rows') \cap rows \subseteq Newest(rows)
        BY <3>1, <3>2, WindowAntitone
      <4>2. Newest(rows') \subseteq rows'
        BY DEF Newest
      <4>3. QED
        BY <3>1, <4>1, <4>2
    <3>5. Newest(rows') = Newest(Newest(rows) \cup {e})
      BY <3>1, <3>2, <3>3, <3>4, WindowStable
    <3>6. Log!Store(e)
      BY <3>5, SameOrder DEF Log!Store, Listed
    <3>7. QED
      BY <3>1, <3>6, SameOrder DEF Log!Next
  <2>2. ASSUME NEW r \in Requests, DeleteOverflow(r)
        PROVE  Listed' = Listed
    <3>1. rows' = rows \ call[r].overflow /\ rows' \in SUBSET rows
      BY <2>2 DEF DeleteOverflow
    <3>2. Newest(rows) = Newest(inserted)
      BY WindowStable DEF IInv, TypeOK, NewestRetained
    <3>3. Newest(inserted) \subseteq rows'
      BY <2>2, <3>1, DeleteSparesNewest
    <3>4. QED
      BY <3>1, <3>2, <3>3, WindowStable DEF IInv, TypeOK, Listed
  <2>3. ASSUME NEW r \in Requests, Record(r) \/ SelectOverflow(r) \/ Abort(r)
        PROVE  Listed' = Listed
    BY <2>3 DEF Record, SelectOverflow, Abort, Listed
  <2>4. CASE UNCHANGED vars
    BY <2>4 DEF vars, Listed
  <2>5. QED
    BY <2>1, <2>2, <2>3, <2>4 DEF Next, Append
<1>3. QED
  BY <1>1, <1>2, Invariance, PTL DEF Spec, ImplementsAuditLog, Log!Spec
=============================================================================
