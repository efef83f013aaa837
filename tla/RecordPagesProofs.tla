-------------------------- MODULE RecordPagesProofs --------------------------
(***************************************************************************)
(* Theorems about RecordPages and the LookupField on it, for any values of *)
(* the fields, number of lookups, loads and requests in flight.            *)
(***************************************************************************)
EXTENDS RecordPages, SequenceTheorems, TLAPS

-----------------------------------------------------------------------------
(* The lists of requests in flight: one is dropped, one is added, or each  *)
(* is changed where it stands.                                             *)

(* RemoveAt keeps the order of the others.                                 *)
LEMMA RemoveAtProperties ==
  ASSUME NEW S, NEW s \in Seq(S), NEW i \in 1..Len(s)
  PROVE  /\ RemoveAt(s, i) \in Seq(S)
         /\ Len(RemoveAt(s, i)) = Len(s) - 1
         /\ \A k \in 1..(Len(s) - 1) :
              RemoveAt(s, i)[k] = IF k < i THEN s[k] ELSE s[k + 1]
<1>1. Len(s) \in Nat /\ i \in Int /\ i >= 1 /\ i <= Len(s)
  BY LenProperties
<1>2. \A k \in 1..Len(s) : s[k] \in S
  BY ElementOfSeq
<1> DEFINE a == SubSeq(s, 1, i - 1)
           b == SubSeq(s, i + 1, Len(s))
<1>3. /\ a \in Seq(S) /\ Len(a) = i - 1
      /\ \A k \in 1..(i - 1) : a[k] = s[k]
  <2>1. \A k \in 1..(i - 1) : s[k] \in S
    BY <1>1, <1>2
  <2>2. /\ a \in Seq(S)
        /\ Len(a) = IF 1 <= i - 1 THEN (i - 1) - 1 + 1 ELSE 0
        /\ \A k \in 1..((i - 1) - 1 + 1) : a[k] = s[1 + k - 1]
    BY <2>1, <1>1, SubSeqProperties
  <2>3. QED BY <2>2, <1>1
<1>4. /\ b \in Seq(S) /\ Len(b) = Len(s) - i
      /\ \A k \in 1..(Len(s) - i) : b[k] = s[i + k]
  <2>1. \A k \in (i + 1)..Len(s) : s[k] \in S
    BY <1>1, <1>2
  <2>2. /\ b \in Seq(S)
        /\ Len(b) = IF i + 1 <= Len(s) THEN Len(s) - (i + 1) + 1 ELSE 0
        /\ \A k \in 1..(Len(s) - (i + 1) + 1) : b[k] = s[(i + 1) + k - 1]
    BY <2>1, <1>1, SubSeqProperties
  <2>3. QED BY <2>2, <1>1
<1> HIDE DEF a, b
<1>5. /\ a \o b \in Seq(S)
      /\ Len(a \o b) = Len(a) + Len(b)
      /\ \A k \in 1..(Len(a) + Len(b)) :
           (a \o b)[k] = IF k <= Len(a) THEN a[k] ELSE b[k - Len(a)]
  BY <1>3, <1>4, ConcatProperties
<1>6. RemoveAt(s, i) = a \o b
  BY DEF RemoveAt, a, b
<1>7. Len(RemoveAt(s, i)) = Len(s) - 1
  <2>1. Len(a) = i - 1 /\ Len(b) = Len(s) - i /\ Len(a \o b) = Len(a) + Len(b)
    BY <1>3, <1>4, <1>5
  <2>2. Len(a \o b) = Len(s) - 1
    BY <2>1, <1>1
  <2>3. QED BY <2>2, <1>6
<1>8. ASSUME NEW k \in 1..(Len(s) - 1)
      PROVE  RemoveAt(s, i)[k] = IF k < i THEN s[k] ELSE s[k + 1]
  <2>1. CASE k < i
    <3>1. k <= Len(a) /\ k \in 1..(i - 1) /\ k \in 1..(Len(a) + Len(b))
      BY <2>1, <1>1, <1>3, <1>4
    <3>2. QED BY <3>1, <2>1, <1>3, <1>5, <1>6
  <2>2. CASE ~(k < i)
    <3>1. ~(k <= Len(a)) /\ k - Len(a) \in 1..(Len(s) - i) /\ k \in 1..(Len(a) + Len(b))
      BY <2>2, <1>1, <1>3, <1>4
    <3>2. (a \o b)[k] = s[i + (k - Len(a))]
      BY <3>1, <1>4, <1>5
    <3>3. i + (k - Len(a)) = k + 1
      BY <1>1, <1>3, <2>2
    <3>4. QED BY <3>2, <3>3, <2>2, <1>6
  <2>3. QED BY <2>1, <2>2
<1>9. QED BY <1>5, <1>6, <1>7, <1>8

(* What RemoveAt leaves was there, in another place.                       *)
LEMMA RemoveAtOrigin ==
  ASSUME NEW S, NEW s \in Seq(S), NEW i \in 1..Len(s), NEW k \in 1..Len(RemoveAt(s, i))
  PROVE  \E j \in 1..Len(s) : j # i /\ RemoveAt(s, i)[k] = s[j]
<1>1. /\ Len(s) \in Nat /\ i \in Int /\ k \in 1..(Len(s) - 1)
      /\ RemoveAt(s, i)[k] = IF k < i THEN s[k] ELSE s[k + 1]
  BY LenProperties, RemoveAtProperties
<1>2. CASE k < i
  <2>1. k \in 1..Len(s) /\ k # i /\ RemoveAt(s, i)[k] = s[k]
    BY <1>1, <1>2
  <2>2. QED BY <2>1
<1>3. CASE ~(k < i)
  <2>1. k + 1 \in 1..Len(s) /\ k + 1 # i /\ RemoveAt(s, i)[k] = s[k + 1]
    BY <1>1, <1>3
  <2>2. QED BY <2>1
<1>4. QED BY <1>2, <1>3

(* What was in another place is what RemoveAt leaves.                      *)
LEMMA RemoveAtRest ==
  ASSUME NEW S, NEW s \in Seq(S), NEW i \in 1..Len(s), NEW j \in 1..Len(s), j # i
  PROVE  \E k \in 1..Len(RemoveAt(s, i)) : RemoveAt(s, i)[k] = s[j]
<1>1. /\ Len(s) \in Nat /\ i \in Int /\ j \in Int /\ Len(RemoveAt(s, i)) = Len(s) - 1
      /\ \A k \in 1..(Len(s) - 1) : RemoveAt(s, i)[k] = IF k < i THEN s[k] ELSE s[k + 1]
  BY LenProperties, RemoveAtProperties
<1>2. CASE j < i
  <2>1. j \in 1..(Len(s) - 1) /\ RemoveAt(s, i)[j] = s[j]
    BY <1>1, <1>2
  <2>2. QED BY <2>1, <1>1
<1>3. CASE ~(j < i)
  <2>1. j - 1 \in 1..(Len(s) - 1) /\ ~(j - 1 < i) /\ (j - 1) + 1 = j
    BY <1>1, <1>3
  <2>2. RemoveAt(s, i)[j - 1] = s[j]
    BY <1>1, <2>1
  <2>3. QED BY <2>1, <2>2, <1>1
<1>4. QED BY <1>2, <1>3

(* Changing each element where it stands keeps the length.                 *)
LEMMA MapProperties ==
  ASSUME NEW S, NEW T, NEW s \in Seq(S), NEW t, t = [k \in DOMAIN s |-> t[k]],
         \A k \in 1..Len(s) : t[k] \in T
  PROVE  t \in Seq(T) /\ Len(t) = Len(s) /\ DOMAIN t = 1..Len(s)
<1>1. Len(s) \in Nat /\ DOMAIN s = 1..Len(s)
  BY LenProperties
<1>2. t \in [1..Len(s) -> T]
  BY <1>1
<1>3. QED BY <1>1, <1>2, SMT

LEMMA OneElement ==
  ASSUME NEW S, NEW e \in S
  PROVE  /\ <<e>> \in Seq(S) /\ <<e>> # <<>> /\ Len(<<e>>) = 1 /\ <<e>>[1] = e
<1>1. <<e>> \in Seq(S) /\ Len(<<e>>) = 1 /\ <<e>>[1] = e
  OBVIOUS
<1>2. Len(<<>>) = 0
  BY EmptySeq
<1>3. QED BY <1>1, <1>2

-----------------------------------------------------------------------------
(* The control.                                                            *)

(* Only an open control waits for its timer, and no read-only one opens.   *)
OpenWhenWaiting(control, p) ==
  /\ p.waiting => p.open
  /\ control = "readonly" => ~p.open

(* Searches ask for no labels; a read-only field asks for labels only, of  *)
(* the values it shows.                                                    *)
LookupsAreOfTheirKind(control, v, ls) ==
  \A k \in 1..Len(ls) :
    /\ IsSearch(ls[k]) => ls[k].ids = {}
    /\ control = "readonly" => ~IsSearch(ls[k]) /\ ls[k].ids = v

LastSearch(k, ls) == IsSearch(ls[k]) /\ \A m \in 1..Len(ls) : m > k => ~IsSearch(ls[m])

(* The options: no search is to bring any that the typed text has not      *)
(* asked for, or the last one puts things right.                           *)
OptionsAccounted(p, ls) ==
  p.open /\ ~p.waiting =>
    \/ /\ p.excused \/ p.options = p.query
       /\ \A k \in 1..Len(ls) : IsSearch(ls[k]) => ls[k].late
    \/ \E k \in 1..Len(ls) : LastSearch(k, ls) /\ (ls[k].late \/ ls[k].text = p.query)

(* The labels of all values that do not dangle are there or asked for; a   *)
(* filter has those of its values.                                         *)
LabelsAccounted(control, p, v, ls) ==
  /\ \/ p.blank
     \/ \A x \in v \cap Existing : x \in p.cache \/ \E k \in 1..Len(ls) : x \in ls[k].ids
  /\ control = "filter" => v \subseteq p.cache
  /\ control = "readonly" => p.cache \subseteq v

FieldInv ==
  /\ FieldTypeOK
  /\ OpenWhenWaiting(kind, picker)
  /\ LookupsAreOfTheirKind(kind, value, lookups)
  /\ OptionsAccounted(picker, lookups)
  /\ LabelsAccounted(kind, picker, value, lookups)

-----------------------------------------------------------------------------
(* The page.                                                               *)

PageTypeOK ==
  /\ rec \in Records \cup {Gone}
  /\ multi \in BOOLEAN
  /\ offered \in {Places \ {"view"}, {"list", "view"}}
  /\ where \in offered
  /\ form \in Form
  /\ loads \in Seq(Load)
  /\ posts \in Seq(Post)

SentFrom(do) ==
  CASE do = "save" -> {"new", "edit"}
    [] do = "action" -> {"edit"}
    [] do = "delete" -> {"delete"}
    [] do = "password" -> {"password"}

(* A request comes from a page that sends such; a save has every field     *)
(* that was not touched as it was loaded.                                  *)
SentRight(p) ==
  /\ p.from \in SentFrom(p.do)
  /\ p.do = "save" /\ p.from = "edit" /\ p.form.loaded =>
       /\ "name" \notin p.form.touched => p.data.name = p.form.base.name
       /\ "rel" \notin p.form.touched => p.data.rel = p.form.base.rel

(* Requests of the page that is mounted are told apart.  Who may only look *)
(* sends nothing.                                                          *)
PostsHaveTheirPage ==
  /\ \A i \in 1..Len(posts) :
       SentRight(posts[i]) /\ (posts[i].mounted => posts[i].from = where)
  /\ "view" \in offered => posts = <<>>

ControlIsOfThePage == kind = KindOn(where) /\ (where = "list" => loads = <<>>)

(* A field that has not been touched is as it was loaded.                  *)
UntouchedIsBase ==
  where \in {"edit", "view"} /\ form.loaded =>
    /\ "name" \notin form.touched => form.name = form.base.name
    /\ "rel" \notin form.touched => value = form.base.rel

(* A request of the page that is mounted has changed the server: the page  *)
(* loads again, or gives way to another.                                   *)
Pending == \E i \in 1..Len(posts) : posts[i].mounted /\ posts[i].status = "done"

Ready(load) == load.excused \/ load.pc # "read" \/ Pending \/ load.rec = rec

(* The form: no load is to bring a record that is out of date, or the last *)
(* one puts things right.                                                  *)
FormAccounted ==
  where \in {"edit", "view"} =>
    \/ /\ form.excused \/ (form.loaded /\ (Pending \/ form.base = rec))
       /\ \A k \in 1..Len(loads) : loads[k].excused
    \/ loads # <<>> /\ Ready(loads[Len(loads)])

PageInv ==
  /\ PageTypeOK /\ PostsHaveTheirPage /\ ControlIsOfThePage
  /\ UntouchedIsBase /\ FormAccounted

Inv == FieldInv /\ PageInv /\ clicks \in 0..MaxClicks

-----------------------------------------------------------------------------
(* What the steps of the control have in common.                           *)

Lookup == [text : Texts \cup {None}, ids : SUBSET Values, late : BOOLEAN]

LEMMA FieldElements ==
  ASSUME FieldTypeOK
  PROVE  /\ kind \in Kinds /\ value \in SUBSET Values /\ picker \in Picker
         /\ lookups \in Seq(Lookup) /\ Len(lookups) \in Nat /\ DOMAIN lookups = 1..Len(lookups)
         /\ \A k \in 1..Len(lookups) : lookups[k] \in Lookup
<1>1. lookups \in Seq(Lookup)
  BY DEF FieldTypeOK, Lookup
<1>2. /\ Len(lookups) \in Nat /\ DOMAIN lookups = 1..Len(lookups)
      /\ \A k \in 1..Len(lookups) : lookups[k] \in Lookup
  BY <1>1, LenProperties, ElementOfSeq
<1>3. QED BY <1>1, <1>2 DEF FieldTypeOK

LEMMA NewLookups ==
  /\ \A text \in Texts :
       /\ SearchFor(text) \in Lookup /\ IsSearch(SearchFor(text))
       /\ SearchFor(text).text = text /\ SearchFor(text).ids = {} /\ ~SearchFor(text).late
  /\ \A ids \in SUBSET Values :
       LabelsOf(ids) \in Lookup /\ ~IsSearch(LabelsOf(ids)) /\ LabelsOf(ids).ids = ids
BY TextsAssumption DEF SearchFor, LabelsOf, Lookup, IsSearch

LEMMA FoundType == \A options : Found(options) \subseteq Values
BY LookupAssumption DEF Found

(* Lookups for labels are added at the end, as many as need be.            *)
LEMMA HydratingProperties ==
  ASSUME NEW p \in Picker, NEW v \in SUBSET Values
  PROVE  /\ Hydrating(p, v) \in Seq(Lookup) /\ Len(Hydrating(p, v)) \in Nat
         /\ \A k \in 1..Len(Hydrating(p, v)) :
              /\ Hydrating(p, v)[k] \in Lookup /\ ~IsSearch(Hydrating(p, v)[k])
              /\ kind = "readonly" => Hydrating(p, v)[k].ids = v
         /\ \A x \in v : kind # "filter" =>
              \/ kind # "readonly" /\ x \in p.cache
              \/ \E k \in 1..Len(Hydrating(p, v)) : x \in Hydrating(p, v)[k].ids
<1> DEFINE missing == IF kind = "readonly" THEN v ELSE v \ Labelled(p)
           l == LabelsOf(missing)
<1>1. /\ l \in Lookup /\ ~IsSearch(l) /\ l.ids = missing
  BY NewLookups
<1>2. \A x \in v : kind # "filter" => (kind # "readonly" /\ x \in p.cache) \/ x \in missing
  BY DEF Labelled
<1>3. kind = "readonly" => missing = v
  OBVIOUS
<1>4. Hydrating(p, v) = IF missing = {} THEN <<>> ELSE <<l>>
  BY DEF Hydrating
<1> HIDE DEF l, missing
<1>5. CASE missing = {}
  <2>1. Hydrating(p, v) = <<>> /\ Len(<<>>) = 0
    BY <1>4, <1>5, EmptySeq
  <2>2. QED BY <2>1, <1>2, <1>5, EmptySeq
<1>6. CASE missing # {}
  <2>1. /\ Hydrating(p, v) \in Seq(Lookup) /\ Len(Hydrating(p, v)) = 1
        /\ Hydrating(p, v)[1] = l
    BY <1>1, <1>4, <1>6, OneElement
  <2>2. QED BY <2>1, <1>1, <1>2, <1>3
<1>7. QED BY <1>5, <1>6

(* Lookups are added behind those in flight.                               *)
LEMMA AddedLookups ==
  ASSUME NEW old \in Seq(Lookup), NEW new \in Seq(Lookup)
  PROVE  /\ old \o new \in Seq(Lookup) /\ Len(old) \in Nat /\ Len(new) \in Nat
         /\ Len(old \o new) = Len(old) + Len(new)
         /\ \A k \in 1..Len(old) : k \in 1..Len(old \o new) /\ (old \o new)[k] = old[k]
         /\ \A k \in 1..Len(new) :
              Len(old) + k \in 1..Len(old \o new) /\ (old \o new)[Len(old) + k] = new[k]
         /\ \A k \in 1..Len(old \o new) :
              \/ k \in 1..Len(old) /\ (old \o new)[k] = old[k]
              \/ k > Len(old) /\ k - Len(old) \in 1..Len(new)
                 /\ (old \o new)[k] = new[k - Len(old)]
<1>1. Len(old) \in Nat /\ Len(new) \in Nat
  BY LenProperties
<1>2. /\ old \o new \in Seq(Lookup) /\ Len(old \o new) = Len(old) + Len(new)
      /\ \A k \in 1..(Len(old) + Len(new)) :
           (old \o new)[k] = IF k <= Len(old) THEN old[k] ELSE new[k - Len(old)]
  BY ConcatProperties
<1>3. ASSUME NEW k \in 1..Len(old)
      PROVE  k \in 1..Len(old \o new) /\ (old \o new)[k] = old[k]
  BY <1>1, <1>2
<1>4. ASSUME NEW k \in 1..Len(new)
      PROVE  Len(old) + k \in 1..Len(old \o new) /\ (old \o new)[Len(old) + k] = new[k]
  <2>1. Len(old) + k \in 1..(Len(old) + Len(new)) /\ ~(Len(old) + k <= Len(old))
        /\ Len(old) + k - Len(old) = k
    BY <1>1
  <2>2. QED BY <2>1, <1>2
<1>5. ASSUME NEW k \in 1..Len(old \o new)
      PROVE  \/ k \in 1..Len(old) /\ (old \o new)[k] = old[k]
             \/ k > Len(old) /\ k - Len(old) \in 1..Len(new)
                /\ (old \o new)[k] = new[k - Len(old)]
  BY <1>1, <1>2
<1>6. QED BY <1>1, <1>2, <1>3, <1>4, <1>5

(* Lookups for labels leave the options as they would become.              *)
LEMMA LabelsKeepOptions ==
  ASSUME NEW p, NEW ls \in Seq(Lookup), NEW new \in Seq(Lookup), OptionsAccounted(p, ls),
         \A k \in 1..Len(new) : ~IsSearch(new[k])
  PROVE  OptionsAccounted(p, ls \o new)
<1> DEFINE all == ls \o new
<1>1. /\ Len(ls) \in Nat
      /\ \A k \in 1..Len(ls) : k \in 1..Len(all) /\ all[k] = ls[k]
      /\ \A k \in 1..Len(all) :
           (k \in 1..Len(ls) /\ all[k] = ls[k]) \/ (k > Len(ls) /\ ~IsSearch(all[k]))
  BY AddedLookups
<1> HIDE DEF all
<1>2. CASE \A k \in 1..Len(ls) : IsSearch(ls[k]) => ls[k].late
  <2>1. \A k \in 1..Len(all) : IsSearch(all[k]) => all[k].late
    BY <1>1, <1>2
  <2>2. CASE p.excused \/ p.options = p.query
    BY <2>1, <2>2 DEF OptionsAccounted, all
  <2>3. CASE ~(p.excused \/ p.options = p.query) /\ p.open /\ ~p.waiting
    <3>1. PICK k \in 1..Len(ls) : LastSearch(k, ls) /\ (ls[k].late \/ ls[k].text = p.query)
      BY <2>3 DEF OptionsAccounted
    <3>2. k \in 1..Len(all) /\ LastSearch(k, all) /\ (all[k].late \/ all[k].text = p.query)
      BY <3>1, <1>1 DEF LastSearch
    <3>3. QED BY <3>2 DEF OptionsAccounted, all
  <2>4. QED BY <2>2, <2>3 DEF OptionsAccounted
<1>3. ASSUME NEW k \in 1..Len(ls), LastSearch(k, ls), ls[k].late \/ ls[k].text = p.query
      PROVE  OptionsAccounted(p, all)
  <2>1. k \in 1..Len(all) /\ LastSearch(k, all) /\ (all[k].late \/ all[k].text = p.query)
    BY <1>3, <1>1 DEF LastSearch
  <2>2. QED BY <2>1 DEF OptionsAccounted
<1>4. CASE ~(p.open /\ ~p.waiting)
  BY <1>4 DEF OptionsAccounted
<1>5. QED BY <1>2, <1>3, <1>4 DEF OptionsAccounted, all

(* The values change: their labels are asked for.                          *)
LEMMA SetValueInv ==
  ASSUME FieldInv, NEW v \in SUBSET Values, NEW p \in Picker, SetValue(v, p), UNCHANGED kind,
         p.blank = picker.blank, picker.cache \subseteq p.cache,
         kind = "readonly" => p.cache = picker.cache,
         kind = "filter" => v \subseteq p.cache,
         p = picker \/ (~p.open /\ ~p.waiting)
  PROVE  FieldInv'
<1>1. /\ FieldTypeOK /\ kind \in Kinds /\ picker \in Picker /\ lookups \in Seq(Lookup)
      /\ value' = v
  BY FieldElements DEF FieldInv, SetValue
<1>2. OpenWhenWaiting(kind, p)
  BY DEF FieldInv, OpenWhenWaiting
<1>3. OptionsAccounted(p, lookups)
  BY DEF FieldInv, OptionsAccounted
<1>4. CASE v = value
  <2>1. picker' = p /\ lookups' = lookups
    BY <1>4 DEF SetValue
  <2>2. LabelsAccounted(kind, p, v, lookups)
    BY <1>4 DEF FieldInv, LabelsAccounted
  <2>3. FieldTypeOK'
    BY <1>1, <2>1 DEF FieldTypeOK
  <2>4. QED BY <2>1, <2>2, <2>3, <1>1, <1>2, <1>3, <1>4 DEF FieldInv
<1> DEFINE new == Hydrating(p, v)
<1>5. /\ new \in Seq(Lookup) /\ Len(new) \in Nat
      /\ \A k \in 1..Len(new) : new[k] \in Lookup /\ ~IsSearch(new[k])
                                /\ (kind = "readonly" => new[k].ids = v)
      /\ \A x \in v : kind # "filter" =>
           \/ kind # "readonly" /\ x \in p.cache
           \/ \E k \in 1..Len(new) : x \in new[k].ids
  BY HydratingProperties
<1> HIDE DEF new
<1>6. CASE v # value /\ kind = "readonly"
  <2>1. picker' = [p EXCEPT !.cache = {}] /\ lookups' = new
    <3>1. lookups' = <<>> \o new
      BY <1>6 DEF SetValue, Cancel, new
    <3>2. QED BY <3>1, <1>5, <1>6, ConcatEmptySeq DEF SetValue
  <2>2. /\ picker' \in Picker /\ picker'.cache = {} /\ picker'.open = p.open
        /\ picker'.waiting = p.waiting
    BY <2>1 DEF Picker
  <2>3. ~p.open
    BY <1>6, <1>2 DEF OpenWhenWaiting
  <2>4. OptionsAccounted(picker', lookups')
    BY <2>2, <2>3 DEF OptionsAccounted
  <2>5. OpenWhenWaiting(kind, picker')
    BY <2>2, <1>2 DEF OpenWhenWaiting
  <2>6. LookupsAreOfTheirKind(kind, v, lookups')
    BY <2>1, <1>5, <1>6 DEF LookupsAreOfTheirKind
  <2>7. LabelsAccounted(kind, picker', v, lookups')
    BY <2>1, <2>2, <1>5, <1>6 DEF LabelsAccounted
  <2>8. FieldTypeOK'
    BY <2>1, <2>2, <1>1, <1>5 DEF FieldTypeOK, Lookup
  <2>9. QED BY <2>4, <2>5, <2>6, <2>7, <2>8, <1>1 DEF FieldInv
<1>7. CASE v # value /\ kind # "readonly"
  <2>1. picker' = p /\ lookups' = lookups \o new
    BY <1>7 DEF SetValue, Cancel, new
  <2>2. OptionsAccounted(p, lookups \o new)
    BY <1>1, <1>3, <1>5, LabelsKeepOptions
  <2>3. /\ lookups' \in Seq(Lookup)
        /\ \A k \in 1..Len(new) : Len(lookups) + k \in 1..Len(lookups')
                                  /\ lookups'[Len(lookups) + k] = new[k]
        /\ \A k \in 1..Len(lookups') :
              \/ k \in 1..Len(lookups) /\ lookups'[k] = lookups[k]
              \/ k - Len(lookups) \in 1..Len(new) /\ lookups'[k] = new[k - Len(lookups)]
    BY <2>1, <1>1, <1>5, AddedLookups
  <2>4. LookupsAreOfTheirKind(kind, v, lookups')
    BY <2>3, <1>5, <1>7 DEF FieldInv, LookupsAreOfTheirKind
  <2>5. LabelsAccounted(kind, p, v, lookups')
    <3>1. \A x \in v : x \in p.cache \/ \E k \in 1..Len(lookups') : x \in lookups'[k].ids
      BY <2>3, <1>5
    <3>2. QED BY <3>1, <1>7 DEF LabelsAccounted
  <2>6. FieldTypeOK'
    BY <2>1, <2>3, <1>1 DEF FieldTypeOK, Lookup
  <2>7. QED BY <2>1, <2>2, <2>4, <2>5, <2>6, <1>1, <1>2 DEF FieldInv
<1>8. QED BY <1>4, <1>6, <1>7

-----------------------------------------------------------------------------
(* What the operator does with the control.                                *)

LEMMA PickerOnly ==
  ASSUME FieldInv, UNCHANGED <<kind, value, lookups>>, picker' \in Picker,
         picker'.cache = picker.cache, picker'.blank = picker.blank,
         OpenWhenWaiting(kind, picker'), OptionsAccounted(picker', lookups)
  PROVE  FieldInv'
<1>1. LabelsAccounted(kind, picker', value, lookups)
  BY DEF FieldInv, LabelsAccounted
<1>2. FieldTypeOK'
  BY DEF FieldInv, FieldTypeOK
<1>3. QED BY <1>1, <1>2 DEF FieldInv

(* A search for what is typed puts the options right.                      *)
LEMMA SearchStarts ==
  ASSUME FieldInv, kind # "readonly", NEW text \in Texts,
         lookups' = Append(lookups, SearchFor(text)), UNCHANGED <<kind, value>>,
         picker' \in Picker, picker'.query = text, ~picker'.waiting,
         picker'.cache = picker.cache, picker'.blank = picker.blank
  PROVE  FieldInv'
<1> DEFINE l == SearchFor(text)
           n == Len(lookups) + 1
<1>1. FieldTypeOK /\ lookups \in Seq(Lookup) /\ Len(lookups) \in Nat
  BY FieldElements DEF FieldInv
<1>2. l \in Lookup /\ IsSearch(l) /\ l.text = text /\ l.ids = {}
  BY NewLookups
<1>3. lookups' = Append(lookups, l)
  OBVIOUS
<1> HIDE DEF l
<1>4. /\ lookups' \in Seq(Lookup) /\ Len(lookups') = n
      /\ \A k \in 1..Len(lookups) : lookups'[k] = lookups[k]
      /\ lookups'[n] = l
  BY <1>1, <1>2, <1>3, AppendProperties
<1>5. \A k \in 1..n : k \in 1..Len(lookups) \/ k = n
  BY <1>1
<1>6. n \in 1..n /\ (\A m \in 1..n : ~(m > n)) /\ \A k \in 1..Len(lookups) : k \in 1..n
  BY <1>1
<1> HIDE DEF n
<1>7. OptionsAccounted(picker', lookups')
  <2>1. LastSearch(n, lookups') /\ lookups'[n].text = picker'.query
    BY <1>2, <1>4, <1>6 DEF LastSearch
  <2>2. QED BY <2>1, <1>4, <1>6 DEF OptionsAccounted
<1>8. LookupsAreOfTheirKind(kind, value, lookups')
  BY <1>2, <1>4, <1>5 DEF FieldInv, LookupsAreOfTheirKind
<1>9. LabelsAccounted(kind, picker', value, lookups')
  BY <1>4, <1>6 DEF FieldInv, LabelsAccounted
<1>10. OpenWhenWaiting(kind, picker')
  BY DEF OpenWhenWaiting
<1>11. FieldTypeOK'
  BY <1>1, <1>4 DEF FieldTypeOK, Lookup
<1>12. QED BY <1>7, <1>8, <1>9, <1>10, <1>11 DEF FieldInv

(* Another text: the filter searches at once for none, else the timer runs.*)
LEMMA SearchInv ==
  ASSUME FieldInv, kind # "readonly", NEW text \in Texts, NEW p \in Picker, Search(text, p),
         UNCHANGED <<kind, value>>, p.open, p.cache = picker.cache, p.blank = picker.blank
  PROVE  FieldInv'
<1>1. CASE kind = "filter" /\ text = ""
  <2>1. /\ picker' = [p EXCEPT !.query = text, !.waiting = FALSE]
        /\ lookups' = Append(lookups, SearchFor(text))
    BY <1>1 DEF Search
  <2>2. /\ picker' \in Picker /\ picker'.query = text /\ ~picker'.waiting
        /\ picker'.cache = picker.cache /\ picker'.blank = picker.blank
    BY <2>1 DEF Picker
  <2>3. QED BY <2>1, <2>2, SearchStarts
<1>2. CASE ~(kind = "filter" /\ text = "")
  <2>1. picker' = [p EXCEPT !.query = text, !.waiting = TRUE] /\ UNCHANGED lookups
    BY <1>2 DEF Search
  <2>2. /\ picker' \in Picker /\ picker'.open /\ picker'.waiting
        /\ picker'.cache = picker.cache /\ picker'.blank = picker.blank
    BY <2>1 DEF Picker
  <2>3. OpenWhenWaiting(kind, picker') /\ OptionsAccounted(picker', lookups)
    BY <2>2 DEF OpenWhenWaiting, OptionsAccounted
  <2>4. QED BY <2>1, <2>2, <2>3, PickerOnly
<1>3. QED BY <1>1, <1>2

LEMMA ClosedProperties ==
  ASSUME NEW p \in Picker
  PROVE  /\ Closed(p) \in Picker /\ ~Closed(p).open /\ ~Closed(p).waiting
         /\ Closed(p).cache = p.cache /\ Closed(p).blank = p.blank
BY LookupAssumption DEF Closed, Picker

LEMMA FieldClickInv ==
  ASSUME FieldInv, FieldClick
  PROVE  FieldInv'
<1>1. FieldTypeOK /\ picker \in Picker /\ value \in SUBSET Values
  BY FieldElements DEF FieldInv
<1>2. picker.open => kind # "readonly"
  BY DEF FieldInv, OpenWhenWaiting
<1>3. /\ Closed(picker) \in Picker /\ ~Closed(picker).open /\ ~Closed(picker).waiting
      /\ Closed(picker).cache = picker.cache /\ Closed(picker).blank = picker.blank
  BY <1>1, ClosedProperties
<1>4. kind = "filter" => value \subseteq picker.cache
  BY DEF FieldInv, LabelsAccounted
<1>5. CASE OpenPicker
  <2> DEFINE p == [picker EXCEPT !.open = TRUE]
  <2>1. /\ p \in Picker /\ p.open /\ p.cache = picker.cache /\ p.blank = picker.blank
        /\ kind # "readonly" /\ Search("", p) /\ UNCHANGED <<kind, value>>
    BY <1>1, <1>5 DEF OpenPicker, Editable, Picker
  <2> HIDE DEF p
  <2>2. QED BY <2>1, LookupAssumption, SearchInv
<1>6. CASE ClosePicker
  <2>1. /\ picker' = Closed(picker) /\ UNCHANGED <<kind, value, lookups>>
    BY <1>6 DEF ClosePicker
  <2>2. OpenWhenWaiting(kind, picker') /\ OptionsAccounted(picker', lookups)
    BY <2>1, <1>3 DEF OpenWhenWaiting, OptionsAccounted
  <2>3. QED BY <2>1, <2>2, <1>3, PickerOnly
<1>7. CASE ClearValue
  <2>1. UNCHANGED kind
    BY <1>7 DEF ClearValue
  <2>2. CASE kind = "multiselect"
    <3>1. PICK v \in value : SetValue(value \ {v}, picker)
      BY <1>7, <2>2 DEF ClearValue
    <3>2. value \ {v} \in SUBSET Values
      BY <1>1
    <3>3. QED BY <3>1, <3>2, <2>1, <2>2, <1>1, SetValueInv
  <2>3. CASE kind # "multiselect"
    <3>1. SetValue({}, Closed(picker))
      BY <1>7, <2>3 DEF ClearValue
    <3>2. QED BY <3>1, <2>1, <1>1, <1>3, SetValueInv
  <2>4. QED BY <2>2, <2>3
<1>8. ASSUME NEW text \in Texts, TypeQuery(text)
      PROVE  FieldInv'
  BY <1>1, <1>2, <1>8, SearchInv DEF TypeQuery
<1>9. ASSUME NEW v \in Values, Choose(v)
      PROVE  FieldInv'
  <2>1. picker.open /\ UNCHANGED kind
    BY <1>9 DEF Choose
  <2>2. CASE kind = "multiselect"
    <3>1. SetValue(IF v \in value THEN value \ {v} ELSE value \cup {v}, picker)
      BY <1>9, <2>2 DEF Choose
    <3>2. value \ {v} \in SUBSET Values /\ value \cup {v} \in SUBSET Values
      BY <1>1
    <3>3. CASE v \in value
      BY <3>1, <3>2, <3>3, <2>1, <2>2, <1>1, SetValueInv
    <3>4. CASE v \notin value
      BY <3>1, <3>2, <3>4, <2>1, <2>2, <1>1, SetValueInv
    <3>5. QED BY <3>3, <3>4
  <2>3. CASE kind = "filter"
    <3> DEFINE p == [Closed(picker) EXCEPT !.cache = @ \cup {v}]
    <3>1. SetValue({v}, p)
      BY <1>9, <2>3 DEF Choose
    <3>2. /\ p \in Picker /\ ~p.open /\ ~p.waiting /\ p.blank = picker.blank
          /\ p.cache = picker.cache \cup {v}
      BY <1>3 DEF Picker
    <3> HIDE DEF p
    <3>3. QED BY <3>1, <3>2, <2>1, <2>3, SetValueInv
  <2>4. CASE kind \notin {"multiselect", "filter"}
    <3>1. SetValue({v}, Closed(picker))
      BY <1>9, <2>4 DEF Choose
    <3>2. QED BY <3>1, <2>1, <2>4, <1>3, SetValueInv
  <2>5. QED BY <2>2, <2>3, <2>4
<1>10. QED BY <1>5, <1>6, <1>7, <1>8, <1>9 DEF FieldClick

-----------------------------------------------------------------------------
(* The answers of lookups.                                                 *)

LEMMA WithoutProperties ==
  ASSUME FieldTypeOK, NEW i \in 1..Len(lookups)
  PROVE  /\ Without(i) \in Seq(Lookup) /\ Len(Without(i)) = Len(lookups) - 1
         /\ \A k \in 1..Len(Without(i)) :
              \E j \in 1..Len(lookups) :
                /\ j # i /\ j = IF k < i THEN k ELSE k + 1
                /\ Without(i)[k].text = lookups[j].text /\ Without(i)[k].ids = lookups[j].ids
                /\ lookups[j].late \/ (IsSearch(lookups[i]) /\ j < i) => Without(i)[k].late
         /\ \A j \in 1..Len(lookups) : j # i =>
              \E k \in 1..Len(Without(i)) :
                /\ k = IF j < i THEN j ELSE j - 1
                /\ Without(i)[k].text = lookups[j].text /\ Without(i)[k].ids = lookups[j].ids
                /\ lookups[j].late \/ (IsSearch(lookups[i]) /\ j < i) => Without(i)[k].late
<1> DEFINE marked == [k \in DOMAIN lookups |->
                        IF k < i /\ IsSearch(lookups[i]) THEN [lookups[k] EXCEPT !.late = TRUE]
                        ELSE lookups[k]]
           less == Without(i)
<1>1. /\ lookups \in Seq(Lookup) /\ Len(lookups) \in Nat /\ DOMAIN lookups = 1..Len(lookups)
      /\ \A k \in 1..Len(lookups) : lookups[k] \in Lookup
  BY FieldElements
<1>2. ASSUME NEW k \in 1..Len(lookups)
      PROVE  /\ marked[k] \in Lookup
             /\ marked[k].text = lookups[k].text /\ marked[k].ids = lookups[k].ids
             /\ lookups[k].late \/ (IsSearch(lookups[i]) /\ k < i) => marked[k].late
  <2>1. marked[k] = IF k < i /\ IsSearch(lookups[i]) THEN [lookups[k] EXCEPT !.late = TRUE]
                    ELSE lookups[k]
    BY <1>1
  <2>2. lookups[k] \in Lookup
    BY <1>1
  <2> HIDE DEF marked
  <2>3. CASE k < i /\ IsSearch(lookups[i])
    <3>1. marked[k] = [lookups[k] EXCEPT !.late = TRUE]
      BY <2>1, <2>3
    <3>2. QED BY <3>1, <2>2 DEF Lookup
  <2>4. CASE ~(k < i /\ IsSearch(lookups[i]))
    <3>1. marked[k] = lookups[k]
      BY <2>1, <2>4
    <3>2. QED BY <3>1, <2>2, <2>4
  <2>5. QED BY <2>3, <2>4
<1>3. marked = [k \in DOMAIN lookups |-> marked[k]]
  OBVIOUS
<1>4. less = RemoveAt(marked, i)
  BY DEF Without
<1> HIDE DEF marked, less
<1>5. marked \in Seq(Lookup) /\ Len(marked) = Len(lookups)
  BY <1>1, <1>2, <1>3, MapProperties
<1>6. /\ less \in Seq(Lookup) /\ Len(less) = Len(lookups) - 1
      /\ \A k \in 1..(Len(lookups) - 1) : less[k] = IF k < i THEN marked[k] ELSE marked[k + 1]
  BY <1>4, <1>5, RemoveAtProperties
<1>7. ASSUME NEW k \in 1..Len(less)
      PROVE  \E j \in 1..Len(lookups) :
                /\ j # i /\ j = IF k < i THEN k ELSE k + 1
                /\ less[k].text = lookups[j].text /\ less[k].ids = lookups[j].ids
                /\ lookups[j].late \/ (IsSearch(lookups[i]) /\ j < i) => less[k].late
  <2> DEFINE j == IF k < i THEN k ELSE k + 1
  <2>1. j \in 1..Len(lookups) /\ j # i /\ k \in 1..(Len(lookups) - 1)
    BY <1>1, <1>6
  <2>2. less[k] = marked[j]
    BY <2>1, <1>6
  <2> HIDE DEF j
  <2>3. QED BY <2>1, <2>2, <1>2 DEF j
<1>8. ASSUME NEW j \in 1..Len(lookups), j # i
      PROVE  \E k \in 1..Len(less) :
                /\ k = IF j < i THEN j ELSE j - 1
                /\ less[k].text = lookups[j].text /\ less[k].ids = lookups[j].ids
                /\ lookups[j].late \/ (IsSearch(lookups[i]) /\ j < i) => less[k].late
  <2> DEFINE k == IF j < i THEN j ELSE j - 1
  <2>1. k \in 1..(Len(lookups) - 1) /\ j = IF k < i THEN k ELSE k + 1
    BY <1>1, <1>8
  <2>2. less[k] = marked[j] /\ k \in 1..Len(less)
    BY <2>1, <1>6
  <2> HIDE DEF k
  <2>3. QED BY <2>2, <1>2 DEF k
<1>9. QED BY <1>6, <1>7, <1>8 DEF less

(* The last search stays the last, unless it is the one that is over.      *)
LEMMA LastSearchKept ==
  ASSUME FieldTypeOK, NEW i \in 1..Len(lookups), NEW j \in 1..Len(lookups), j # i,
         LastSearch(j, lookups)
  PROVE  \E k \in 1..Len(Without(i)) :
           /\ LastSearch(k, Without(i)) /\ Without(i)[k].text = lookups[j].text
           /\ lookups[j].late => Without(i)[k].late
<1>1. Len(lookups) \in Nat
  BY FieldElements
<1>2. PICK k \in 1..Len(Without(i)) :
        /\ k = IF j < i THEN j ELSE j - 1
        /\ Without(i)[k].text = lookups[j].text
        /\ lookups[j].late => Without(i)[k].late
  BY WithoutProperties
<1>3. IsSearch(Without(i)[k])
  BY <1>2 DEF LastSearch, IsSearch
<1>4. ASSUME NEW m \in 1..Len(Without(i)), m > k
      PROVE  ~IsSearch(Without(i)[m])
  <2>1. PICK l \in 1..Len(lookups) :
          l = (IF m < i THEN m ELSE m + 1) /\ Without(i)[m].text = lookups[l].text
    BY WithoutProperties
  <2>2. l > j
    BY <2>1, <1>1, <1>2, <1>4
  <2>3. QED BY <2>1, <2>2 DEF LastSearch, IsSearch
<1>5. QED BY <1>2, <1>3, <1>4 DEF LastSearch

LEMMA SearchEnds ==
  ASSUME FieldInv, NEW i \in 1..Len(lookups), IsSearch(lookups[i]), NEW p,
         p.query = picker.query, p.open = picker.open, p.waiting = picker.waiting,
         p.excused \/ (~lookups[i].late /\ p.options = lookups[i].text)
  PROVE  OptionsAccounted(p, Without(i))
<1>1. FieldTypeOK /\ Len(lookups) \in Nat
  BY FieldElements DEF FieldInv
<1>2. CASE \A k \in 1..Len(lookups) : IsSearch(lookups[k]) => lookups[k].late
  <2>1. \A k \in 1..Len(Without(i)) : IsSearch(Without(i)[k]) => Without(i)[k].late
    <3>1. SUFFICES ASSUME NEW k \in 1..Len(Without(i)), IsSearch(Without(i)[k])
                   PROVE  Without(i)[k].late
      OBVIOUS
    <3>2. PICK j \in 1..Len(lookups) :
            /\ Without(i)[k].text = lookups[j].text
            /\ lookups[j].late => Without(i)[k].late
      BY <1>1, WithoutProperties
    <3>3. QED BY <3>1, <3>2, <1>2 DEF IsSearch
  <2>2. QED BY <2>1, <1>2 DEF OptionsAccounted
<1>3. CASE LastSearch(i, lookups) /\ (lookups[i].late \/ lookups[i].text = picker.query)
  <2>1. \A k \in 1..Len(Without(i)) : IsSearch(Without(i)[k]) => Without(i)[k].late
    <3>1. SUFFICES ASSUME NEW k \in 1..Len(Without(i)), IsSearch(Without(i)[k])
                   PROVE  Without(i)[k].late
      OBVIOUS
    <3>2. PICK j \in 1..Len(lookups) :
            /\ j # i /\ Without(i)[k].text = lookups[j].text
            /\ j < i => Without(i)[k].late
      BY <1>1, WithoutProperties
    <3>3. IsSearch(lookups[j])
      BY <3>1, <3>2 DEF IsSearch
    <3>4. ~(j > i)
      BY <3>3, <1>3 DEF LastSearch
    <3>5. QED BY <3>2, <3>4, <1>1
  <2>2. QED BY <2>1, <1>3 DEF OptionsAccounted
<1>4. ASSUME NEW j \in 1..Len(lookups), j # i, LastSearch(j, lookups),
             lookups[j].late \/ lookups[j].text = picker.query
      PROVE  OptionsAccounted(p, Without(i))
  <2>1. PICK k \in 1..Len(Without(i)) :
          /\ LastSearch(k, Without(i)) /\ Without(i)[k].text = lookups[j].text
          /\ lookups[j].late => Without(i)[k].late
    BY <1>1, <1>4, LastSearchKept
  <2>2. QED BY <2>1, <1>4 DEF OptionsAccounted
<1>5. CASE ~(picker.open /\ ~picker.waiting)
  BY <1>5 DEF OptionsAccounted
<1>6. QED BY <1>2, <1>3, <1>4, <1>5 DEF FieldInv, OptionsAccounted

LEMMA LabelsEnd ==
  ASSUME FieldInv, NEW i \in 1..Len(lookups), ~IsSearch(lookups[i]), NEW p,
         p.query = picker.query, p.open = picker.open, p.waiting = picker.waiting,
         p.excused = picker.excused, p.options = picker.options
  PROVE  OptionsAccounted(p, Without(i))
<1>1. FieldTypeOK
  BY DEF FieldInv
<1>2. CASE /\ picker.excused \/ picker.options = picker.query
           /\ \A k \in 1..Len(lookups) : IsSearch(lookups[k]) => lookups[k].late
  <2>1. \A k \in 1..Len(Without(i)) : IsSearch(Without(i)[k]) => Without(i)[k].late
    <3>1. SUFFICES ASSUME NEW k \in 1..Len(Without(i)), IsSearch(Without(i)[k])
                   PROVE  Without(i)[k].late
      OBVIOUS
    <3>2. PICK j \in 1..Len(lookups) :
            /\ Without(i)[k].text = lookups[j].text
            /\ lookups[j].late => Without(i)[k].late
      BY <1>1, WithoutProperties
    <3>3. QED BY <3>1, <3>2, <1>2 DEF IsSearch
  <2>2. QED BY <2>1, <1>2 DEF OptionsAccounted
<1>3. ASSUME NEW j \in 1..Len(lookups), LastSearch(j, lookups),
             lookups[j].late \/ lookups[j].text = picker.query
      PROVE  OptionsAccounted(p, Without(i))
  <2>1. j # i
    BY <1>3 DEF LastSearch
  <2>2. PICK k \in 1..Len(Without(i)) :
          /\ LastSearch(k, Without(i)) /\ Without(i)[k].text = lookups[j].text
          /\ lookups[j].late => Without(i)[k].late
    BY <2>1, <1>1, <1>3, LastSearchKept
  <2>3. QED BY <2>2, <1>3 DEF OptionsAccounted
<1>4. CASE ~(picker.open /\ ~picker.waiting)
  BY <1>4 DEF OptionsAccounted
<1>5. QED BY <1>2, <1>3, <1>4 DEF FieldInv, OptionsAccounted

LEMMA KindsKept ==
  ASSUME FieldInv, NEW i \in 1..Len(lookups)
  PROVE  LookupsAreOfTheirKind(kind, value, Without(i))
<1>1. SUFFICES ASSUME NEW k \in 1..Len(Without(i))
               PROVE  /\ IsSearch(Without(i)[k]) => Without(i)[k].ids = {}
                      /\ kind = "readonly" =>
                           ~IsSearch(Without(i)[k]) /\ Without(i)[k].ids = value
  BY DEF LookupsAreOfTheirKind
<1>2. PICK j \in 1..Len(lookups) :
        Without(i)[k].text = lookups[j].text /\ Without(i)[k].ids = lookups[j].ids
  BY WithoutProperties DEF FieldInv
<1>3. QED BY <1>2 DEF FieldInv, LookupsAreOfTheirKind, IsSearch

(* What lookup i was to bring is there, or is brought by the others.       *)
LEMMA LabelsWithout ==
  ASSUME FieldInv, NEW i \in 1..Len(lookups), NEW p,
         \A x \in value \cap Existing :
           x \in picker.cache \/ x \in lookups[i].ids => x \in p.cache,
         picker.blank => p.blank \/ value \cap Existing \subseteq p.cache,
         kind = "filter" => picker.cache \subseteq p.cache,
         kind = "readonly" => p.cache \subseteq value
  PROVE  LabelsAccounted(kind, p, value, Without(i))
<1>1. FieldTypeOK
  BY DEF FieldInv
<1>2. ~picker.blank => \A x \in value \cap Existing :
        x \in p.cache \/ \E k \in 1..Len(Without(i)) : x \in Without(i)[k].ids
  <2>1. SUFFICES ASSUME ~picker.blank, NEW x \in value \cap Existing, x \notin p.cache
                 PROVE  \E k \in 1..Len(Without(i)) : x \in Without(i)[k].ids
    OBVIOUS
  <2>2. PICK j \in 1..Len(lookups) : x \in lookups[j].ids
    BY <2>1 DEF FieldInv, LabelsAccounted
  <2>3. j # i
    BY <2>1, <2>2
  <2>4. \E k \in 1..Len(Without(i)) : Without(i)[k].ids = lookups[j].ids
    BY <2>3, <1>1, WithoutProperties
  <2>5. QED BY <2>2, <2>4
<1>3. kind = "filter" => value \subseteq p.cache
  BY DEF FieldInv, LabelsAccounted
<1>4. QED BY <1>2, <1>3 DEF LabelsAccounted

LEMMA FieldStepInv ==
  ASSUME FieldInv, FieldStep
  PROVE  FieldInv'
<1>1. /\ FieldTypeOK /\ picker \in Picker /\ lookups \in Seq(Lookup) /\ value \in SUBSET Values
      /\ DOMAIN lookups = 1..Len(lookups) /\ \A k \in 1..Len(lookups) : lookups[k] \in Lookup
  BY FieldElements DEF FieldInv
<1>2. CASE TimerFires
  <2>1. picker.waiting /\ UNCHANGED <<kind, value>>
        /\ lookups' = Append(lookups, SearchFor(picker.query))
        /\ picker' = [picker EXCEPT !.waiting = FALSE]
    BY <1>2 DEF TimerFires
  <2>2. /\ kind # "readonly" /\ picker.query \in Texts /\ picker' \in Picker
        /\ picker'.query = picker.query /\ ~picker'.waiting
        /\ picker'.cache = picker.cache /\ picker'.blank = picker.blank
    BY <2>1, <1>1 DEF FieldInv, OpenWhenWaiting, Picker
  <2>3. QED BY <2>1, <2>2, SearchStarts
<1>3. ASSUME NEW i \in 1..Len(lookups), IsSearch(lookups[i])
      PROVE  /\ lookups[i].text \in Texts /\ lookups[i].ids = {} /\ kind # "readonly"
             /\ lookups[i].late \in BOOLEAN
  BY <1>1, <1>3 DEF FieldInv, LookupsAreOfTheirKind, IsSearch, Lookup
<1>4. ASSUME NEW i \in 1..Len(lookups), SearchAnswers(i)
      PROVE  FieldInv'
  <2> DEFINE text == lookups[i].text
             new == IF kind = "filter" THEN <<>> ELSE Hydrating(picker', value)
  <2>1. /\ IsSearch(lookups[i]) /\ UNCHANGED <<kind, value>>
        /\ picker' = [picker EXCEPT !.options = text, !.excused = lookups[i].late,
                        !.cache = IF kind = "filter" THEN @ \cup Found(text) ELSE @]
        /\ lookups' = Without(i) \o new
    BY <1>4 DEF SearchAnswers
  <2>2. /\ picker' \in Picker /\ picker'.query = picker.query /\ picker'.open = picker.open
        /\ picker'.waiting = picker.waiting /\ picker'.blank = picker.blank
        /\ picker'.options = text /\ picker'.excused = lookups[i].late
        /\ picker.cache \subseteq picker'.cache
    BY <2>1, <1>1, <1>3, FoundType DEF Picker
  <2>3. Without(i) \in Seq(Lookup)
    BY <1>1, WithoutProperties
  <2>4. new \in Seq(Lookup) /\ \A k \in 1..Len(new) : ~IsSearch(new[k]) /\ new[k] \in Lookup
    <3>1. CASE kind = "filter"
      BY <3>1, EmptySeq
    <3>2. CASE kind # "filter"
      <4>1. new = Hydrating(picker', value)
        BY <3>2
      <4>2. QED BY <4>1, <2>2, <1>1, HydratingProperties
    <3>3. QED BY <3>1, <3>2
  <2> HIDE DEF new
  <2>5. OptionsAccounted(picker', Without(i))
    BY <2>1, <2>2, <1>3, SearchEnds
  <2>6. OptionsAccounted(picker', lookups')
    BY <2>1, <2>3, <2>4, <2>5, LabelsKeepOptions
  <2>7. LabelsAccounted(kind, picker', value, Without(i))
    BY <2>1, <2>2, <1>3, LabelsWithout
  <2>8. /\ lookups' \in Seq(Lookup)
        /\ \A k \in 1..Len(Without(i)) : k \in 1..Len(lookups') /\ lookups'[k] = Without(i)[k]
        /\ \A k \in 1..Len(lookups') :
             (k \in 1..Len(Without(i)) /\ lookups'[k] = Without(i)[k]) \/ ~IsSearch(lookups'[k])
    BY <2>1, <2>3, <2>4, AddedLookups
  <2>9. LabelsAccounted(kind, picker', value, lookups')
    BY <2>7, <2>8 DEF LabelsAccounted
  <2>10. LookupsAreOfTheirKind(kind, value, lookups')
    BY <2>1, <2>8, <1>3, KindsKept DEF LookupsAreOfTheirKind
  <2>11. OpenWhenWaiting(kind, picker')
    BY <2>2 DEF FieldInv, OpenWhenWaiting
  <2>12. FieldTypeOK'
    BY <2>1, <2>2, <2>8, <1>1 DEF FieldTypeOK, Lookup
  <2>13. QED BY <2>1, <2>6, <2>9, <2>10, <2>11, <2>12 DEF FieldInv
<1>5. ASSUME NEW i \in 1..Len(lookups), lookups' = Without(i), UNCHANGED <<kind, value>>,
             picker' \in Picker, OptionsAccounted(picker', Without(i)),
             LabelsAccounted(kind, picker', value, Without(i)),
             picker'.open = picker.open, picker'.waiting = picker.waiting
      PROVE  FieldInv'
  <2>1. Without(i) \in Seq(Lookup)
    BY <1>1, WithoutProperties
  <2>2. FieldTypeOK'
    BY <2>1, <1>1, <1>5 DEF FieldTypeOK, Lookup
  <2>3. LookupsAreOfTheirKind(kind, value, Without(i)) /\ OpenWhenWaiting(kind, picker')
    BY <1>5, KindsKept DEF FieldInv, OpenWhenWaiting
  <2>4. QED BY <2>2, <2>3, <1>5 DEF FieldInv
<1>6. ASSUME NEW i \in 1..Len(lookups), SearchFails(i)
      PROVE  FieldInv'
  <2>1. /\ IsSearch(lookups[i]) /\ UNCHANGED <<kind, value>> /\ lookups' = Without(i)
        /\ picker' = [picker EXCEPT !.excused = TRUE,
                                    !.options = IF kind = "filter" THEN Failed ELSE @]
    BY <1>6 DEF SearchFails
  <2>2. /\ picker' \in Picker /\ picker'.query = picker.query /\ picker'.open = picker.open
        /\ picker'.waiting = picker.waiting /\ picker'.blank = picker.blank
        /\ picker'.excused /\ picker'.cache = picker.cache
    BY <2>1, <1>1 DEF Picker
  <2>3. OptionsAccounted(picker', Without(i)) /\ LabelsAccounted(kind, picker', value, Without(i))
    BY <2>1, <2>2, <1>3, SearchEnds, LabelsWithout
  <2>4. QED BY <2>1, <2>2, <2>3, <1>5
<1>7. ASSUME NEW i \in 1..Len(lookups), LabelsAnswer(i)
      PROVE  FieldInv'
  <2> DEFINE items == lookups[i].ids \cap Existing
             known == IF kind = "readonly" THEN items ELSE picker.cache \cup items
             shown == value \cap Existing \subseteq known
  <2>1. /\ ~IsSearch(lookups[i]) /\ UNCHANGED <<kind, value>> /\ lookups' = Without(i)
        /\ picker' = [picker EXCEPT !.cache = known, !.blank = @ /\ ~shown]
    BY <1>7 DEF LabelsAnswer
  <2>2. lookups[i].ids \in SUBSET Values /\ (kind = "readonly" => lookups[i].ids = value)
        /\ (kind = "readonly" => picker.cache \subseteq value)
    BY <1>1 DEF FieldInv, LookupsAreOfTheirKind, LabelsAccounted, Lookup
  <2>3. /\ known \in SUBSET Values
        /\ \A x \in value \cap Existing : x \in picker.cache \/ x \in lookups[i].ids => x \in known
        /\ kind = "readonly" => known \subseteq value
        /\ kind = "filter" => picker.cache \subseteq known
    BY <2>2, <1>1 DEF Picker
  <2>4. /\ (picker.blank /\ ~shown) \in BOOLEAN
        /\ shown => value \cap Existing \subseteq known
    BY <1>1 DEF Picker
  <2> HIDE DEF known, shown
  <2>5. /\ picker' \in Picker /\ picker'.query = picker.query /\ picker'.open = picker.open
        /\ picker'.waiting = picker.waiting /\ picker'.excused = picker.excused
        /\ picker'.options = picker.options /\ picker'.cache = known
        /\ picker'.blank = (picker.blank /\ ~shown)
    BY <2>1, <2>3, <2>4, <1>1 DEF Picker
  <2>6. OptionsAccounted(picker', Without(i))
    BY <2>1, <2>5, LabelsEnd
  <2>7. picker.blank => picker'.blank \/ value \cap Existing \subseteq picker'.cache
    BY <2>4, <2>5
  <2>8. LabelsAccounted(kind, picker', value, Without(i))
    BY <2>3, <2>5, <2>7, LabelsWithout
  <2>9. QED BY <2>1, <2>5, <2>6, <2>8, <1>5
<1>8. ASSUME NEW i \in 1..Len(lookups), LabelsFail(i)
      PROVE  FieldInv'
  <2>1. /\ ~IsSearch(lookups[i]) /\ UNCHANGED <<kind, value>> /\ lookups' = Without(i)
        /\ picker' = [picker EXCEPT !.blank = TRUE]
    BY <1>8 DEF LabelsFail
  <2>2. /\ picker' \in Picker /\ picker'.query = picker.query /\ picker'.open = picker.open
        /\ picker'.waiting = picker.waiting /\ picker'.excused = picker.excused
        /\ picker'.options = picker.options /\ picker'.cache = picker.cache /\ picker'.blank
    BY <2>1, <1>1 DEF Picker
  <2>3. OptionsAccounted(picker', Without(i))
    BY <2>1, <2>2, LabelsEnd
  <2>4. LabelsAccounted(kind, picker', value, Without(i))
    BY <2>2 DEF FieldInv, LabelsAccounted
  <2>5. QED BY <2>1, <2>2, <2>3, <2>4, <1>5
<1>9. QED BY <1>1, <1>2, <1>4, <1>6, <1>7, <1>8 DEF FieldStep

-----------------------------------------------------------------------------
(* What the steps of the page have in common.                              *)

LEMMA PageElements ==
  ASSUME PageTypeOK
  PROVE  /\ loads \in Seq(Load) /\ Len(loads) \in Nat /\ DOMAIN loads = 1..Len(loads)
         /\ \A k \in 1..Len(loads) : loads[k] \in Load
         /\ loads # <<>> => Len(loads) \in 1..Len(loads)
         /\ posts \in Seq(Post) /\ Len(posts) \in Nat /\ DOMAIN posts = 1..Len(posts)
         /\ \A k \in 1..Len(posts) : posts[k] \in Post
         /\ form \in Form /\ where \in offered /\ offered \subseteq Places /\ multi \in BOOLEAN
<1>1. loads \in Seq(Load) /\ posts \in Seq(Post)
  BY DEF PageTypeOK, Load
<1>2. /\ Len(loads) \in Nat /\ DOMAIN loads = 1..Len(loads)
      /\ \A k \in 1..Len(loads) : loads[k] \in Load
      /\ loads # <<>> => Len(loads) \in 1..Len(loads)
  BY <1>1, LenProperties, ElementOfSeq, EmptySeq
<1>3. /\ Len(posts) \in Nat /\ DOMAIN posts = 1..Len(posts)
      /\ \A k \in 1..Len(posts) : posts[k] \in Post
  BY <1>1, LenProperties, ElementOfSeq
<1>4. QED BY <1>1, <1>2, <1>3 DEF PageTypeOK, Places

LEMMA NewThings ==
  /\ EmptyRecord \in Records
  /\ NewForm \in Form /\ ~NewForm.loaded /\ NewForm.name = "" /\ NewForm.touched = {}
  /\ \A c \in BOOLEAN : LET load == LoadThat(c) IN load \in Load /\ load.pc = "meta" /\ ~load.excused
  /\ NewLoad \in Load /\ NewLoad.pc = "meta" /\ ~NewLoad.excused
<1>1. EmptyRecord \in Records
  BY NameAssumption DEF EmptyRecord, Records
<1>2. QED BY <1>1, NameAssumption DEF NewForm, Form, NewLoad, LoadThat, Load, FieldNames

LEMMA KindsOfPages ==
  ASSUME multi \in BOOLEAN
  PROVE  \A place : KindOn(place) \in Kinds /\ (place # "list" => KindOn(place) # "filter")
                    /\ (place # "view" => KindOn(place) # "readonly")
BY DEF KindOn, Kinds

LEMMA FieldKept ==
  ASSUME FieldInv, UNCHANGED fieldVars
  PROVE  FieldInv'
<1>1. kind' = kind /\ value' = value /\ picker' = picker /\ lookups' = lookups
  BY DEF fieldVars
<1>2. FieldTypeOK'
  BY <1>1 DEF FieldInv, FieldTypeOK
<1>3. QED BY <1>1, <1>2 DEF FieldInv

(* The control of a page that is new.                                      *)
LEMMA FieldStarts ==
  ASSUME kind \in Kinds, value = {}, picker = NewPicker, lookups = <<>>
  PROVE  FieldInv
<1>1. picker \in Picker /\ ~picker.open /\ ~picker.waiting /\ picker.cache = {}
  BY LookupAssumption DEF NewPicker, Picker
<1>2. Len(lookups) = 0 /\ lookups \in Seq(Lookup)
  BY EmptySeq
<1>3. FieldTypeOK
  BY <1>1, <1>2 DEF FieldTypeOK, Lookup
<1>4. QED BY <1>1, <1>2, <1>3 DEF FieldInv, OpenWhenWaiting, LookupsAreOfTheirKind,
                                  OptionsAccounted, LabelsAccounted

(* Load i goes on.                                                         *)
LEMMA LoadGoesOn ==
  ASSUME PageInv, NEW i \in 1..Len(loads), NEW load \in Load, loads' = [loads EXCEPT ![i] = load],
         load.excused = loads[i].excused, load.pc = "read" => load.rec = rec,
         UNCHANGED <<rec, multi, offered, where, form, posts>>, UNCHANGED value, UNCHANGED kind
  PROVE  PageInv'
<1>1. /\ PageTypeOK /\ loads \in Seq(Load) /\ Len(loads) \in Nat
      /\ loads # <<>> => Len(loads) \in 1..Len(loads)
  BY PageElements DEF PageInv
<1>2. /\ loads' \in Seq(Load) /\ Len(loads') = Len(loads)
      /\ \A k \in 1..Len(loads) : loads'[k] = IF k = i THEN load ELSE loads[k]
  BY <1>1, ExceptSeq
<1>3. loads # <<>> /\ loads' # <<>> /\ Len(loads) \in 1..Len(loads)
  BY <1>1, <1>2, EmptySeq
<1>4. Ready(loads[Len(loads)]) => Ready(loads[Len(loads)])'
  <2>1. CASE i = Len(loads)
    <3>1. loads'[Len(loads')] = load
      BY <1>2, <1>3, <2>1
    <3>2. QED BY <3>1 DEF Ready
  <2>2. CASE i # Len(loads)
    <3>1. loads'[Len(loads')] = loads[Len(loads)]
      BY <1>2, <1>3, <2>2
    <3>2. QED BY <3>1 DEF Ready, Pending
  <2>3. QED BY <2>1, <2>2
<1>5. (\A k \in 1..Len(loads) : loads[k].excused) => \A k \in 1..Len(loads') : loads'[k].excused
  BY <1>2
<1>6. FormAccounted'
  BY <1>3, <1>4, <1>5 DEF PageInv, FormAccounted, Pending
<1>7. PageTypeOK'
  BY <1>1, <1>2 DEF PageTypeOK, Load
<1>8. PostsHaveTheirPage' /\ UntouchedIsBase'
  BY DEF PageInv, PostsHaveTheirPage, UntouchedIsBase
<1>9. ControlIsOfThePage'
  BY <1>3 DEF PageInv, ControlIsOfThePage, KindOn
<1>10. QED BY <1>6, <1>7, <1>8, <1>9 DEF PageInv

(* A load that ends leaves the last one the last, or nothing but loads     *)
(* that are excused.                                                       *)
LEMMA LoadEnds ==
  ASSUME PageTypeOK, NEW i \in 1..Len(loads)
  PROVE  /\ Overtaken(i) \in Seq(Load)
         /\ i = Len(loads) => \A k \in 1..Len(Overtaken(i)) : Overtaken(i)[k].excused
         /\ i # Len(loads) =>
              Overtaken(i) # <<>> /\ Overtaken(i)[Len(Overtaken(i))] = loads[Len(loads)]
         /\ (\A k \in 1..Len(loads) : loads[k].excused) =>
              \A k \in 1..Len(Overtaken(i)) : Overtaken(i)[k].excused
<1> DEFINE marked == [k \in DOMAIN loads |->
                        IF k < i THEN [loads[k] EXCEPT !.excused = TRUE] ELSE loads[k]]
           rest == Overtaken(i)
<1>1. /\ loads \in Seq(Load) /\ Len(loads) \in Nat /\ DOMAIN loads = 1..Len(loads)
      /\ \A k \in 1..Len(loads) : loads[k] \in Load
  BY PageElements
<1>2. ASSUME NEW k \in 1..Len(loads)
      PROVE  /\ marked[k] \in Load
             /\ k < i => marked[k].excused
             /\ ~(k < i) => marked[k] = loads[k]
  <2>1. marked[k] = IF k < i THEN [loads[k] EXCEPT !.excused = TRUE] ELSE loads[k]
    BY <1>1
  <2>2. loads[k] \in Load
    BY <1>1
  <2> HIDE DEF marked
  <2>3. CASE k < i
    <3>1. marked[k] = [loads[k] EXCEPT !.excused = TRUE]
      BY <2>1, <2>3
    <3>2. QED BY <3>1, <2>2, <2>3 DEF Load
  <2>4. CASE ~(k < i)
    BY <2>1, <2>2, <2>4
  <2>5. QED BY <2>3, <2>4
<1>3. marked = [k \in DOMAIN loads |-> marked[k]]
  OBVIOUS
<1>4. rest = RemoveAt(marked, i)
  BY DEF Overtaken
<1> HIDE DEF marked, rest
<1>5. marked \in Seq(Load) /\ Len(marked) = Len(loads)
  BY <1>1, <1>2, <1>3, MapProperties
<1>6. /\ rest \in Seq(Load) /\ Len(rest) = Len(loads) - 1
      /\ \A k \in 1..(Len(loads) - 1) : rest[k] = IF k < i THEN marked[k] ELSE marked[k + 1]
  BY <1>4, <1>5, RemoveAtProperties
<1>7. ASSUME i = Len(loads), NEW k \in 1..Len(rest)
      PROVE  rest[k].excused
  <2>1. k \in 1..(Len(loads) - 1) /\ k < i /\ k \in 1..Len(loads)
    BY <1>1, <1>6, <1>7
  <2>2. QED BY <2>1, <1>2, <1>6
<1>8. ASSUME i # Len(loads)
      PROVE  rest # <<>> /\ rest[Len(rest)] = loads[Len(loads)]
  <2> DEFINE last == Len(loads) - 1
  <2>1. /\ last \in 1..(Len(loads) - 1) /\ ~(last < i) /\ last + 1 = Len(loads) /\ last > 0
        /\ ~(Len(loads) < i) /\ Len(loads) \in 1..Len(loads)
    <3>1. Len(loads) \in Nat /\ i \in Nat /\ i >= 1 /\ i <= Len(loads)
      BY <1>1
    <3>2. QED BY <3>1, <1>8
  <2>2. Len(rest) = last
    BY <1>6
  <2> HIDE DEF last
  <2>3. rest[last] = loads[Len(loads)]
    BY <2>1, <1>2, <1>6
  <2>4. QED BY <2>1, <2>2, <2>3, EmptySeq
<1>9. ASSUME \A k \in 1..Len(loads) : loads[k].excused, NEW k \in 1..Len(rest)
      PROVE  rest[k].excused
  <2>1. k \in 1..(Len(loads) - 1) /\ k \in 1..Len(loads) /\ k + 1 \in 1..Len(loads)
    BY <1>1, <1>6
  <2>2. CASE k < i
    BY <2>1, <2>2, <1>2, <1>6
  <2>3. CASE ~(k < i)
    <3>1. ~(k + 1 < i) /\ rest[k] = marked[k + 1]
      BY <2>1, <2>3, <1>1, <1>6
    <3>2. QED BY <2>1, <3>1, <1>2, <1>9
  <2>4. QED BY <2>2, <2>3
<1>10. QED BY <1>6, <1>7, <1>8, <1>9 DEF rest

-----------------------------------------------------------------------------
(* The loads.                                                              *)

LEMMA MetaArrivesInv ==
  ASSUME FieldInv, PageInv, NEW i \in 1..Len(loads), MetaArrives(i)
  PROVE  FieldInv' /\ PageInv'
<1>1. /\ PageTypeOK /\ loads \in Seq(Load) /\ loads[i] \in Load /\ form \in Form
      /\ picker \in Picker
  BY PageElements, FieldElements DEF PageInv, FieldInv
<1>2. UNCHANGED <<kind, rec, multi, offered, where, posts>>
  BY DEF MetaArrives
<1>3. CASE where = "new"
  <2>1. /\ form' = [form EXCEPT !.name = "", !.touched = {}]
        /\ SetValue({}, picker) /\ loads' = RemoveAt(loads, i)
    BY <1>3 DEF MetaArrives
  <2>2. kind # "filter"
    BY <1>1, <1>3, KindsOfPages DEF PageInv, PageTypeOK, ControlIsOfThePage
  <2>3. FieldInv'
    BY <2>1, <2>2, <1>1, <1>2, SetValueInv
  <2>4. form' \in Form
    BY <2>1, <1>1, NameAssumption DEF Form, FieldNames
  <2>5. loads' \in Seq(Load)
    BY <2>1, <1>1, RemoveAtProperties
  <2>6. PageTypeOK'
    BY <2>4, <2>5, <1>1, <1>2 DEF PageTypeOK, Load
  <2>7. /\ PostsHaveTheirPage' /\ ControlIsOfThePage' /\ UntouchedIsBase' /\ FormAccounted'
    BY <1>2, <1>3 DEF PageInv, PostsHaveTheirPage, ControlIsOfThePage, KindOn, UntouchedIsBase,
                      FormAccounted
  <2>8. QED BY <2>3, <2>6, <2>7 DEF PageInv
<1>4. CASE where # "new"
  <2> DEFINE load == [loads[i] EXCEPT !.pc = "entity"]
  <2>1. loads' = [loads EXCEPT ![i] = load] /\ UNCHANGED <<form, value, picker, lookups>>
    BY <1>4 DEF MetaArrives
  <2>2. load \in Load /\ load.excused = loads[i].excused /\ load.pc # "read"
    BY <1>1 DEF Load
  <2> HIDE DEF load
  <2>3. PageInv'
    BY <2>1, <2>2, <1>2, LoadGoesOn
  <2>4. QED BY <2>1, <2>3, <1>2, FieldKept DEF fieldVars
<1>5. QED BY <1>3, <1>4

LEMMA RecordReadsInv ==
  ASSUME FieldInv, PageInv, NEW i \in 1..Len(loads), RecordReads(i)
  PROVE  FieldInv' /\ PageInv'
<1> DEFINE load == [loads[i] EXCEPT !.pc = "read", !.rec = rec]
<1>1. loads[i] \in Load /\ rec \in Records \cup {Gone}
  BY PageElements DEF PageInv, PageTypeOK
<1>2. /\ loads' = [loads EXCEPT ![i] = load] /\ rec # Gone
      /\ UNCHANGED <<fieldVars, rec, multi, offered, where, form, posts>>
  BY DEF RecordReads
<1>3. load \in Load /\ load.excused = loads[i].excused /\ load.rec = rec
  BY <1>1, <1>2 DEF Load
<1> HIDE DEF load
<1>4. UNCHANGED value /\ UNCHANGED kind
  BY <1>2 DEF fieldVars
<1>5. PageInv'
  BY <1>2, <1>3, <1>4, LoadGoesOn
<1>6. QED BY <1>2, <1>5, FieldKept

(* The steps that end load i.                                              *)
LEMMA LoadEndsInv ==
  ASSUME PageInv, NEW i \in 1..Len(loads), loads' = Overtaken(i), form' \in Form, UntouchedIsBase',
         UNCHANGED <<kind, rec, multi, offered, where, posts>>,
         where \in {"edit", "view"} =>
           form'.excused \/ /\ loads[i].pc = "read" /\ form'.loaded
                            /\ form'.base = loads[i].rec /\ form'.excused = loads[i].excused
  PROVE  PageInv'
<1>1. /\ PageTypeOK /\ loads \in Seq(Load) /\ loads # <<>> /\ Len(loads) \in 1..Len(loads)
  <2>1. PageTypeOK /\ loads \in Seq(Load) /\ Len(loads) \in Nat
    BY PageElements DEF PageInv
  <2>2. QED BY <2>1, EmptySeq
<1>2. /\ loads' \in Seq(Load)
      /\ i = Len(loads) => \A k \in 1..Len(loads') : loads'[k].excused
      /\ i # Len(loads) => loads' # <<>> /\ loads'[Len(loads')] = loads[Len(loads)]
      /\ (\A k \in 1..Len(loads) : loads[k].excused) => \A k \in 1..Len(loads') : loads'[k].excused
  BY <1>1, LoadEnds
<1>3. Pending' = Pending
  BY DEF Pending
<1>4. ASSUME where \in {"edit", "view"}
      PROVE  FormAccounted'
  <2>1. Ready(loads[Len(loads)])
    <3>1. CASE loads[Len(loads)].excused
      BY <3>1 DEF Ready
    <3>2. CASE ~loads[Len(loads)].excused
      BY <3>2, <1>1, <1>4 DEF PageInv, FormAccounted
    <3>3. QED BY <3>1, <3>2
  <2>2. CASE i = Len(loads)
    <3>1. form'.excused \/ (form'.loaded /\ (Pending \/ form'.base = rec))
      BY <2>1, <2>2, <1>4 DEF Ready
    <3>2. QED BY <3>1, <2>2, <1>2, <1>3 DEF FormAccounted
  <2>3. CASE i # Len(loads)
    <3>1. Ready(loads[Len(loads)])'
      BY <2>1, <2>3, <1>2, <1>3 DEF Ready
    <3>2. QED BY <3>1, <2>3, <1>2 DEF FormAccounted
  <2>4. QED BY <2>2, <2>3
<1>5. FormAccounted'
  <2>1. CASE where \notin {"edit", "view"}
    BY <2>1 DEF FormAccounted
  <2>2. QED BY <2>1, <1>4
<1>6. PageTypeOK'
  BY <1>1, <1>2 DEF PageTypeOK, Load
<1>7. PostsHaveTheirPage'
  BY DEF PageInv, PostsHaveTheirPage
<1>8. ControlIsOfThePage'
  BY <1>1 DEF PageInv, ControlIsOfThePage, KindOn
<1>9. QED BY <1>5, <1>6, <1>7, <1>8 DEF PageInv

LEMMA RecordArrivesInv ==
  ASSUME FieldInv, PageInv, NEW i \in 1..Len(loads), RecordArrives(i)
  PROVE  FieldInv' /\ PageInv'
<1>1. /\ PageTypeOK /\ loads[i] \in Load /\ form \in Form /\ picker \in Picker
  BY PageElements, FieldElements DEF PageInv, FieldInv
<1>2. /\ UNCHANGED <<kind, rec, multi, offered, where, posts>> /\ loads' = Overtaken(i)
      /\ loads[i].pc = "read"
  BY DEF RecordArrives
<1>3. CASE where \in {"edit", "view"}
  <2> DEFINE r == loads[i].rec
  <2> DEFINE busy == form.busy /\ ~loads[i].closes
  <2>1. /\ form' = [form EXCEPT !.name = r.name, !.touched = {}, !.loaded = TRUE,
                      !.base = r, !.excused = loads[i].excused, !.busy = busy]
        /\ SetValue(r.rel, picker)
    BY <1>3 DEF RecordArrives
  <2>2. /\ r \in Records /\ r.name \in Names /\ r.rel \in SUBSET Values
        /\ loads[i].excused \in BOOLEAN /\ busy \in BOOLEAN
    BY <1>1 DEF Load, Records, Form
  <2>3. kind # "filter"
    BY <1>1, <1>3, KindsOfPages DEF PageInv, PageTypeOK, ControlIsOfThePage
  <2> HIDE DEF r, busy
  <2>4. FieldInv' /\ value' = r.rel
    BY <2>1, <2>2, <2>3, <1>1, <1>2, SetValueInv DEF SetValue
  <2>5. /\ form' \in Form /\ form'.loaded /\ form'.base = r /\ form'.name = r.name
        /\ form'.excused = loads[i].excused
    BY <2>1, <2>2, <1>1 DEF Form
  <2>6. UntouchedIsBase'
    BY <2>4, <2>5 DEF UntouchedIsBase
  <2>7. PageInv'
    BY <2>5, <2>6, <1>2, LoadEndsInv DEF r
  <2>8. QED BY <2>4, <2>7
<1>4. CASE where \notin {"edit", "view"}
  <2>1. UNCHANGED <<value, picker, lookups>>
    BY <1>4 DEF RecordArrives
  <2>2. PICK screen \in {"ready", "blocked", "loading"} : form' = [form EXCEPT !.screen = screen]
    BY <1>4 DEF RecordArrives
  <2>3. form' \in Form
    BY <2>2, <1>1 DEF Form
  <2>4. UntouchedIsBase'
    BY <1>2, <1>4 DEF UntouchedIsBase
  <2>5. PageInv'
    BY <2>3, <2>4, <1>2, <1>4, LoadEndsInv
  <2>6. QED BY <2>1, <2>5, <1>2, FieldKept DEF fieldVars
<1>5. QED BY <1>3, <1>4

LEMMA LoadFailsInv ==
  ASSUME FieldInv, PageInv, NEW i \in 1..Len(loads), LoadFails(i)
  PROVE  FieldInv' /\ PageInv'
<1> DEFINE busy == form.busy /\ ~loads[i].closes
<1>1. form \in Form /\ busy \in BOOLEAN
  <2>1. form \in Form /\ loads[i] \in Load
    BY PageElements DEF PageInv
  <2>2. QED BY <2>1 DEF Form, Load
<1>2. /\ form' = [form EXCEPT !.excused = TRUE, !.busy = busy,
                              !.screen = IF where = "delete" THEN "error" ELSE @]
      /\ loads' = Overtaken(i) /\ UNCHANGED <<fieldVars, rec, multi, offered, where, posts>>
  BY DEF LoadFails
<1> HIDE DEF busy
<1>3. /\ form' \in Form /\ form'.excused /\ form'.name = form.name /\ form'.base = form.base
      /\ form'.touched = form.touched /\ form'.loaded = form.loaded
  BY <1>1, <1>2 DEF Form
<1>4. UNCHANGED kind /\ UNCHANGED value
  BY <1>2 DEF fieldVars
<1>5. UntouchedIsBase'
  BY <1>2, <1>3, <1>4 DEF PageInv, UntouchedIsBase
<1>6. PageInv'
  BY <1>2, <1>3, <1>4, <1>5, LoadEndsInv
<1>7. QED BY <1>2, <1>6, FieldKept

-----------------------------------------------------------------------------
(* Another page.                                                           *)

LEMMA SameSent ==
  ASSUME NEW p, NEW q, q.do = p.do, q.from = p.from, q.form = p.form, q.data = p.data, SentRight(p)
  PROVE  SentRight(q)
BY DEF SentRight

LEMMA LeaveProperties ==
  ASSUME NEW ps \in Seq(Post)
  PROVE  /\ Leave(ps) \in Seq(Post) /\ Len(Leave(ps)) = Len(ps)
         /\ ps = <<>> => Leave(ps) = <<>>
         /\ \A k \in 1..Len(ps) :
              ~Leave(ps)[k].mounted /\ (SentRight(ps[k]) => SentRight(Leave(ps)[k]))
<1> DEFINE left == Leave(ps)
<1>1. Len(ps) \in Nat /\ DOMAIN ps = 1..Len(ps) /\ \A k \in 1..Len(ps) : ps[k] \in Post
  BY LenProperties, ElementOfSeq
<1>2. ASSUME NEW k \in 1..Len(ps)
      PROVE  left[k] \in Post /\ ~left[k].mounted /\ (SentRight(ps[k]) => SentRight(left[k]))
  <2>1. left[k] = [ps[k] EXCEPT !.mounted = FALSE]
    BY <1>1 DEF Leave
  <2>2. ps[k] \in Post
    BY <1>1
  <2> HIDE DEF left
  <2>3. /\ left[k] \in Post /\ ~left[k].mounted /\ left[k].do = ps[k].do
        /\ left[k].from = ps[k].from /\ left[k].form = ps[k].form /\ left[k].data = ps[k].data
    BY <2>1, <2>2 DEF Post
  <2>4. QED BY <2>3, SameSent
<1>3. left = [k \in DOMAIN ps |-> left[k]]
  BY DEF Leave
<1> HIDE DEF left
<1>4. left \in Seq(Post) /\ Len(left) = Len(ps)
  <2>1. \A k \in 1..Len(ps) : left[k] \in Post
    BY <1>2
  <2>2. left \in [1..Len(ps) -> Post]
    BY <2>1, <1>1, <1>3
  <2>3. QED BY <2>2, <1>1
<1>5. ps = <<>> => left = <<>>
  BY <1>1, <1>4, EmptySeq
<1>6. QED BY <1>2, <1>4, <1>5 DEF left

LEMMA MountInv ==
  ASSUME PageInv, NEW place \in offered, place # where, NEW ps \in Seq(Post), Mount(place, ps),
         \A k \in 1..Len(ps) : SentRight(ps[k]), "view" \in offered => ps = <<>>,
         UNCHANGED <<rec, multi, offered>>
  PROVE  FieldInv' /\ PageInv'
<1>1. /\ where' = place /\ kind' = KindOn(place) /\ form' = NewForm /\ value' = {}
      /\ picker' = NewPicker /\ lookups' = <<>> /\ posts' = Leave(ps)
      /\ loads' = IF place = "list" THEN <<>> ELSE <<NewLoad>>
  BY DEF Mount
<1>2. kind' \in Kinds /\ multi \in BOOLEAN
  BY <1>1, KindsOfPages DEF PageInv, PageTypeOK
<1>3. FieldInv'
  <2>1. picker' \in Picker /\ ~picker'.open /\ ~picker'.waiting /\ picker'.cache = {}
    BY <1>1, LookupAssumption DEF NewPicker, Picker
  <2>2. Len(lookups') = 0 /\ lookups' \in Seq(Lookup)
    BY <1>1, EmptySeq
  <2>3. FieldTypeOK'
    BY <1>1, <1>2, <2>1, <2>2 DEF FieldTypeOK, Lookup
  <2>4. QED BY <1>1, <2>1, <2>2, <2>3 DEF FieldInv, OpenWhenWaiting, LookupsAreOfTheirKind,
                                          OptionsAccounted, LabelsAccounted
<1>4. /\ loads' \in Seq(Load) /\ (place = "list" => loads' = <<>>)
      /\ place # "list" => loads' # <<>> /\ loads'[Len(loads')].pc # "read"
  <2>1. CASE place = "list"
    BY <2>1, <1>1, EmptySeq
  <2>2. CASE place # "list"
    <3>1. loads' = <<NewLoad>>
      BY <2>2, <1>1
    <3>2. QED BY <2>2, <3>1, NewThings, OneElement
  <2>3. QED BY <2>1, <2>2
<1>5. /\ posts' \in Seq(Post) /\ Len(posts') = Len(ps) /\ ("view" \in offered => posts' = <<>>)
      /\ \A k \in 1..Len(posts') : ~posts'[k].mounted /\ SentRight(posts'[k])
  BY <1>1, LeaveProperties
<1>6. form' \in Form /\ ~form'.loaded
  BY <1>1, NewThings
<1>7. PageTypeOK'
  BY <1>1, <1>4, <1>5, <1>6 DEF PageInv, PageTypeOK, Load
<1>8. PostsHaveTheirPage'
  BY <1>5 DEF PostsHaveTheirPage
<1>9. ControlIsOfThePage'
  BY <1>1, <1>4 DEF ControlIsOfThePage, KindOn
<1>10. UntouchedIsBase'
  BY <1>6 DEF UntouchedIsBase
<1>11. FormAccounted'
  BY <1>1, <1>4 DEF FormAccounted, Ready
<1>12. QED BY <1>3, <1>7, <1>8, <1>9, <1>10, <1>11 DEF PageInv

LEMMA NavigateInv ==
  ASSUME PageInv, NEW place \in Places, Navigate(place)
  PROVE  FieldInv' /\ PageInv'
<1>1. posts \in Seq(Post)
  BY PageElements DEF PageInv
<1>2. /\ place \in offered /\ place # where /\ Mount(place, posts)
      /\ UNCHANGED <<rec, multi, offered>>
  BY DEF Navigate
<1>3. (\A k \in 1..Len(posts) : SentRight(posts[k])) /\ ("view" \in offered => posts = <<>>)
  BY DEF PageInv, PostsHaveTheirPage
<1>4. QED BY <1>1, <1>2, <1>3, MountInv

-----------------------------------------------------------------------------
(* The form, and what is sent.                                             *)

(* The form changes, but not what it was loaded from.                      *)
LEMMA FormInv ==
  ASSUME PageInv, form' \in Form, form'.loaded = form.loaded, form'.base = form.base,
         form.excused => form'.excused, UntouchedIsBase', UNCHANGED kind,
         UNCHANGED <<rec, multi, offered, where, loads, posts>>
  PROVE  PageInv'
<1>1. FormAccounted'
  BY DEF PageInv, FormAccounted, Ready, Pending
<1>2. PageTypeOK'
  BY DEF PageInv, PageTypeOK
<1>3. PostsHaveTheirPage' /\ ControlIsOfThePage'
  BY DEF PageInv, PostsHaveTheirPage, ControlIsOfThePage, KindOn
<1>4. QED BY <1>1, <1>2, <1>3 DEF PageInv

LEMMA TypeNameInv ==
  ASSUME FieldInv, PageInv, NEW name \in Names, TypeName(name)
  PROVE  FieldInv' /\ PageInv'
<1>1. form \in Form
  BY PageElements DEF PageInv
<1>2. /\ form' = [form EXCEPT !.name = name, !.touched = @ \cup {"name"}]
      /\ UNCHANGED <<fieldVars, rec, multi, offered, where, loads, posts>>
  BY DEF TypeName
<1>3. /\ form' \in Form /\ form'.base = form.base /\ form'.loaded = form.loaded
      /\ form'.excused = form.excused /\ form'.touched = form.touched \cup {"name"}
  BY <1>1, <1>2 DEF Form, FieldNames
<1>4. UNCHANGED kind /\ UNCHANGED value
  BY <1>2 DEF fieldVars
<1>5. UntouchedIsBase'
  BY <1>2, <1>3, <1>4 DEF PageInv, UntouchedIsBase
<1>6. PageInv'
  BY <1>2, <1>3, <1>4, <1>5, FormInv
<1>7. QED BY <1>2, <1>6, FieldKept

LEMMA TypePasswordInv ==
  ASSUME FieldInv, PageInv, NEW word \in {"blank", "differ", "same"}, TypePassword(word)
  PROVE  FieldInv' /\ PageInv'
<1>1. form \in Form
  BY PageElements DEF PageInv
<1>2. /\ form' = [form EXCEPT !.word = word]
      /\ UNCHANGED <<fieldVars, rec, multi, offered, where, loads, posts>>
  BY DEF TypePassword
<1>3. /\ form' \in Form /\ form'.base = form.base /\ form'.loaded = form.loaded
      /\ form'.excused = form.excused /\ form'.touched = form.touched /\ form'.name = form.name
  BY <1>1, <1>2 DEF Form
<1>4. UNCHANGED kind /\ UNCHANGED value
  BY <1>2 DEF fieldVars
<1>5. UntouchedIsBase'
  BY <1>2, <1>3, <1>4 DEF PageInv, UntouchedIsBase
<1>6. PageInv'
  BY <1>2, <1>3, <1>4, <1>5, FormInv
<1>7. QED BY <1>2, <1>6, FieldKept

LEMMA UseFieldInv ==
  ASSUME FieldInv, PageInv, UseField
  PROVE  FieldInv' /\ PageInv'
<1>1. form \in Form
  BY PageElements DEF PageInv
<1>2. /\ FieldClick /\ form' = IF value' = value THEN form
                               ELSE [form EXCEPT !.touched = @ \cup {"rel"}]
      /\ UNCHANGED <<rec, multi, offered, where, loads, posts>>
  BY DEF UseField
<1>3. UNCHANGED kind
  BY <1>2 DEF FieldClick, OpenPicker, ClosePicker, ClearValue, TypeQuery, Choose
<1>4. /\ form' \in Form /\ form'.base = form.base /\ form'.loaded = form.loaded
      /\ form'.excused = form.excused /\ form'.name = form.name
      /\ form.touched \subseteq form'.touched /\ ("rel" \in form'.touched \/ value' = value)
  <2>1. CASE value' = value
    BY <2>1, <1>1, <1>2
  <2>2. CASE value' # value
    <3>1. form' = [form EXCEPT !.touched = @ \cup {"rel"}]
      BY <2>2, <1>2
    <3>2. QED BY <3>1, <1>1 DEF Form, FieldNames
  <2>3. QED BY <2>1, <2>2
<1>5. UntouchedIsBase'
  BY <1>2, <1>4 DEF PageInv, UntouchedIsBase
<1>6. PageInv'
  BY <1>2, <1>3, <1>4, <1>5, FormInv
<1>7. QED BY <1>2, <1>6, FieldClickInv

LEMMA FieldStepPageInv ==
  ASSUME FieldInv, PageInv, FieldStep, UNCHANGED pageVars
  PROVE  FieldInv' /\ PageInv'
<1>1. UNCHANGED <<rec, multi, offered, where, form, loads, posts>>
  BY DEF pageVars
<1>2. UNCHANGED kind /\ UNCHANGED value
  BY DEF FieldStep, TimerFires, SearchAnswers, SearchFails, LabelsAnswer, LabelsFail
<1>3. UntouchedIsBase' /\ form' \in Form
  BY <1>1, <1>2, PageElements DEF PageInv, UntouchedIsBase
<1>4. PageInv'
  BY <1>1, <1>2, <1>3, FormInv
<1>5. QED BY <1>4, FieldStepInv

(* Request p is sent.                                                      *)
LEMMA SendInv ==
  ASSUME PageInv, NEW p \in Post, posts' = Append(posts, p), p.from = where, p.status = "sent",
         SentRight(p), "view" \notin offered,
         form' \in Form, form'.loaded = form.loaded, form'.base = form.base,
         form'.excused = form.excused, form'.name = form.name, form'.touched = form.touched,
         UNCHANGED <<rec, multi, offered, where, loads>>, UNCHANGED kind, UNCHANGED value
  PROVE  PageInv'
<1>1. PageTypeOK /\ posts \in Seq(Post) /\ Len(posts) \in Nat
  BY PageElements DEF PageInv
<1>2. /\ posts' \in Seq(Post) /\ Len(posts') = Len(posts) + 1
      /\ \A k \in 1..Len(posts) : posts'[k] = posts[k]
      /\ posts'[Len(posts) + 1] = p
  BY <1>1, AppendProperties
<1>3. \A k \in 1..Len(posts') : (k \in 1..Len(posts) /\ posts'[k] = posts[k]) \/ posts'[k] = p
  BY <1>1, <1>2
<1>4. Pending => Pending'
  <2>1. \A k \in 1..Len(posts) : k \in 1..Len(posts')
    BY <1>1, <1>2
  <2>2. QED BY <2>1, <1>2 DEF Pending
<1>5. FormAccounted'
  BY <1>4 DEF PageInv, FormAccounted, Ready
<1>6. PageTypeOK'
  BY <1>1, <1>2 DEF PageTypeOK
<1>7. PostsHaveTheirPage'
  BY <1>3 DEF PageInv, PostsHaveTheirPage
<1>8. ControlIsOfThePage' /\ UntouchedIsBase'
  BY DEF PageInv, ControlIsOfThePage, KindOn, UntouchedIsBase
<1>9. QED BY <1>5, <1>6, <1>7, <1>8 DEF PageInv

(* Whoever is on a page that sends may write.                              *)
LEMMA SendersWrite ==
  ASSUME PageTypeOK, where \notin {"list", "view"}
  PROVE  "view" \notin offered
BY DEF PageTypeOK, Places

LEMMA SendType ==
  ASSUME PageTypeOK, NEW do \in {"save", "action", "delete", "password"}, NEW intent \in Intents,
         NEW data \in Records, Send(do, intent, data)
  PROVE  \E p \in Post :
           /\ posts' = Append(posts, p) /\ p.from = where /\ p.status = "sent"
           /\ p.do = do /\ p.form = form /\ p.data = data
<1> DEFINE p == [do |-> do, intent |-> intent, from |-> where, data |-> data,
                 mounted |-> TRUE, status |-> "sent", form |-> form]
<1>1. where \in Places /\ form \in Form
  BY PageElements
<1>2. p \in Post
  BY <1>1 DEF Post
<1>3. posts' = Append(posts, p)
  BY DEF Send
<1>4. QED BY <1>2, <1>3

LEMMA SubmitInv ==
  ASSUME FieldInv, PageInv, NEW intent \in Intents, Submit(intent)
  PROVE  FieldInv' /\ PageInv'
<1>1. PageTypeOK /\ form \in Form
  BY PageElements DEF PageInv
<1>2. /\ where \in {"new", "edit"} /\ Send("save", intent, NormalizeValues)
      /\ UNCHANGED <<fieldVars, rec, multi, offered, where, form, loads>>
  BY DEF Submit
<1>3. UNCHANGED kind /\ UNCHANGED value
  BY <1>2 DEF fieldVars
<1>4. NormalizeValues \in Records
  BY <1>1, FieldElements DEF FieldInv, NormalizeValues, Records, Form
<1>5. PICK p \in Post : /\ posts' = Append(posts, p) /\ p.from = where /\ p.status = "sent"
                        /\ p.do = "save" /\ p.form = form /\ p.data = NormalizeValues
  BY <1>1, <1>2, <1>4, SendType
<1>6. SentRight(p)
  BY <1>2, <1>5 DEF SentRight, SentFrom, PageInv, UntouchedIsBase, NormalizeValues
<1>7. "view" \notin offered
  BY <1>1, <1>2, SendersWrite
<1>8. PageInv'
  BY <1>1, <1>2, <1>3, <1>5, <1>6, <1>7, SendInv
<1>9. QED BY <1>2, <1>8, FieldKept

(* The other requests have nothing of the form.                            *)
LEMMA OtherSendInv ==
  ASSUME FieldInv, PageInv, NEW do \in {"action", "delete", "password"}, where \in SentFrom(do),
         Send(do, "list", EmptyRecord), form' = form \/ form' = [form EXCEPT !.busy = TRUE],
         UNCHANGED <<fieldVars, rec, multi, offered, where, loads>>
  PROVE  FieldInv' /\ PageInv'
<1>1. PageTypeOK /\ form \in Form
  BY PageElements DEF PageInv
<1>2. UNCHANGED kind /\ UNCHANGED value
  BY DEF fieldVars
<1>3. PICK p \in Post : /\ posts' = Append(posts, p) /\ p.from = where /\ p.status = "sent"
                        /\ p.do = do
  <2>1. /\ do \in {"save", "action", "delete", "password"} /\ "list" \in Intents
        /\ EmptyRecord \in Records
    BY NewThings DEF Intents
  <2>2. QED BY <2>1, <1>1, SendType
<1>4. SentRight(p)
  BY <1>3 DEF SentRight
<1>5. "view" \notin offered
  BY <1>1, SendersWrite DEF SentFrom
<1>6. /\ form' \in Form /\ form'.base = form.base /\ form'.loaded = form.loaded
      /\ form'.excused = form.excused /\ form'.name = form.name /\ form'.touched = form.touched
  <2>1. CASE form' = form
    BY <2>1, <1>1
  <2>2. CASE form' = [form EXCEPT !.busy = TRUE]
    BY <2>2, <1>1 DEF Form
  <2>3. QED BY <2>1, <2>2
<1>7. PageInv'
  BY <1>2, <1>3, <1>4, <1>5, <1>6, SendInv
<1>8. QED BY <1>7, FieldKept

-----------------------------------------------------------------------------
(* The answers of requests.                                                *)

LEMMA Removed ==
  ASSUME PageInv, NEW i \in 1..Len(posts), NEW ps, ps = RemoveAt(posts, i)
  PROVE  /\ ps \in Seq(Post) /\ "view" \notin offered
         /\ \A k \in 1..Len(ps) : SentRight(ps[k]) /\ (ps[k].mounted => ps[k].from = where)
         /\ ~(posts[i].mounted /\ posts[i].status = "done") /\ Pending =>
              \E k \in 1..Len(ps) : ps[k].mounted /\ ps[k].status = "done"
<1>1. posts \in Seq(Post) /\ Len(posts) \in Nat /\ posts # <<>>
  <2>1. posts \in Seq(Post) /\ Len(posts) \in Nat
    BY PageElements DEF PageInv
  <2>2. QED BY <2>1, EmptySeq
<1>2. ps \in Seq(Post)
  BY <1>1, RemoveAtProperties
<1>3. "view" \notin offered
  BY <1>1 DEF PageInv, PostsHaveTheirPage
<1>4. ASSUME NEW k \in 1..Len(ps)
      PROVE  SentRight(ps[k]) /\ (ps[k].mounted => ps[k].from = where)
  <2>1. PICK j \in 1..Len(posts) : ps[k] = posts[j]
    BY <1>1, RemoveAtOrigin
  <2>2. QED BY <2>1 DEF PageInv, PostsHaveTheirPage
<1>5. ASSUME ~(posts[i].mounted /\ posts[i].status = "done"), Pending
      PROVE  \E k \in 1..Len(ps) : ps[k].mounted /\ ps[k].status = "done"
  <2>1. PICK j \in 1..Len(posts) : posts[j].mounted /\ posts[j].status = "done"
    BY <1>5 DEF Pending
  <2>2. j # i
    BY <2>1, <1>5
  <2>3. \E k \in 1..Len(ps) : ps[k] = posts[j]
    BY <2>2, <1>1, RemoveAtRest
  <2>4. QED BY <2>1, <2>3
<1>6. QED BY <1>2, <1>3, <1>4, <1>5

(* The loads that have read may be excused.                                *)
LEMMA BlamedLoads ==
  ASSUME PageTypeOK, NEW c \in BOOLEAN, NEW ls,
         ls = [k \in DOMAIN loads |-> [loads[k] EXCEPT !.excused = @ \/ (c /\ loads[k].pc = "read")]]
  PROVE  /\ ls \in Seq(Load) /\ Len(ls) = Len(loads)
         /\ \A k \in 1..Len(loads) :
              /\ ls[k].pc = loads[k].pc /\ ls[k].rec = loads[k].rec
              /\ loads[k].excused => ls[k].excused
              /\ c /\ loads[k].pc = "read" => ls[k].excused
<1>1. /\ Len(loads) \in Nat /\ DOMAIN loads = 1..Len(loads)
      /\ \A k \in 1..Len(loads) : loads[k] \in Load
  BY PageElements
<1>2. ASSUME NEW k \in 1..Len(loads)
      PROVE  /\ ls[k] \in Load /\ ls[k].pc = loads[k].pc /\ ls[k].rec = loads[k].rec
             /\ loads[k].excused => ls[k].excused
             /\ c /\ loads[k].pc = "read" => ls[k].excused
  <2> DEFINE e == loads[k].excused \/ (c /\ loads[k].pc = "read")
  <2>1. ls[k] = [loads[k] EXCEPT !.excused = e]
    BY <1>1
  <2>2. e \in BOOLEAN /\ (loads[k].excused => e) /\ (c /\ loads[k].pc = "read" => e)
    OBVIOUS
  <2>3. loads[k] \in Load
    BY <1>1
  <2> HIDE DEF e
  <2>4. ls[k] \in Load /\ ls[k].pc = loads[k].pc /\ ls[k].rec = loads[k].rec /\ ls[k].excused = e
    BY <2>1, <2>2, <2>3 DEF Load
  <2>5. QED BY <2>2, <2>4
<1>3. ls \in [1..Len(loads) -> Load]
  <2>1. \A k \in 1..Len(loads) : ls[k] \in Load
    BY <1>2
  <2>2. DOMAIN ls = 1..Len(loads) /\ ls = [k \in DOMAIN loads |-> ls[k]]
    BY <1>1
  <2>3. QED BY <2>1, <2>2, <1>1
<1>4. ls \in Seq(Load) /\ Len(ls) = Len(loads)
  BY <1>1, <1>3
<1>5. QED BY <1>2, <1>4

(* The page that is mounted stays; its loads go on.                        *)
LEMMA SamePageInv ==
  ASSUME PageInv, rec' \in Records \cup {Gone}, posts' \in Seq(Post), PostsHaveTheirPage',
         UNCHANGED <<multi, offered, where>>, UNCHANGED kind, UNCHANGED value, form' \in Form,
         form'.loaded = form.loaded, form'.base = form.base, form'.name = form.name,
         form'.touched = form.touched, form.excused => form'.excused,
         loads' \in Seq(Load), Len(loads') = Len(loads),
         \A k \in 1..Len(loads) : /\ loads'[k].pc = loads[k].pc /\ loads'[k].rec = loads[k].rec
                                  /\ loads[k].excused => loads'[k].excused,
         \/ Pending'
         \/ rec' = rec /\ (Pending => Pending')
         \/ form'.excused /\ \A k \in 1..Len(loads) : loads[k].pc = "read" => loads'[k].excused
  PROVE  PageInv'
<1>1. loads # <<>> => Len(loads) \in 1..Len(loads) /\ loads' # <<>>
  <2>1. Len(loads) \in Nat /\ (loads # <<>> => Len(loads) \in 1..Len(loads))
    BY PageElements DEF PageInv
  <2>2. QED BY <2>1, EmptySeq
<1>2. ASSUME loads # <<>>, Ready(loads[Len(loads)])
      PROVE  Ready(loads[Len(loads)])'
  BY <1>1, <1>2 DEF Ready
<1>3. ASSUME form.excused \/ (form.loaded /\ (Pending \/ form.base = rec))
      PROVE  form'.excused \/ (form'.loaded /\ (Pending' \/ form'.base = rec'))
  BY <1>3
<1>4. (\A k \in 1..Len(loads) : loads[k].excused) => \A k \in 1..Len(loads') : loads'[k].excused
  OBVIOUS
<1>5. FormAccounted'
  BY <1>1, <1>2, <1>3, <1>4 DEF PageInv, FormAccounted
<1>6. PageTypeOK'
  BY DEF PageInv, PageTypeOK, Load
<1>7. UntouchedIsBase'
  BY DEF PageInv, UntouchedIsBase
<1>8. ControlIsOfThePage'
  <2>1. loads = <<>> => loads' = <<>>
    BY EmptySeq
  <2>2. QED BY <2>1 DEF PageInv, ControlIsOfThePage, KindOn
<1>9. QED BY <1>5, <1>6, <1>7, <1>8 DEF PageInv

(* The page that is mounted loads again.                                   *)
LEMMA LoadAgainInv ==
  ASSUME PageInv, posts' \in Seq(Post), PostsHaveTheirPage',
         NEW closes \in BOOLEAN, loads' = Append(loads, LoadThat(closes)),
         UNCHANGED <<rec, multi, offered, where>>, where # "list", UNCHANGED kind, UNCHANGED value,
         form' \in Form, form'.loaded = form.loaded, form'.base = form.base,
         form'.name = form.name, form'.touched = form.touched
  PROVE  PageInv'
<1>1. loads \in Seq(Load) /\ Len(loads) \in Nat
  BY PageElements DEF PageInv
<1>2. /\ loads' \in Seq(Load) /\ Len(loads') = Len(loads) + 1
      /\ loads'[Len(loads) + 1] = LoadThat(closes)
  <2>1. LoadThat(closes) \in Load
    BY NewThings
  <2>2. QED BY <2>1, <1>1, AppendProperties
<1>3. loads' # <<>>
  BY <1>1, <1>2, EmptySeq
<1>4. FormAccounted'
  BY <1>2, <1>3, NewThings DEF FormAccounted, Ready
<1>5. PageTypeOK'
  BY <1>2 DEF PageInv, PageTypeOK, Load
<1>6. UntouchedIsBase' /\ ControlIsOfThePage'
  BY DEF PageInv, UntouchedIsBase, ControlIsOfThePage, KindOn
<1>7. QED BY <1>4, <1>5, <1>6 DEF PageInv

LEMMA RecordAfterType ==
  ASSUME PageTypeOK, NEW p \in Post, SentRight(p), rec # Gone \/ p.from = "new"
  PROVE  RecordAfter(p) \in Records \cup {Gone}
<1>1. p.data \in Records /\ p.from \in SentFrom(p.do) /\ p.do \in {"save", "action", "delete", "password"}
  BY DEF SentRight, Post
<1>2. CASE p.do = "save"
  <2>1. CASE p.from = "new"
    BY <2>1, <1>1, <1>2 DEF RecordAfter
  <2>2. CASE p.from # "new"
    <3>1. rec \in Records /\ RecordAfter(p) = Saved(p)
      BY <2>2, <1>2 DEF PageTypeOK, RecordAfter
    <3>2. Saved(p) \in Records
      BY <3>1, <1>1 DEF Saved, Records
    <3>3. QED BY <3>1, <3>2
  <2>3. QED BY <2>1, <2>2
<1>3. CASE p.do = "action"
  <2>1. rec \in Records /\ RecordAfter(p) = [rec EXCEPT !.name = "done"]
    BY <1>1, <1>3 DEF PageTypeOK, RecordAfter, SentFrom
  <2>2. QED BY <2>1, NameAssumption DEF Records
<1>4. CASE p.do = "delete"
  BY <1>4 DEF RecordAfter
<1>5. CASE p.do = "password"
  BY <1>5 DEF RecordAfter, PageTypeOK
<1>6. QED BY <1>1, <1>2, <1>3, <1>4, <1>5

(* Whatever is blamed is excused.                                          *)
LEMMA BlameInv ==
  ASSUME PageInv, Blame, rec' \in Records \cup {Gone}, posts' \in Seq(Post), PostsHaveTheirPage',
         UNCHANGED <<multi, offered, where>>, UNCHANGED kind, UNCHANGED value
  PROVE  PageInv'
<1>1. PageTypeOK /\ form \in Form
  BY PageElements DEF PageInv
<1>2. /\ form' \in Form /\ form'.excused /\ form'.loaded = form.loaded /\ form'.base = form.base
      /\ form'.name = form.name /\ form'.touched = form.touched
  BY <1>1 DEF Blame, Form
<1>3. TRUE \in BOOLEAN
      /\ loads' = [k \in DOMAIN loads |->
                     [loads[k] EXCEPT !.excused = @ \/ (TRUE /\ loads[k].pc = "read")]]
  BY DEF Blame
<1>4. /\ loads' \in Seq(Load) /\ Len(loads') = Len(loads)
      /\ \A k \in 1..Len(loads) :
           /\ loads'[k].pc = loads[k].pc /\ loads'[k].rec = loads[k].rec
           /\ loads[k].excused => loads'[k].excused
           /\ loads[k].pc = "read" => loads'[k].excused
  BY <1>1, <1>3, BlamedLoads
<1>5. QED BY <1>2, <1>4, SamePageInv

LEMMA OthersInv ==
  ASSUME FieldInv, PageInv, Others
  PROVE  FieldInv' /\ PageInv'
<1>1. rec' \in Records /\ Blame /\ UNCHANGED <<fieldVars, multi, offered, where, posts>>
  BY DEF Others
<1>2. UNCHANGED kind /\ UNCHANGED value
  BY <1>1 DEF fieldVars
<1>3. posts' \in Seq(Post) /\ PostsHaveTheirPage'
  BY <1>1, PageElements DEF PageInv, PostsHaveTheirPage
<1>4. PageInv'
  BY <1>1, <1>2, <1>3, BlameInv
<1>5. QED BY <1>1, <1>4, FieldKept

LEMMA PostAppliesInv ==
  ASSUME FieldInv, PageInv, NEW i \in 1..Len(posts), PostApplies(i)
  PROVE  FieldInv' /\ PageInv'
<1>1. /\ PageTypeOK /\ form \in Form /\ loads \in Seq(Load) /\ posts \in Seq(Post)
      /\ Len(posts) \in Nat /\ \A k \in 1..Len(posts) : posts[k] \in Post
  BY PageElements DEF PageInv
<1>2. posts[i].status = "sent" /\ UNCHANGED <<fieldVars, multi, offered, where>>
  BY DEF PostApplies
<1>3. UNCHANGED kind /\ UNCHANGED value
  BY <1>2 DEF fieldVars
<1>4. ASSUME NEW status \in {"done", "refused"}, posts' = [posts EXCEPT ![i].status = status]
      PROVE  /\ posts' \in Seq(Post) /\ PostsHaveTheirPage' /\ (Pending => Pending')
             /\ posts[i].mounted /\ status = "done" => Pending'
  <2> DEFINE p == [posts[i] EXCEPT !.status = status]
  <2>1. /\ p \in Post /\ p.do = posts[i].do /\ p.from = posts[i].from /\ p.form = posts[i].form
        /\ p.data = posts[i].data /\ p.mounted = posts[i].mounted /\ p.status = status
    BY <1>1 DEF Post
  <2>2. posts' = [posts EXCEPT ![i] = p]
    BY <1>4
  <2> HIDE DEF p
  <2>3. /\ posts' \in Seq(Post) /\ Len(posts') = Len(posts)
        /\ \A k \in 1..Len(posts) : posts'[k] = IF k = i THEN p ELSE posts[k]
    BY <2>1, <2>2, <1>1, ExceptSeq
  <2>4. /\ \A k \in 1..Len(posts) : SentRight(posts[k]) /\ (posts[k].mounted => posts[k].from = where)
        /\ "view" \notin offered
    <3>1. posts # <<>>
      BY <1>1, EmptySeq
    <3>2. QED BY <3>1 DEF PageInv, PostsHaveTheirPage
  <2>5. SentRight(p) /\ (p.mounted => p.from = where)
    BY <2>1, <2>4, SameSent
  <2>6. PostsHaveTheirPage'
    BY <2>3, <2>4, <2>5, <1>2 DEF PostsHaveTheirPage
  <2>7. Pending => Pending'
    <3>1. SUFFICES ASSUME NEW k \in 1..Len(posts), posts[k].mounted, posts[k].status = "done"
                   PROVE  Pending'
      BY DEF Pending
    <3>2. posts'[k] = posts[k]
      BY <3>1, <2>3, <1>2
    <3>3. QED BY <3>1, <3>2, <2>3 DEF Pending
  <2>8. posts[i].mounted /\ status = "done" => Pending'
    BY <2>1, <2>3 DEF Pending
  <2>9. QED BY <2>3, <2>6, <2>7, <2>8
<1>5. ASSUME UNCHANGED <<form, loads>>, rec' \in Records \cup {Gone}, posts' \in Seq(Post),
             PostsHaveTheirPage', Pending' \/ (rec' = rec /\ (Pending => Pending'))
      PROVE  PageInv'
  <2>1. form' \in Form /\ loads' \in Seq(Load)
    BY <1>1, <1>5
  <2>2. QED BY <2>1, <1>2, <1>3, <1>5, SamePageInv
<1>6. CASE /\ rec # Gone \/ posts[i].from = "new"
           /\ rec' = RecordAfter(posts[i]) /\ posts' = [posts EXCEPT ![i].status = "done"]
           /\ IF posts[i].mounted THEN UNCHANGED <<form, loads>> ELSE Blame
  <2>1. /\ posts' \in Seq(Post) /\ PostsHaveTheirPage' /\ (posts[i].mounted => Pending')
    BY <1>4, <1>6
  <2>2. rec' \in Records \cup {Gone}
    <3>1. posts[i] \in Post /\ SentRight(posts[i])
      BY <1>1 DEF PageInv, PostsHaveTheirPage
    <3>2. QED BY <3>1, <1>1, <1>6, RecordAfterType
  <2>3. ASSUME posts[i].mounted
        PROVE  PageInv'
    BY <2>1, <2>2, <2>3, <1>5, <1>6
  <2>4. ASSUME ~posts[i].mounted
        PROVE  PageInv'
    BY <2>1, <2>2, <2>4, <1>2, <1>3, <1>6, BlameInv
  <2>5. PageInv'
    BY <2>3, <2>4
  <2>6. QED BY <2>5, <1>2, FieldKept
<1>7. CASE posts' = [posts EXCEPT ![i].status = "refused"] /\ UNCHANGED <<rec, form, loads>>
  <2>1. posts' \in Seq(Post) /\ PostsHaveTheirPage' /\ (Pending => Pending')
    BY <1>4, <1>7
  <2>2. rec' \in Records \cup {Gone}
    BY <1>1, <1>7 DEF PageTypeOK
  <2>3. PageInv'
    BY <2>1, <2>2, <1>5, <1>7
  <2>4. QED BY <2>3, <1>2, FieldKept
<1>8. QED BY <1>6, <1>7 DEF PostApplies

(* What the removal of request i leaves to the page.                       *)
LEMMA PostEnds ==
  ASSUME PageInv, NEW i \in 1..Len(posts), posts' = RemoveAt(posts, i), UNCHANGED <<offered, where>>
  PROVE  /\ posts' \in Seq(Post) /\ PostsHaveTheirPage'
         /\ ~(posts[i].mounted /\ posts[i].status = "done") /\ Pending => Pending'
<1>1. /\ posts' \in Seq(Post) /\ "view" \notin offered
      /\ \A k \in 1..Len(posts') :
           SentRight(posts'[k]) /\ (posts'[k].mounted => posts'[k].from = where)
      /\ ~(posts[i].mounted /\ posts[i].status = "done") /\ Pending =>
           \E k \in 1..Len(posts') : posts'[k].mounted /\ posts'[k].status = "done"
  BY Removed
<1>2. PostsHaveTheirPage'
  BY <1>1 DEF PostsHaveTheirPage
<1>3. QED BY <1>1, <1>2 DEF Pending

(* The page of a request that is mounted is the one it came from.          *)
LEMMA PageOfPost ==
  ASSUME PageInv, NEW i \in 1..Len(posts)
  PROVE  /\ posts[i] \in Post /\ SentRight(posts[i])
         /\ posts[i].mounted => posts[i].from = where
BY PageElements DEF PageInv, PostsHaveTheirPage

LEMMA EndsUnmounted ==
  ASSUME PageInv, NEW i \in 1..Len(posts), posts' = RemoveAt(posts, i),
         ~(posts[i].mounted /\ posts[i].status = "done"),
         UNCHANGED <<rec, multi, offered, where, form, loads>>, UNCHANGED kind, UNCHANGED value
  PROVE  PageInv'
<1>1. form' \in Form /\ loads' \in Seq(Load) /\ rec' \in Records \cup {Gone}
  BY PageElements DEF PageInv, PageTypeOK
<1>2. posts' \in Seq(Post) /\ PostsHaveTheirPage' /\ (Pending => Pending')
  BY PostEnds
<1>3. QED BY <1>1, <1>2, SamePageInv

LEMMA ContinueEndsInv ==
  ASSUME FieldInv, PageInv, NEW i \in 1..Len(posts), ContinueEnds(i)
  PROVE  FieldInv' /\ PageInv'
<1>1. form \in Form
  BY PageElements DEF PageInv
<1>2. /\ posts[i].from = "edit" /\ posts' = RemoveAt(posts, i)
      /\ UNCHANGED <<fieldVars, rec, multi, offered, where, form>>
      /\ loads' = IF posts[i].mounted THEN Append(loads, NewLoad) ELSE loads
  BY DEF ContinueEnds
<1>3. UNCHANGED kind /\ UNCHANGED value
  BY <1>2 DEF fieldVars
<1>4. ASSUME posts[i].mounted
      PROVE  PageInv'
  <2>1. where # "list"
    BY <1>2, <1>4, PageOfPost
  <2>2. posts' \in Seq(Post) /\ PostsHaveTheirPage'
    BY <1>2, PostEnds
  <2>3. loads' = Append(loads, LoadThat(FALSE)) /\ FALSE \in BOOLEAN
    BY <1>2, <1>4 DEF NewLoad
  <2>4. QED BY <2>1, <2>2, <2>3, <1>1, <1>2, <1>3, LoadAgainInv
<1>5. ASSUME ~posts[i].mounted
      PROVE  PageInv'
  BY <1>2, <1>3, <1>5, EndsUnmounted
<1>6. QED BY <1>2, <1>4, <1>5, FieldKept

LEMMA ActionEndsInv ==
  ASSUME FieldInv, PageInv, NEW i \in 1..Len(posts), ActionEnds(i)
  PROVE  FieldInv' /\ PageInv'
<1>1. form \in Form
  BY PageElements DEF PageInv
<1>2. /\ posts[i].do = "action" /\ posts' = RemoveAt(posts, i)
      /\ UNCHANGED <<fieldVars, rec, multi, offered, where, form>>
      /\ loads' = IF posts[i].mounted THEN Append(loads, LoadThat(TRUE)) ELSE loads
  BY DEF ActionEnds
<1>3. UNCHANGED kind /\ UNCHANGED value
  BY <1>2 DEF fieldVars
<1>4. ASSUME posts[i].mounted
      PROVE  PageInv'
  <2>1. where # "list"
    BY <1>2, <1>4, PageOfPost DEF SentRight, SentFrom
  <2>2. posts' \in Seq(Post) /\ PostsHaveTheirPage'
    BY <1>2, PostEnds
  <2>3. loads' = Append(loads, LoadThat(TRUE)) /\ TRUE \in BOOLEAN
    BY <1>2, <1>4
  <2>4. QED BY <2>1, <2>2, <2>3, <1>1, <1>2, <1>3, LoadAgainInv
<1>5. ASSUME ~posts[i].mounted
      PROVE  PageInv'
  BY <1>2, <1>3, <1>5, EndsUnmounted
<1>6. QED BY <1>2, <1>4, <1>5, FieldKept

(* The page that a request of a mounted page leads to is another one, but  *)
(* for the page of a new record.                                           *)
LEMMA HashEndsInv ==
  ASSUME FieldInv, PageInv, NEW i \in 1..Len(posts), HashEnds(i)
  PROVE  FieldInv' /\ PageInv'
<1> DEFINE p == posts[i]
           ps == RemoveAt(posts, i)
           place == PageAfter(p)
<1>1. /\ PageTypeOK /\ form \in Form /\ loads \in Seq(Load) /\ where \in Places
      /\ picker \in Picker
  BY PageElements, FieldElements DEF PageInv, FieldInv
<1>2. /\ UNCHANGED <<rec, multi, offered>>
      /\ p.do \in {"delete", "password"}
         \/ (p.do = "save" /\ ~(p.intent = "continue" /\ p.from = "edit"))
      /\ IF place = "new" /\ where = "new" /\ p.mounted
           THEN /\ form' = [form EXCEPT !.name = "", !.touched = {}] /\ SetValue({}, picker)
                /\ posts' = ps /\ UNCHANGED <<kind, where, loads>>
           ELSE Mount(place, ps)
  BY DEF HashEnds
<1>3. /\ ps \in Seq(Post) /\ "view" \notin offered
      /\ \A k \in 1..Len(ps) : SentRight(ps[k]) /\ (ps[k].mounted => ps[k].from = where)
  BY Removed
<1>4. place \in {"list", "new", "edit"}
  BY DEF PageAfter
<1>5. place \in offered
  BY <1>1, <1>3, <1>4 DEF PageTypeOK, Places
<1>6. p.mounted /\ place = "edit" => where # "edit"
  BY <1>2, PageOfPost DEF PageAfter, SentRight, SentFrom
<1> HIDE DEF ps, place
<1>7. CASE place = "new" /\ where = "new" /\ p.mounted
  <2>1. /\ form' = [form EXCEPT !.name = "", !.touched = {}] /\ SetValue({}, picker)
        /\ posts' = ps /\ UNCHANGED <<kind, where, loads>>
    BY <1>2, <1>7
  <2>2. kind # "filter"
    BY <1>1, <1>7, KindsOfPages DEF PageInv, PageTypeOK, ControlIsOfThePage
  <2>3. FieldInv'
    BY <2>1, <2>2, <1>1, SetValueInv
  <2>4. form' \in Form
    BY <2>1, <1>1, NameAssumption DEF Form, FieldNames
  <2>5. PageTypeOK'
    BY <2>1, <2>4, <1>1, <1>2, <1>3 DEF PageTypeOK
  <2>6. PostsHaveTheirPage'
    BY <2>1, <1>2, <1>3 DEF PostsHaveTheirPage
  <2>7. ControlIsOfThePage' /\ UntouchedIsBase' /\ FormAccounted'
    BY <2>1, <1>2, <1>7 DEF PageInv, ControlIsOfThePage, KindOn, UntouchedIsBase, FormAccounted
  <2>8. QED BY <2>3, <2>5, <2>6, <2>7 DEF PageInv
<1>8. CASE ~(place = "new" /\ where = "new" /\ p.mounted) /\ place # where
  <2>1. Mount(place, ps)
    BY <1>2, <1>8
  <2>2. QED BY <2>1, <1>2, <1>3, <1>5, <1>8, MountInv
<1>9. CASE ~(place = "new" /\ where = "new" /\ p.mounted) /\ place = where
  <2>1. Mount(place, ps)
    BY <1>2, <1>9
  <2>2. UNCHANGED <<where, form, loads, fieldVars>> /\ posts' = ps
    BY <2>1, <1>9 DEF Mount
  <2>3. UNCHANGED kind /\ UNCHANGED value
    BY <2>2 DEF fieldVars
  <2>4. PageInv'
    <3>1. CASE ~p.mounted
      BY <3>1, <2>2, <2>3, <1>2, EndsUnmounted DEF ps
    <3>2. CASE p.mounted
      <4>1. where = "list"
        BY <3>2, <1>4, <1>6, <1>9
      <4>2. PageTypeOK'
        BY <2>2, <1>1, <1>2, <1>3 DEF PageTypeOK
      <4>3. PostsHaveTheirPage'
        BY <2>2, <1>2, <1>3 DEF PostsHaveTheirPage
      <4>4. ControlIsOfThePage' /\ UntouchedIsBase' /\ FormAccounted'
        BY <4>1, <2>2, <2>3, <1>2 DEF PageInv, ControlIsOfThePage, KindOn, UntouchedIsBase,
                                      FormAccounted
      <4>5. QED BY <4>2, <4>3, <4>4 DEF PageInv
    <3>3. QED BY <3>1, <3>2
  <2>5. QED BY <2>2, <2>4, FieldKept
<1>10. QED BY <1>7, <1>8, <1>9

LEMMA PostFailsInv ==
  ASSUME FieldInv, PageInv, NEW i \in 1..Len(posts), PostFails(i)
  PROVE  FieldInv' /\ PageInv'
<1> DEFINE p == posts[i]
           lost == p.status = "done"
<1>1. PageTypeOK /\ form \in Form /\ rec \in Records \cup {Gone}
  BY PageElements DEF PageInv, PageTypeOK
<1>2. /\ posts' = RemoveAt(posts, i) /\ UNCHANGED <<fieldVars, rec, multi, offered, where>>
      /\ form' = IF ~p.mounted THEN form
                 ELSE [form EXCEPT !.busy = IF p.do = "save" THEN @ ELSE FALSE,
                                   !.screen = IF p.do = "delete" THEN "error" ELSE @,
                                   !.excused = @ \/ lost]
      /\ loads' = [k \in DOMAIN loads |->
                     [loads[k] EXCEPT !.excused = @ \/ (lost /\ loads[k].pc = "read")]]
  BY DEF PostFails
<1>3. UNCHANGED kind /\ UNCHANGED value
  BY <1>2 DEF fieldVars
<1>4. lost \in BOOLEAN
  OBVIOUS
<1>5. /\ posts' \in Seq(Post) /\ PostsHaveTheirPage' /\ (~(p.mounted /\ lost) /\ Pending => Pending')
  BY <1>2, PostEnds
<1> HIDE DEF lost, p
<1>6. /\ loads' \in Seq(Load) /\ Len(loads') = Len(loads)
      /\ \A k \in 1..Len(loads) :
           /\ loads'[k].pc = loads[k].pc /\ loads'[k].rec = loads[k].rec
           /\ loads[k].excused => loads'[k].excused
           /\ lost /\ loads[k].pc = "read" => loads'[k].excused
  <2>1. CASE lost
    <3>1. /\ TRUE \in BOOLEAN
          /\ loads' = [k \in DOMAIN loads |->
                         [loads[k] EXCEPT !.excused = @ \/ (TRUE /\ loads[k].pc = "read")]]
      BY <2>1, <1>2
    <3>2. QED BY <3>1, <2>1, <1>1, BlamedLoads
  <2>2. CASE ~lost
    <3>1. /\ FALSE \in BOOLEAN
          /\ loads' = [k \in DOMAIN loads |->
                         [loads[k] EXCEPT !.excused = @ \/ (FALSE /\ loads[k].pc = "read")]]
      BY <2>2, <1>2
    <3>2. QED BY <3>1, <2>2, <1>1, BlamedLoads
  <2>3. QED BY <2>1, <2>2
<1>7. /\ form' \in Form /\ form'.loaded = form.loaded /\ form'.base = form.base
      /\ form'.name = form.name /\ form'.touched = form.touched
      /\ form.excused => form'.excused
      /\ p.mounted /\ lost => form'.excused
  <2>1. CASE ~p.mounted
    BY <2>1, <1>1, <1>2
  <2>2. CASE p.mounted
    <3> DEFINE b == IF p.do = "save" THEN form.busy ELSE FALSE
               s == IF p.do = "delete" THEN "error" ELSE form.screen
               e == form.excused \/ lost
    <3>1. form' = [form EXCEPT !.busy = b, !.screen = s, !.excused = e]
      BY <2>2, <1>2
    <3>2. /\ b \in BOOLEAN /\ s \in {"loading", "ready", "blocked", "error"} /\ e \in BOOLEAN
          /\ (form.excused => e) /\ (lost => e)
      BY <1>1 DEF Form
    <3> HIDE DEF b, s, e
    <3>3. /\ form' \in Form /\ form'.loaded = form.loaded /\ form'.base = form.base
          /\ form'.name = form.name /\ form'.touched = form.touched /\ form'.excused = e
      BY <3>1, <3>2, <1>1 DEF Form
    <3>4. QED BY <3>2, <3>3
  <2>3. QED BY <2>1, <2>2
<1>8. PageInv'
  <2>1. CASE p.mounted /\ lost
    <3>1. form'.excused
      BY <2>1, <1>7
    <3>2. ASSUME NEW k \in 1..Len(loads), loads[k].pc = "read"
          PROVE  loads'[k].excused
      BY <2>1, <3>2, <1>6
    <3>3. QED BY <3>1, <3>2, <1>1, <1>2, <1>3, <1>5, <1>6, <1>7, SamePageInv
  <2>2. CASE ~(p.mounted /\ lost)
    <3>1. Pending => Pending'
      BY <2>2, <1>5
    <3>2. form.excused => form'.excused
      BY <1>7
    <3>3. QED BY <3>1, <3>2, <1>1, <1>2, <1>3, <1>5, <1>6, <1>7, SamePageInv
  <2>3. QED BY <2>1, <2>2
<1>9. QED BY <1>2, <1>8, FieldKept

-----------------------------------------------------------------------------
(* Every step keeps the invariant.                                         *)

LEMMA InitInv == Init => Inv
<1>1. SUFFICES ASSUME Init
               PROVE  Inv
  OBVIOUS
<1>2. /\ multi \in BOOLEAN /\ offered \in {Places \ {"view"}, {"list", "view"}} /\ where \in offered
      /\ rec \in Records /\ form = NewForm /\ posts = <<>> /\ kind = KindOn(where) /\ clicks = 0
      /\ loads = IF where = "list" THEN <<>> ELSE <<NewLoad>>
  BY <1>1, NameAssumption DEF Init, Records
<1>3. FieldInv
  BY <1>1, <1>2, KindsOfPages, FieldStarts DEF Init
<1>4. /\ loads \in Seq(Load) /\ (where = "list" => loads = <<>>)
      /\ where # "list" => loads # <<>> /\ loads[Len(loads)].pc # "read"
  <2>1. CASE where = "list"
    BY <2>1, <1>2, EmptySeq
  <2>2. CASE where # "list"
    <3>1. loads = <<NewLoad>>
      BY <2>2, <1>2
    <3>2. QED BY <2>2, <3>1, NewThings, OneElement
  <2>3. QED BY <2>1, <2>2
<1>5. form \in Form /\ ~form.loaded
  BY <1>2, NewThings
<1>6. posts \in Seq(Post) /\ Len(posts) = 0
  BY <1>2, EmptySeq
<1>7. PageTypeOK
  BY <1>2, <1>4, <1>5, <1>6 DEF PageTypeOK, Load
<1>8. PostsHaveTheirPage /\ ControlIsOfThePage
  BY <1>2, <1>4, <1>6 DEF PostsHaveTheirPage, ControlIsOfThePage
<1>9. UntouchedIsBase /\ FormAccounted
  BY <1>4, <1>5 DEF UntouchedIsBase, FormAccounted, Ready
<1>10. clicks \in 0..MaxClicks
  BY <1>2, BoundAssumption
<1>11. QED BY <1>3, <1>7, <1>8, <1>9, <1>10 DEF PageInv, Inv

LEMMA StepInv ==
  ASSUME Inv, Step
  PROVE  FieldInv' /\ PageInv'
<1>1. FieldInv /\ PageInv /\ DOMAIN loads = 1..Len(loads) /\ DOMAIN posts = 1..Len(posts)
  BY PageElements DEF Inv, PageInv
<1>2. ASSUME NEW i \in 1..Len(loads),
             MetaArrives(i) \/ RecordReads(i) \/ RecordArrives(i) \/ LoadFails(i)
      PROVE  FieldInv' /\ PageInv'
  BY <1>1, <1>2, MetaArrivesInv, RecordReadsInv, RecordArrivesInv, LoadFailsInv
<1>3. ASSUME NEW i \in 1..Len(posts),
             PostApplies(i) \/ ContinueEnds(i) \/ ActionEnds(i) \/ HashEnds(i) \/ PostFails(i)
      PROVE  FieldInv' /\ PageInv'
  BY <1>1, <1>3, PostAppliesInv, ContinueEndsInv, ActionEndsInv, HashEndsInv, PostFailsInv
<1>4. CASE FieldStep /\ UNCHANGED pageVars
  BY <1>1, <1>4, FieldStepPageInv
<1>5. QED BY <1>1, <1>2, <1>3, <1>4 DEF Step

LEMMA ClickInv ==
  ASSUME Inv, Click
  PROVE  FieldInv' /\ PageInv'
<1>1. FieldInv /\ PageInv
  BY DEF Inv
<1>2. CASE \E place \in Places : Navigate(place)
  BY <1>1, <1>2, NavigateInv
<1>3. CASE \E name \in Names : TypeName(name)
  BY <1>1, <1>3, TypeNameInv
<1>4. CASE UseField
  BY <1>1, <1>4, UseFieldInv
<1>5. CASE \E intent \in Intents : Submit(intent)
  BY <1>1, <1>5, SubmitInv
<1>6. CASE RunAction
  <2>1. /\ "action" \in {"action", "delete", "password"} /\ where \in SentFrom("action")
        /\ Send("action", "list", EmptyRecord) /\ form' = [form EXCEPT !.busy = TRUE]
        /\ UNCHANGED <<fieldVars, rec, multi, offered, where, loads>>
    BY <1>6 DEF RunAction, SentFrom
  <2>2. QED BY <2>1, <1>1, OtherSendInv
<1>7. CASE ConfirmDelete
  <2>1. /\ "delete" \in {"action", "delete", "password"} /\ where \in SentFrom("delete")
        /\ Send("delete", "list", EmptyRecord) /\ form' = [form EXCEPT !.busy = TRUE]
        /\ UNCHANGED <<fieldVars, rec, multi, offered, where, loads>>
    BY <1>7 DEF ConfirmDelete, SentFrom
  <2>2. QED BY <2>1, <1>1, OtherSendInv
<1>8. CASE ChangePassword
  <2>1. /\ "password" \in {"action", "delete", "password"} /\ where \in SentFrom("password")
        /\ Send("password", "list", EmptyRecord) /\ form' = form
        /\ UNCHANGED <<fieldVars, rec, multi, offered, where, loads>>
    BY <1>8 DEF ChangePassword, SentFrom
  <2>2. QED BY <2>1, <1>1, OtherSendInv
<1>9. CASE \E word \in {"blank", "differ", "same"} : TypePassword(word)
  BY <1>1, <1>9, TypePasswordInv
<1>10. CASE Others
  BY <1>1, <1>10, OthersInv
<1>11. QED BY <1>2, <1>3, <1>4, <1>5, <1>6, <1>7, <1>8, <1>9, <1>10 DEF Click

LEMMA NextInv == Inv /\ [Next]_vars => Inv'
<1>1. SUFFICES ASSUME Inv, [Next]_vars
               PROVE  Inv'
  OBVIOUS
<1>2. clicks \in 0..MaxClicks /\ MaxClicks \in Nat
  BY <1>1, BoundAssumption DEF Inv
<1>3. CASE Step
  <2>1. clicks' \in 0..MaxClicks
    BY <1>2, <1>3 DEF Step
  <2>2. QED BY <2>1, <1>1, <1>3, StepInv DEF Inv
<1>4. CASE Operator
  <2>1. clicks' \in 0..MaxClicks /\ Click
    BY <1>2, <1>4 DEF Operator
  <2>2. QED BY <2>1, <1>1, ClickInv DEF Inv
<1>5. CASE UNCHANGED vars
  <2>1. /\ UNCHANGED <<fieldVars, rec, multi, offered, where, form, loads, posts>>
        /\ UNCHANGED clicks /\ UNCHANGED kind /\ UNCHANGED value
    BY <1>5 DEF vars, pageVars, fieldVars
  <2>2. form' \in Form /\ UntouchedIsBase'
    BY <2>1, <1>1, PageElements DEF Inv, PageInv, UntouchedIsBase
  <2>3. PageInv'
    BY <2>1, <2>2, <1>1, FormInv DEF Inv
  <2>4. QED BY <2>1, <2>3, <1>1, FieldKept DEF Inv
<1>6. QED BY <1>1, <1>3, <1>4, <1>5 DEF Next

(* What the theorems below come from.                                      *)
THEOREM Invariance == Spec => []Inv
<1>1. Init => Inv
  BY InitInv
<1>2. Inv /\ [Next]_vars => Inv'
  BY NextInv
<1>3. QED BY <1>1, <1>2, PTL DEF Spec

(* The pages of a record, their control, loads and requests stay of their  *)
(* types, for any number of each.                                          *)
THEOREM TypeCorrect == Spec => []TypeOK
<1>1. Inv => TypeOK
  BY DEF Inv, FieldInv, PageInv, PageTypeOK, TypeOK, Places
<1>2. QED BY <1>1, Invariance, PTL

(* EditPage.tsx, load and what saves and actions do when they are answered:*)
(* a form that nobody has touched ends as the record that the server has.  *)
THEOREM FormsEndCurrent == Spec => []FormIsRecord
<1>1. ASSUME Inv
      PROVE  FormIsRecord
  <2>1. SUFFICES ASSUME AtRest, where \in {"edit", "view"}, ~form.excused, form.touched = {}
                 PROVE  form.loaded /\ form.name = rec.name /\ value = rec.rel
    BY DEF FormIsRecord
  <2>2. ~Pending /\ loads = <<>>
    BY <2>1, <1>1, PageElements DEF AtRest, Pending, Inv, PageInv
  <2>3. form.loaded /\ form.base = rec
    BY <2>1, <2>2, <1>1 DEF Inv, PageInv, FormAccounted
  <2>4. QED BY <2>1, <2>3, <1>1 DEF Inv, PageInv, UntouchedIsBase
<1>2. QED BY <1>1, Invariance, PTL

(* EditPage.tsx, normalizeValues: a save sends every field and changes none*)
(* that the operator has not touched, whatever came in the meantime.       *)
THEOREM SavesKeepUntouched == Spec => []SaveKeepsUntouched
<1>1. ASSUME Inv
      PROVE  SaveKeepsUntouched
  <2>1. SUFFICES ASSUME NEW i \in 1..Len(posts), posts[i].do = "save", posts[i].from = "edit",
                        posts[i].form.loaded, rec = posts[i].form.base,
                        NEW f \in FieldNames \ posts[i].form.touched
                 PROVE  Saved(posts[i])[f] = rec[f]
    BY <1>1, PageElements DEF SaveKeepsUntouched, Inv, PageInv
  <2> DEFINE p == posts[i]
  <2>2. /\ "name" \notin p.form.touched => p.data.name = rec.name
        /\ "rel" \notin p.form.touched => p.data.rel = rec.rel
    BY <2>1, <1>1 DEF Inv, PageInv, PostsHaveTheirPage, SentRight
  <2>3. CASE f = "name"
    BY <2>1, <2>2, <2>3 DEF Saved
  <2>4. CASE f = "rel"
    BY <2>1, <2>2, <2>4 DEF Saved
  <2>5. QED BY <2>3, <2>4 DEF FieldNames
<1>2. QED BY <1>1, Invariance, PTL

(* RelationFieldInput of EditPage.tsx and RelationFilterControl of         *)
(* ListPage.tsx, search: however fast the operator types, opens and closes,*)
(* the options end as those of what is typed, for any number of searches   *)
(* in flight.                                                              *)
THEOREM OptionsEndCurrent == Spec => []OptionsAreOfTheQuery
<1>1. ASSUME Inv
      PROVE  OptionsAreOfTheQuery
  <2>1. SUFFICES ASSUME picker.open, ~picker.waiting, lookups = <<>>, ~picker.excused
                 PROVE  picker.options = picker.query
    BY DEF OptionsAreOfTheQuery
  <2>2. Len(lookups) = 0
    BY <2>1, EmptySeq
  <2>3. QED BY <2>1, <2>2, <1>1 DEF Inv, FieldInv, OptionsAccounted
<1>2. QED BY <1>1, Invariance, PTL

(* RelationFieldInput, ReadonlyRelationField, RelationFilterControl: every *)
(* value that is shown ends with its label, whoever set it.                *)
THEOREM LabelsEndComplete == Spec => []LabelsAreOfTheValue
<1>1. ASSUME Inv
      PROVE  LabelsAreOfTheValue
  <2>1. SUFFICES ASSUME lookups = <<>>, ~picker.blank
                 PROVE  /\ value \cap Existing \subseteq Labelled(picker)
                        /\ kind = "readonly" => picker.cache \subseteq value
    BY DEF LabelsAreOfTheValue
  <2>2. Len(lookups) = 0
    BY <2>1, EmptySeq
  <2>3. value \cap Existing \subseteq picker.cache
    BY <2>1, <2>2, <1>1 DEF Inv, FieldInv, LabelsAccounted
  <2>4. QED BY <2>3, <1>1 DEF Inv, FieldInv, LabelsAccounted, Labelled
<1>2. QED BY <1>1, Invariance, PTL
=============================================================================
