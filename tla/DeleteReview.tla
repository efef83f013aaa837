---------------------------- MODULE DeleteReview ----------------------------
(***************************************************************************)
(* The review before a delete: getDeleteSummary reads the records asked    *)
(* for, what they are linked to, and what links to them, resource by       *)
(* resource and field by field, each with its own queries; the page shows  *)
(* what would be deleted, disconnected or in the way, and offers the       *)
(* button only if nothing is in the way; bulkRemove then deletes record by *)
(* record.  Other users change links and records meanwhile.                *)
(*                                                                         *)
(* The roots are of the resource deleted from; the linkers of another one, *)
(* with a field that holds one root (a foreign key) and a field that holds *)
(* many (a join table, which the roots have as a field of their own).      *)
(***************************************************************************)
EXTENDS Naturals, FiniteSets, FiniteSetsExt

CONSTANTS
  Roots,      \* records of the resource deleted from
  Linkers,    \* records of the resource that links to them
  NoRoot,     \* the empty value of a relation
  PageSize,   \* 100 in collectLinkedRecords
  MaxChanges  \* bound of what others change

ASSUME RootsAssumption == NoRoot \notin Roots /\ Roots \cap Linkers = {}
ASSUME FiniteAssumption == IsFiniteSet(Linkers)
ASSUME BoundAssumption == PageSize \in Nat \ {0} /\ MaxChanges \in Nat

VARIABLES
  store,    \* the adapter, whether roots are deleted softly and have numbers for ids
  state,    \* per root and linker: there, archived or gone
  one,      \* per linker: the root it holds
  many,     \* the join table
  asked,    \* the ids the page was opened for
  stage,    \* how far the summary has got
  todo,     \* the queries of this stage not answered yet
  summary,  \* what was read so far, and then what the page shows
  removal,  \* the delete that was confirmed
  changes,  \* bound: how often others have changed something
  changed   \* history: others have, since the page was opened

reviewVars == <<store, state, one, many, asked, stage, todo, summary, removal, changes, changed>>

data   == <<state, one, many>>
page   == <<asked, stage, todo, summary>>
others == <<changes, changed>>

NoSummary == [own |-> {}, related |-> {}, count |-> 0, blocked |-> {}, disconnect |-> {}]

ReviewTypeOK ==
  /\ store \in [adapter : {"memory", "lenient", "prisma"}, soft : BOOLEAN, numeric : BOOLEAN]
  /\ state \in [Roots \cup Linkers -> {"there", "archived", "gone"}]
  /\ one \in [Linkers -> Roots \cup {NoRoot}]
  /\ many \subseteq Roots \X Linkers
  /\ asked \subseteq Roots
  /\ stage \in {"closed", "roots", "related", "one", "many", "shown", "error", "left"}
  /\ todo \subseteq Roots \cup Linkers
  /\ summary \in [own : SUBSET Linkers, related : SUBSET Linkers, count : Nat,
                  blocked : SUBSET Linkers, disconnect : SUBSET Linkers]
  /\ removal \in [pc : {"none", "delete", "ok", "refused"}, todo : SUBSET Roots]
  /\ changes \in 0..MaxChanges
  /\ changed \in BOOLEAN

NotGone(r) == state[r] # "gone"
Visible(l) == state[l] = "there"

ReviewInit ==
  /\ store \in [adapter : {"memory", "lenient", "prisma"}, soft : BOOLEAN, numeric : BOOLEAN]
  /\ state \in {s \in [Roots \cup Linkers -> {"there", "archived"}] :
                   \A r \in Roots : s[r] = "there"}
  /\ one \in [Linkers -> Roots \cup {NoRoot}]
  /\ many \in SUBSET (Roots \X Linkers)
  /\ asked = {}
  /\ stage = "closed" /\ todo = {}
  /\ summary = NoSummary
  /\ removal = [pc |-> "none", todo |-> {}]
  /\ changes = 0 /\ changed = FALSE

-----------------------------------------------------------------------------
(* The summary.                                                            *)

Open(ids) ==
  /\ stage = "closed"
  /\ asked' = ids
  /\ stage' = "roots" /\ todo' = ids
  /\ changed' = FALSE
  /\ UNCHANGED <<store, data, summary, removal, changes>>

(* The stage ends with its last query.                                     *)
Answered(x, next, nextTodo) ==
  IF todo = {x} THEN stage' = next /\ todo' = nextTodo
                ELSE stage' = stage /\ todo' = todo \ {x}

(* A record that is gone fails the whole review.  A soft delete has no     *)
(* impact to look for.                                                     *)
ReadRoot(r) ==
  /\ stage = "roots" /\ r \in todo
  /\ IF ~NotGone(r)
     THEN stage' = "error" /\ todo' = {} /\ UNCHANGED summary
     ELSE LET own == summary.own \cup {l \in Linkers : <<r, l>> \in many}
          IN /\ summary' = [summary EXCEPT !.own = own]
             /\ IF store.soft THEN Answered(r, "shown", {})
                ELSE IF own = {} THEN Answered(r, "one", asked)
                ELSE Answered(r, "related", own)
  /\ UNCHANGED <<store, data, asked, removal, others>>

(* What the roots hold is looked up by id; the count keeps those not found.*)
ReadRelated(l) ==
  /\ stage = "related" /\ l \in todo
  /\ summary' = [summary EXCEPT
       !.related = IF NotGone(l) THEN @ \cup {l} ELSE @,
       !.count   = Cardinality(summary.own)]
  /\ Answered(l, "one", asked)
  /\ UNCHANGED <<store, data, asked, removal, others>>

(* A page of the list of the linkers by a field: one page, of those that   *)
(* are not archived.                                                       *)
PagesOf(linked) ==
  kSubset(IF Cardinality(linked) < PageSize THEN Cardinality(linked) ELSE PageSize, linked)

(* Prisma rejects a number that is compared with the text of an id; the    *)
(* adapter makes numbers of the ids in a join table only.                  *)
TextForNumber == store.adapter = "prisma" /\ store.numeric

ReadOne(r) ==
  /\ stage = "one" /\ r \in todo /\ ~TextForNumber
  /\ \E items \in PagesOf({l \in Linkers : Visible(l) /\ one[l] = r}) :
       summary' = [summary EXCEPT !.blocked = @ \cup items]
  /\ Answered(r, "many", asked)
  /\ UNCHANGED <<store, data, asked, removal, others>>

(* A mutant: the answer for one root replaces that for another.            *)
ReadManyReplacing(r) ==
  /\ stage = "many" /\ r \in todo
  /\ \E items \in PagesOf({l \in Linkers : Visible(l) /\ <<r, l>> \in many}) :
       summary' = [summary EXCEPT !.disconnect = items]
  /\ Answered(r, "shown", {})
  /\ UNCHANGED <<store, data, asked, removal, others>>

ReadMany(r) ==
  /\ stage = "many" /\ r \in todo
  /\ \E items \in PagesOf({l \in Linkers : Visible(l) /\ <<r, l>> \in many}) :
       summary' = [summary EXCEPT !.disconnect = @ \cup items]
  /\ Answered(r, "shown", {})
  /\ UNCHANGED <<store, data, asked, removal, others>>

(* A query that rejects fails the whole review.                            *)
QueryFails ==
  /\ stage \in {"roots", "related", "one", "many"}
  /\ stage' = "error" /\ todo' = {}
  /\ UNCHANGED <<store, data, asked, summary, removal, others>>

-----------------------------------------------------------------------------
(* The delete.                                                             *)

(* A mutant: the button is there whatever is in the way.                   *)
ConfirmAnyway ==
  /\ stage = "shown"
  /\ removal.pc = "none"
  /\ removal' = [pc |-> "delete", todo |-> asked]
  /\ UNCHANGED <<store, data, page, others>>

(* The button is there once; an error replaces the page.                   *)
Confirm ==
  /\ stage = "shown" /\ summary.blocked = {}
  /\ removal.pc = "none"
  /\ removal' = [pc |-> "delete", todo |-> asked]
  /\ UNCHANGED <<store, data, page, others>>

(* A database keeps a root that a linker holds, archived or not, and drops *)
(* the rows of the join table with either end; in memory all stays.        *)
Held(r) == store.adapter # "memory" /\ \E l \in Linkers : NotGone(l) /\ one[l] = r

Remove(x) ==
  /\ state' = [state EXCEPT ![x] = "gone"]
  /\ many' = IF store.adapter = "memory" THEN many ELSE {link \in many : x \notin {link[1], link[2]}}
  /\ UNCHANGED one

Archive(x) == state' = [state EXCEPT ![x] = "archived"] /\ UNCHANGED <<one, many>>

Refused(r) ==
  \/ ~NotGone(r) /\ store.adapter = "prisma"
  \/ NotGone(r) /\ ~store.soft /\ Held(r)

(* The deletes run side by side; a refused one fails the request, and the  *)
(* others go on.                                                           *)
DeleteRoot(r) ==
  /\ removal.pc \in {"delete", "refused"} /\ r \in removal.todo
  /\ removal' = [pc |-> IF Refused(r) THEN "refused" ELSE removal.pc, todo |-> removal.todo \ {r}]
  /\ IF Refused(r) \/ ~NotGone(r) THEN UNCHANGED data
     ELSE IF store.soft THEN Archive(r) ELSE Remove(r)
  /\ UNCHANGED <<store, page, others>>

(* The page goes to the list, or shows the error for good.                 *)
Answer ==
  /\ stage = "shown"
  /\ \/ /\ removal.pc = "delete" /\ removal.todo = {}
        /\ removal' = [removal EXCEPT !.pc = "ok"]
        /\ stage' = "left"
     \/ /\ removal.pc = "refused"
        /\ stage' = "error" /\ UNCHANGED removal
  /\ UNCHANGED <<store, data, asked, todo, summary, others>>

-----------------------------------------------------------------------------
(* Other users.                                                            *)

Change ==
  /\ stage \notin {"closed", "left", "error"}
  /\ changes < MaxChanges
  /\ changes' = changes + 1 /\ changed' = TRUE
  /\ UNCHANGED <<store, page, removal>>

Relink(l, r) ==
  /\ Change
  /\ NotGone(l) /\ r \in {NoRoot} \cup {x \in Roots : state[x] = "there"}
  /\ one' = [one EXCEPT ![l] = r]
  /\ UNCHANGED <<state, many>>

Join(r, l) ==
  /\ Change
  /\ NotGone(l) /\ state[r] = "there"
  /\ many' = IF <<r, l>> \in many THEN many \ {<<r, l>>} ELSE many \cup {<<r, l>>}
  /\ UNCHANGED <<state, one>>

ArchiveLinker(l) == Change /\ Visible(l) /\ Archive(l)

RemoveOther(x) ==
  /\ Change
  /\ NotGone(x)
  /\ x \in Roots => ~store.soft /\ ~Held(x)
  /\ Remove(x)

ReviewNext ==
  \/ \E ids \in SUBSET Roots \ {{}} : Open(ids)
  \/ \E r \in Roots : ReadRoot(r) \/ ReadOne(r) \/ ReadMany(r)
  \/ \E l \in Linkers : ReadRelated(l)
  \/ QueryFails
  \/ Confirm
  \/ \E r \in Roots : DeleteRoot(r)
  \/ Answer
  \/ \E l \in Linkers, r \in Roots \cup {NoRoot} : Relink(l, r)
  \/ \E l \in Linkers, r \in Roots : Join(r, l)
  \/ \E l \in Linkers : ArchiveLinker(l)
  \/ \E x \in Roots \cup Linkers : RemoveOther(x)

ReviewSpec == ReviewInit /\ [][ReviewNext]_reviewVars

-----------------------------------------------------------------------------
(* Properties.                                                             *)

(* A list taken page by page shows some of what there is, and something    *)
(* for every root that has something.                                      *)
Covers(shown, Linked(_)) ==
  /\ shown \subseteq UNION {Linked(r) : r \in asked}
  /\ \A r \in asked :
       Cardinality(shown \cap Linked(r)) >= Min({PageSize, Cardinality(Linked(r))})

Linkers1(r) == {l \in Linkers : Visible(l) /\ one[l] = r}
LinkersM(r) == {l \in Linkers : Visible(l) /\ <<r, l>> \in many}

(* If nobody has changed anything while it was read, the review shows what *)
(* is there: the visible records in the way, those that would be           *)
(* disconnected, up to a page for each record deleted, and the links the   *)
(* records hold; a soft delete has no impact.                              *)
QuietReviewIsExact ==
  stage = "shown" /\ removal.pc = "none" /\ ~changed =>
    IF store.soft
    THEN summary.blocked \cup summary.disconnect \cup summary.related = {}
    ELSE /\ Covers(summary.blocked, Linkers1)
         /\ Covers(summary.disconnect, LinkersM)
         /\ summary.related = {l \in Linkers : \E r \in asked : <<r, l>> \in many}
         /\ summary.count = Cardinality(summary.related)

(* A delete that the review let through is refused only because of what    *)
(* others did since the page was opened, or of an archived record, which   *)
(* the review does not list though the database counts it.                 *)
RefusalsAreExplained ==
  removal.pc = "refused" =>
    \/ changed
    \/ \E l \in Linkers : state[l] = "archived" /\ one[l] \in asked
=============================================================================
