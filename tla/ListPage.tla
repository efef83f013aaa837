------------------------------ MODULE ListPage ------------------------------
(***************************************************************************)
(* The changelist in the browser (ListPage.tsx), for one operator and one  *)
(* resource with soft delete: search, filters, order, pages, the selection *)
(* and the bulk actions on it.  A load reads the metadata, the rows and    *)
(* the labels of their relations, one after the other, with the query of   *)
(* the render that started it; answers come in any order.                  *)
(***************************************************************************)
EXTENDS Naturals, Sequences, FiniteSets, SequencesExt

CONSTANTS
  Ids,        \* the records, numbers in their default order
  Named,      \* the records that the search text finds
  Archived,   \* the records deleted before
  Filters,    \* the values of the filter that the operator picks
  PageSize,   \* PAGE_SIZE
  MaxLoads,   \* bound of the loads in flight
  MaxActions, \* bound of the bulk actions in flight
  MaxClicks   \* bound of what the operator clicks and types

ASSUME IdsAssumption   ==
  IsFiniteSet(Ids) /\ Ids \subseteq Nat /\ {Named, Archived} \subseteq SUBSET Ids
ASSUME BoundAssumption == {PageSize, MaxLoads, MaxActions, MaxClicks} \subseteq Nat \ {0}

VARIABLES
  state,   \* server: per record, whether it is active or deleted (softly)
  view,    \* the state of the page
  loads,   \* the loads in flight, in the order they started
  pick,    \* the request of Select all in flight
  acts,    \* the bulk actions in flight
  clicks   \* history: how often the operator has clicked or typed

vars == <<state, view, loads, pick, acts, clicks>>

FilterValues == {"", "active", "deleted", "all"}

ASSUME FiltersAssumption == Filters \subseteq FilterValues

Texts == {"", "name"}
Idle == [pc |-> "idle"]

Queries ==
  [ search : Texts, filter : FilterValues, order : {"asc", "desc"}, page : Nat \ {0} ]

Parts == {"items", "total"}

View ==
  [ query    : Queries,                \* search, filters, order, page
    input    : Texts,                  \* searchInput
    screen   : {"loading", "list", "error"},
    rows     : Queries,                \* the query of the rows shown
    items    : Seq(Ids),
    total    : 0..Cardinality(Ids),
    selected : SUBSET Ids,
    all      : BOOLEAN,                \* allMatchingSelected
    left     : BOOLEAN,                \* gone to the page that confirms a delete
    excused  : SUBSET Parts,           \* history: what may be out of date
    foreign  : BOOLEAN,                \* history: so may the selection
    origins  : SUBSET Queries ]        \* history: the queries selected under

Load ==
  [ query : Queries, pc : {"meta", "list", "items", "total"}, items : Seq(Ids),
    total : 0..Cardinality(Ids), excused : BOOLEAN ]

TypeOK ==
  /\ state \in [Ids -> {"active", "deleted"}]
  /\ view \in View
  /\ loads \in Seq(Load)
  /\ pick \in {Idle} \cup [pc : {"sent", "read"}, query : Queries, size : 0..Cardinality(Ids),
                           ids : SUBSET Ids, foreign : BOOLEAN]
  /\ acts \in Seq([ids : SUBSET Ids, query : Queries, status : {"sent", "done", "refused"}])
  /\ clicks \in 0..MaxClicks

-----------------------------------------------------------------------------
(* The server's list.                                                      *)

(* With soft delete, no filter means active.                               *)
Effective(filter) == IF filter = "" THEN "active" ELSE filter

Visible(i, filter) ==
  CASE filter = "active"  -> state[i] = "active"
    [] filter = "deleted" -> state[i] = "deleted"
    [] OTHER              -> TRUE

Matching(q) ==
  {i \in Ids : Visible(i, Effective(q.filter)) /\ (q.search = "" \/ i \in Named)}

Before(order, a, b) == IF order = "asc" THEN a < b ELSE b < a

Sorted(S, order) ==
  CHOOSE s \in [1..Cardinality(S) -> S] :
    \A a, b \in DOMAIN s : a < b => Before(order, s[a], s[b])

Ordered(q) == Sorted(Matching(q), q.order)

Slice(s, first, last) == SubSeq(s, first, IF last < Len(s) THEN last ELSE Len(s))

PageOf(q, size) == Slice(Ordered(q), (q.page - 1) * size + 1, q.page * size)

-----------------------------------------------------------------------------

FirstQuery == [search |-> "", filter |-> "", order |-> "asc", page |-> 1]

LoadOf(q, excused) ==
  [query |-> q, pc |-> "meta", items |-> <<>>, total |-> 0, excused |-> excused]

Init ==
  /\ state = [i \in Ids |-> IF i \in Archived THEN "deleted" ELSE "active"]
  /\ view = [ query |-> FirstQuery, input |-> "", screen |-> "loading", rows |-> FirstQuery,
              items |-> <<>>, total |-> 0, selected |-> {}, all |-> FALSE, left |-> FALSE,
              excused |-> {}, foreign |-> FALSE, origins |-> {} ]
  /\ loads = <<LoadOf(FirstQuery, FALSE)>>
  /\ pick = Idle
  /\ acts = <<>>
  /\ clicks = 0

SamePart(q, r) == [q EXCEPT !.page = 1] = [r EXCEPT !.page = 1]

Unselected(v) ==
  [v EXCEPT !.selected = {}, !.all = FALSE, !.foreign = FALSE, !.origins = {}]

(* A mutant: a new search does not clear the selection.                    *)
KeepSelectionOnSearch(q) ==
  IF SamePart([q EXCEPT !.search = ""], [view.query EXCEPT !.search = ""])
    THEN [view EXCEPT !.query = IF SamePart(q, view.query) THEN q ELSE [q EXCEPT !.page = 1]]
    ELSE [Unselected(view) EXCEPT !.query = [q EXCEPT !.page = 1]]

(* What the effects make of the page when its query becomes q: a search,   *)
(* filter or order that is new goes to page 1 and clears the selection.    *)
Shown(q) ==
  IF SamePart(q, view.query) THEN [view EXCEPT !.query = q]
  ELSE [Unselected(view) EXCEPT !.query = [q EXCEPT !.page = 1]]

(* A mutant: the order of the columns does not start a load.               *)
StartedButForOrder(q) ==
  IF [q EXCEPT !.order = "asc"] = [view.query EXCEPT !.order = "asc"] THEN <<>>
  ELSE <<LoadOf(q, FALSE)>> \o
       (IF SamePart(q, view.query) \/ q.page = 1 THEN <<>> ELSE <<LoadOf([q EXCEPT !.page = 1], FALSE)>>)

(* The loads that the effects start: with the page as it was, and again    *)
(* when that was not the first.                                            *)
Started(q) ==
  IF q = view.query THEN <<>>
  ELSE <<LoadOf(q, FALSE)>> \o
       (IF SamePart(q, view.query) \/ q.page = 1 THEN <<>> ELSE <<LoadOf([q EXCEPT !.page = 1], FALSE)>>)

-----------------------------------------------------------------------------
(* The steps of a load.                                                    *)

Overtaken(i) ==
  [k \in DOMAIN loads |-> IF k < i THEN [loads[k] EXCEPT !.excused = TRUE] ELSE loads[k]]

(* The metadata say that deletes are soft: a filter that is empty becomes  *)
(* active, on the page and, unless the page has a newer one, for this load.*)
MetaArrives(i) ==
  LET load    == loads[i]
      default == load.query.filter = "" /\ view.query.filter = ""
      q       == IF default THEN [view.query EXCEPT !.filter = "active"] ELSE view.query
      filled  == [load.query EXCEPT !.filter = Effective(@)]
  IN  /\ load.pc = "meta"
      /\ view' = [Shown(q) EXCEPT !.screen = IF @ = "loading" THEN "list" ELSE @]
      /\ loads' = [loads EXCEPT ![i].pc = "list", ![i].query = filled] \o Started(q)
      /\ UNCHANGED <<state, pick, acts>>

ListReads(i) ==
  /\ loads[i].pc = "list"
  /\ loads' = [loads EXCEPT ![i].pc = "items", ![i].items = PageOf(loads[i].query, PageSize),
                            ![i].total = Cardinality(Matching(loads[i].query))]
  /\ UNCHANGED <<state, view, pick, acts>>

(* setItems; the labels of relations are looked up next.                   *)
ItemsArrive(i) ==
  /\ loads[i].pc = "items"
  /\ view' = [view EXCEPT !.items = loads[i].items, !.rows = loads[i].query,
                          !.excused = IF loads[i].excused THEN @ \cup {"items"} ELSE @ \ {"items"}]
  /\ loads' = [Overtaken(i) EXCEPT ![i].pc = "total"]
  /\ UNCHANGED <<state, pick, acts>>

(* setRelationLabels and setTotal.                                         *)
TotalArrives(i) ==
  /\ loads[i].pc = "total"
  /\ view' = [view EXCEPT !.total = loads[i].total, !.screen = "list",
                          !.excused = IF loads[i].excused THEN @ \cup {"total"} ELSE @ \ {"total"}]
  /\ loads' = RemoveAt(Overtaken(i), i)
  /\ UNCHANGED <<state, pick, acts>>

(* A load that fails puts an error in place of the page.                   *)
LoadFails(i) ==
  /\ loads[i].pc # "total"
  /\ view' = [view EXCEPT !.screen = "error", !.excused = Parts]
  /\ loads' = RemoveAt(Overtaken(i), i)
  /\ UNCHANGED <<state, pick, acts>>

-----------------------------------------------------------------------------
(* What the operator clicks and types.                                     *)

Clickable == view.screen = "list" /\ ~view.left

(* The rows shown may change by what is under way (history).               *)
Unsettled == view.excused # {} \/ loads # <<>> \/ acts # <<>>

Show(q, input) ==
  /\ Len(loads) < MaxLoads
  /\ view' = [Shown(q) EXCEPT !.input = input]
  /\ loads' = loads \o Started(q)
  /\ UNCHANGED <<state, pick, acts>>

TypeSearch(text) ==
  /\ Clickable
  /\ text # view.input
  /\ view' = [view EXCEPT !.input = text]
  /\ UNCHANGED <<state, loads, pick, acts>>

PickFilter(f)  == Clickable /\ Show([view.query EXCEPT !.filter = f], view.input)
ToggleOrder    == Clickable /\ Show([view.query EXCEPT !.order = IF @ = "asc" THEN "desc" ELSE "asc"], view.input)

NextPage ==
  /\ Clickable
  /\ view.query.page * PageSize < view.total
  /\ Show([view.query EXCEPT !.page = @ + 1], view.input)

PreviousPage ==
  /\ Clickable
  /\ view.query.page > 1
  /\ Show([view.query EXCEPT !.page = @ - 1], view.input)

(* The selection changes by hand; it may be out of date when the rows are. *)
Select(ids) ==
  /\ Clickable
  /\ view' = [view EXCEPT !.selected = ids, !.all = view.all /\ view.selected \subseteq ids,
       !.foreign = @ \/ Unsettled,
       !.origins = IF ids = {} THEN {} ELSE @ \cup {[view.rows EXCEPT !.page = 1]}]
  /\ UNCHANGED <<state, loads, pick, acts>>

ToggleRow == \E i \in ToSet(view.items) :
  Select(IF i \in view.selected THEN view.selected \ {i} ELSE view.selected \cup {i})

(* The box in the header takes this page's rows for the selection, in      *)
(* place of those of other pages.                                          *)
AllVisible == view.items # <<>> /\ ToSet(view.items) \subseteq view.selected

TogglePage ==
  /\ Clickable
  /\ view' = IF AllVisible THEN Unselected(view)
             ELSE [view EXCEPT !.selected = ToSet(view.items), !.all = FALSE,
                    !.foreign = Unsettled,
                    !.origins = {[view.rows EXCEPT !.page = 1]}]
  /\ UNCHANGED <<state, loads, pick, acts>>

ClearSelection ==
  /\ Clickable
  /\ view.selected # {}
  /\ view' = Unselected(view)
  /\ UNCHANGED <<state, loads, pick, acts>>

(* A mutant: one page of rows is asked for, whatever the total.            *)
SelectAllOfPage ==
  /\ Clickable
  /\ AllVisible /\ ~view.all /\ Len(view.items) < view.total
  /\ pick = Idle
  /\ pick' = [pc |-> "sent", query |-> [view.query EXCEPT !.page = 1], size |-> PageSize,
              ids |-> {}, foreign |-> Unsettled]
  /\ UNCHANGED <<state, view, loads, acts>>

(* All of the query's records are asked for, as many as there were when    *)
(* the rows were read.                                                     *)
SelectAllMatching ==
  /\ Clickable
  /\ AllVisible /\ ~view.all /\ Len(view.items) < view.total
  /\ pick = Idle
  /\ pick' = [pc |-> "sent", query |-> [view.query EXCEPT !.page = 1], size |-> view.total,
              ids |-> {}, foreign |-> Unsettled]
  /\ UNCHANGED <<state, view, loads, acts>>

PickReads ==
  /\ pick.pc = "sent"
  /\ pick' = [pick EXCEPT !.pc = "read", !.ids = ToSet(PageOf(pick.query, pick.size))]
  /\ UNCHANGED <<state, view, loads, acts>>

(* The answer becomes the selection, whatever is shown by then.            *)
PickArrives ==
  /\ pick.pc = "read"
  /\ view' = [view EXCEPT !.selected = pick.ids, !.all = TRUE,
                !.foreign = pick.foreign \/ ~SamePart(pick.query, view.query),
                !.origins = {[pick.query EXCEPT !.filter = Effective(@)]}]
  /\ pick' = Idle
  /\ UNCHANGED <<state, loads, acts>>

PickFails ==
  /\ pick # Idle
  /\ pick' = Idle
  /\ UNCHANGED <<state, view, loads, acts>>

(* Go with the action delete_selected.                                     *)
DeleteSelected ==
  /\ Clickable
  /\ view.selected # {}
  /\ view' = [view EXCEPT !.left = TRUE]
  /\ UNCHANGED <<state, loads, pick, acts>>

(* Go with an action of the resource; Go is not disabled meanwhile.        *)
RunBulkAction ==
  /\ Clickable
  /\ view.selected # {}
  /\ Len(acts) < MaxActions
  /\ acts' = Append(acts, [ids |-> view.selected, query |-> view.query, status |-> "sent"])
  /\ UNCHANGED <<state, view, loads, pick>>

-----------------------------------------------------------------------------
(* The server changes, and bulk actions end.                               *)

(* What has been read before is out of date.                               *)
Blame(excuse) ==
  /\ view' = [view EXCEPT !.excused = IF excuse THEN Parts ELSE @, !.foreign = TRUE]
  /\ loads' = [k \in DOMAIN loads |->
                 [loads[k] EXCEPT !.excused = @ \/ (excuse /\ loads[k].pc \in {"items", "total"})]]
  /\ pick' = IF pick = Idle THEN Idle ELSE [pick EXCEPT !.foreign = TRUE]

(* The action that the resource declares: archive the selected records.    *)
ActionApplies(i) ==
  /\ acts[i].status = "sent"
  /\ \/ /\ state' = [r \in Ids |-> IF r \in acts[i].ids /\ state[r] = "active"
                                   THEN "deleted" ELSE state[r]]
        /\ acts' = [acts EXCEPT ![i].status = "done"]
        /\ Blame(FALSE)
     \/ /\ acts' = [acts EXCEPT ![i].status = "refused"]
        /\ UNCHANGED <<state, view, loads, pick>>

(* The list is loaded again with the query captured at the click; the      *)
(* selection stays.                                                        *)
ActionEnds(i) ==
  /\ acts[i].status = "done"
  /\ acts' = RemoveAt(acts, i)
  /\ loads' = Append(loads, LoadOf(acts[i].query, acts[i].query # view.query))
  /\ UNCHANGED <<state, view, pick>>

ActionFails(i) ==
  /\ acts' = RemoveAt(acts, i)
  /\ IF acts[i].status = "done" THEN Blame(TRUE) ELSE UNCHANGED <<view, loads, pick>>
  /\ UNCHANGED state

(* A mutant: the timer is not started again when the text is taken back.   *)
DebounceText ==
  /\ ~view.left
  /\ view.input # view.query.search
  /\ view.input # ""
  /\ view' = Shown([view.query EXCEPT !.search = view.input])
  /\ loads' = loads \o Started([view.query EXCEPT !.search = view.input])
  /\ UNCHANGED <<state, pick, acts, clicks>>

(* 250 ms after the last change of the text.                               *)
Debounce ==
  /\ ~view.left
  /\ view.input # view.query.search
  /\ view' = Shown([view.query EXCEPT !.search = view.input])
  /\ loads' = loads \o Started([view.query EXCEPT !.search = view.input])
  /\ UNCHANGED <<state, pick, acts, clicks>>

-----------------------------------------------------------------------------

Answers ==
  /\ ~view.left
  /\ \/ \E i \in DOMAIN loads :
          MetaArrives(i) \/ ListReads(i) \/ ItemsArrive(i) \/ TotalArrives(i) \/ LoadFails(i)
     \/ PickReads \/ PickArrives \/ PickFails
     \/ \E i \in DOMAIN acts : ActionApplies(i) \/ ActionEnds(i) \/ ActionFails(i)
  /\ UNCHANGED clicks

Click ==
  \/ \E text \in Texts : TypeSearch(text)
  \/ \E f \in Filters : PickFilter(f)
  \/ ToggleOrder \/ NextPage \/ PreviousPage
  \/ ToggleRow \/ TogglePage \/ ClearSelection \/ SelectAllMatching
  \/ DeleteSelected \/ RunBulkAction

Operator == Click /\ clicks < MaxClicks /\ clicks' = clicks + 1

Next == Answers \/ Operator \/ Debounce

(* Requests are answered some time, and the timer fires.                   *)
Spec == Init /\ [][Next]_vars /\ WF_vars(Answers) /\ WF_vars(Debounce)

-----------------------------------------------------------------------------

AtRest == loads = <<>> /\ pick = Idle /\ acts = <<>>

(* When nothing is under way any more, the rows and the total are those of *)
(* the search, filter, order and page that are set; unless a load failed   *)
(* or was overtaken, or an action's answer was lost or its closing load    *)
(* was for a query that has been left.                                     *)
RowsAreCurrent ==
  AtRest /\ view.excused = {} =>
    /\ view.rows = [view.query EXCEPT !.filter = Effective(@)]
    /\ view.items = PageOf(view.query, PageSize)
    /\ view.total = Cardinality(Matching(view.query))

(* The records that a bulk action or a delete would go to were selected    *)
(* under the search, filter and order that are set, on whatever page; the  *)
(* only way out is an answer or a click that crosses with a change.        *)
SelectionIsOfTheQuery ==
  ~view.foreign => view.origins \subseteq {[view.query EXCEPT !.page = 1, !.filter = Effective(@)]}

(* When the banner says that all records are selected, all are that the    *)
(* query matches and the total counts, on pages never shown too; unless    *)
(* the rows were not at rest when they were asked for or changed since.    *)
AllMeansAll ==
  view.all /\ ~view.foreign =>
    /\ view.selected = Matching(view.query)
    /\ loads = <<>> /\ view.excused = {} => Cardinality(view.selected) = view.total

(* The list is searched, in the end, for the text in the search box.       *)
SearchSettles == <>[](view.left \/ view.query.search = view.input)
=============================================================================
