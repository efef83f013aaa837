----------------------------- MODULE QueuePages -----------------------------
(***************************************************************************)
(* The pages of the queue extension in the browser (BullMqQueuePage.tsx):  *)
(* the overview, a queue, and a job of it, for one operator, one queue and *)
(* one job.  Each page keeps its state in hooks.  A load captures the tab, *)
(* page and filter of the render that started it, and so does the load     *)
(* that an action ends with; answers come in any order.                    *)
(*                                                                         *)
(* The job is the first of its tab; other jobs show as a number of pages.  *)
(***************************************************************************)
EXTENDS Naturals, Sequences, FiniteSets, SequencesExt

CONSTANTS
  Tabs,       \* the tabs that the operator visits
  Filters,    \* the filters that are applied
  NoFilter,   \* the empty one
  CanManage,  \* user.isSuperuser or the permission queues.write
  LastPage,   \* bound of the pages of a tab
  MaxLoads,   \* bound of the loads in flight
  MaxActions, \* bound of the actions in flight
  MaxClicks   \* bound of what the operator clicks

ASSUME FilterAssumption == NoFilter \in Filters
ASSUME BoundAssumption  == {LastPage, MaxLoads, MaxActions, MaxClicks} \subseteq Nat \ {0}

VARIABLES
  job,     \* server: the state of the job
  mode,    \* server: whether the queue is paused
  where,   \* the page that is mounted
  view,    \* the state of the page
  loads,   \* the loads of the page in flight, in the order they started
  acts,    \* the actions in flight, those of pages left included
  clicks   \* history: how often the operator has clicked

pageVars == <<job, mode, where, view, loads, acts, clicks>>

JobState == {"waiting", "active", "delayed", "failed", "completed"}

ASSUME TabsAssumption == Tabs \subseteq JobState

Pages == {"overview", "queue", "job", "away"}
Modes == {"running", "paused"}
NoDialog == "none"

Queries == [tab : JobState, page : 1..LastPage, filter : Filters]

Dialogs == {"retry-failed", "clean", "empty", "retry", "promote", "remove"}

View ==
  [ query    : Queries,                       \* filter, pageNumber, activeFilters
    input    : Filters,                       \* filterInputs
    rows     : Queries,                       \* the query of the jobs shown
    job      : JobState \cup {"none"},   \* the job, as it is shown
    pages    : 1..LastPage,                   \* totalPages
    mode     : Modes,
    dialog   : Dialogs \cup {NoDialog},
    confirming : BOOLEAN,
    excused  : BOOLEAN ]       \* history: it may be out of date, for a reason known

Load ==
  [ query    : Queries,
    read     : BOOLEAN,
    job      : JobState \cup {"none"},
    mode     : Modes,
    closes   : BOOLEAN,        \* a dialog waits for it: the load its action ends with
    excused  : BOOLEAN ]

Action ==
  [ name    : Dialogs \cup {"pause", "resume"},
    query   : Queries,                        \* captured when it was offered
    mounted : BOOLEAN,                        \* its page is still there
    status  : {"sent", "done", "refused"} ]

PageTypeOK ==
  /\ job \in JobState \cup {"none"}
  /\ mode \in Modes
  /\ where \in Pages
  /\ view \in View
  /\ loads \in Seq(Load)
  /\ acts \in Seq(Action)
  /\ clicks \in 0..MaxClicks

-----------------------------------------------------------------------------

FirstQuery == [tab |-> "completed", page |-> 1, filter |-> NoFilter]

NewView ==
  [ query |-> FirstQuery, input |-> NoFilter, rows |-> FirstQuery, job |-> "none",
    pages |-> 1, mode |-> "running", dialog |-> NoDialog,
    confirming |-> FALSE, excused |-> FALSE ]

LoadOf(query, excused) ==
  [query |-> query, read |-> FALSE, job |-> "none", mode |-> "running", closes |-> FALSE,
   excused |-> excused]

(* Mounting a page starts one load; the state of the page left is dropped, *)
(* and the actions it started run on.                                      *)
Mount(page) ==
  /\ where' = page
  /\ view' = NewView
  /\ loads' = IF page = "away" THEN <<>> ELSE <<LoadOf(FirstQuery, FALSE)>>

PageInit ==
  /\ job \in {"delayed", "failed"}
  /\ mode = "running"
  /\ where \in Pages \ {"away"}
  /\ view = NewView
  /\ loads = <<LoadOf(FirstQuery, FALSE)>>
  /\ acts = <<>>
  /\ clicks = 0

Leave == acts' = [i \in DOMAIN acts |-> [acts[i] EXCEPT !.mounted = FALSE]]

Navigate(page) ==
  /\ page # where
  /\ view.dialog = NoDialog \/ page = "away"   \* the back button works
  /\ Mount(page)
  /\ Leave
  /\ UNCHANGED <<job, mode>>

-----------------------------------------------------------------------------
(* Loads.                                                                  *)

(* What a listing or the job's page shows of the job.                      *)
Seen(page, query) ==
  IF page = "job" \/ (page = "queue" /\ job = query.tab /\ query.page = 1) THEN job ELSE "none"

SetLoad(i, load) == loads' = [loads EXCEPT ![i] = load]

(* The two requests of a load are answered at the server.                  *)
ReadServer(i) ==
  /\ ~loads[i].read
  /\ SetLoad(i, [loads[i] EXCEPT !.read = TRUE, !.mode = IF where = "job" THEN @ ELSE mode,
                                  !.job = Seen(where, loads[i].query)])
  /\ UNCHANGED <<job, mode, where, view, acts>>

(* The loads that started before one that has answered.                    *)
Overtaken(i) ==
  RemoveAt([k \in DOMAIN loads |->
    IF k < i THEN [loads[k] EXCEPT !.excused = TRUE] ELSE loads[k]], i)

(* handleConfirm goes on when the action has ended, its load included: the *)
(* dialog stays until then.                                                *)
Released(v, ends) ==
  IF ends THEN [v EXCEPT !.dialog = NoDialog, !.confirming = FALSE] ELSE v

(* setQueue, setJobs, setTotal; a queue that is new to the page resets     *)
(* what has been typed into the filters.                                   *)
LoadAnswers(i) ==
  /\ loads[i].read
  /\ \E pages \in 1..LastPage :
       view' = [Released(view, loads[i].closes) EXCEPT
         !.rows = loads[i].query, !.job = loads[i].job, !.mode = loads[i].mode,
         !.pages = IF where = "queue" THEN pages ELSE 1, !.input = view.query.filter,
         !.excused = loads[i].excused]
  /\ loads' = Overtaken(i)
  /\ UNCHANGED <<job, mode, where, acts>>

(* A mutant: a load that fails does not release the dialog.                *)
FailureHangs(i) ==
  /\ view' = [view EXCEPT !.excused = TRUE]
  /\ loads' = Overtaken(i)
  /\ UNCHANGED <<job, mode, where, acts>>

(* One of the two requests fails: the rows stay as they were, under an     *)
(* error message.                                                          *)
LoadFails(i) ==
  /\ view' = [Released(view, loads[i].closes) EXCEPT !.excused = TRUE]
  /\ loads' = Overtaken(i)
  /\ UNCHANGED <<job, mode, where, acts>>

-----------------------------------------------------------------------------
(* What the operator clicks.  A dialog covers the page.                    *)

Clickable == view.dialog = NoDialog

OnQueuePage == where = "queue" /\ Clickable

(* A mutant: the page number does not start a load.                        *)
EffectsButPage(query) ==
  loads' = IF [query EXCEPT !.page = view.query.page] = view.query THEN loads
           ELSE Append(loads, LoadOf(query, FALSE))

(* The effects of a render: a query that differs from the one before is    *)
(* loaded, and a tab or filter that differs takes the page back to 1 in    *)
(* another render, which loads again if that is a change.                  *)
Effects(query) ==
  loads' = IF query = view.query THEN loads
           ELSE LET moved == query.tab # view.query.tab \/ query.filter # view.query.filter
                    again == [query EXCEPT !.page = 1]
                IN  loads \o <<LoadOf(query, FALSE)>>
                      \o (IF moved /\ query.page # 1 THEN <<LoadOf(again, FALSE)>> ELSE <<>>)

Settled(query) ==
  IF query.tab # view.query.tab \/ query.filter # view.query.filter
    THEN [query EXCEPT !.page = 1] ELSE query

Show(query, input) ==
  /\ Len(loads) < MaxLoads
  /\ view' = [view EXCEPT !.query = Settled(query), !.input = input]
  /\ Effects(query)
  /\ UNCHANGED <<job, mode, where, acts>>

PickTab(tab) == OnQueuePage /\ Show([view.query EXCEPT !.tab = tab], view.input)

NextPage ==
  /\ OnQueuePage
  /\ view.query.page < view.pages
  /\ Show([view.query EXCEPT !.page = @ + 1], view.input)

PreviousPage ==
  /\ OnQueuePage
  /\ view.query.page > 1
  /\ Show([view.query EXCEPT !.page = @ - 1], view.input)

TypeFilter(f) ==
  /\ OnQueuePage
  /\ f # view.input
  /\ view' = [view EXCEPT !.input = f]
  /\ UNCHANGED <<job, mode, where, loads, acts>>

(* Apply and Clear set the page to 1 in the same render.                   *)
ApplyFilters ==
  OnQueuePage /\ Show([view.query EXCEPT !.filter = view.input, !.page = 1], view.input)

ClearFilters ==
  OnQueuePage /\ Show([view.query EXCEPT !.filter = NoFilter, !.page = 1], NoFilter)

Send(name) ==
  acts' = Append(acts, [name |-> name, query |-> view.query, mounted |-> TRUE, status |-> "sent"])

TogglePause ==
  /\ CanManage
  /\ OnQueuePage
  /\ Len(acts) < MaxActions
  /\ Send(IF view.mode = "paused" THEN "resume" ELSE "pause")
  /\ UNCHANGED <<job, mode, where, view, loads>>

(* The actions that a page offers for what it shows.                       *)
Offered ==
  CASE where = "queue" -> {"retry-failed", "clean", "empty"}
                            \cup (IF view.job = "failed" THEN {"retry"} ELSE {})
    [] where = "job"   -> {a \in {"retry", "promote", "remove"} :
                            /\ a = "retry" => view.job = "failed"
                            /\ a = "promote" => view.job = "delayed"
                            /\ a = "remove" => view.job # "active"}
    [] OTHER -> {}

ConfirmAction(name) ==
  /\ CanManage
  /\ Clickable
  /\ name \in Offered
  /\ view' = [view EXCEPT !.dialog = name]
  /\ UNCHANGED <<job, mode, where, loads, acts>>

Cancel ==
  /\ view.dialog # NoDialog
  /\ ~view.confirming
  /\ view' = [view EXCEPT !.dialog = NoDialog]
  /\ UNCHANGED <<job, mode, where, loads, acts>>

HandleConfirm ==
  /\ view.dialog # NoDialog
  /\ ~view.confirming
  /\ Len(acts) < MaxActions
  /\ view' = [view EXCEPT !.confirming = TRUE]
  /\ Send(view.dialog)
  /\ UNCHANGED <<job, mode, where, loads>>

-----------------------------------------------------------------------------
(* The server, and the answers to actions.                                 *)

(* What the action makes of the job, if the job is in a state for it.      *)
Succeeds(a) ==
  CASE a.name = "retry"   -> job = "failed"
    [] a.name = "promote" -> job = "delayed"
    [] a.name = "remove"  -> job \notin {"active", "none"}
    [] OTHER -> TRUE

JobAfter(a) ==
  CASE a.name \in {"retry", "promote"} -> "waiting"
    [] a.name = "retry-failed" -> IF job = "failed" THEN "waiting" ELSE job
    [] a.name = "clean" -> IF job = a.query.tab /\ job # "active" THEN "none" ELSE job
    [] a.name \in {"empty", "remove"} -> "none"
    [] OTHER -> job

ModeAfter(a) ==
  CASE a.name = "pause" -> "paused"
    [] a.name \in {"resume", "empty"} -> "running"
    [] OTHER -> mode

Blame ==
  /\ view' = [view EXCEPT !.excused = TRUE]
  /\ loads' = [k \in DOMAIN loads |->
       [loads[k] EXCEPT !.excused = @ \/ loads[k].read]]

ActionApplies(i) ==
  /\ acts[i].status = "sent"
  /\ IF Succeeds(acts[i])
       THEN /\ job' = JobAfter(acts[i])
            /\ mode' = ModeAfter(acts[i])
            /\ acts' = [acts EXCEPT ![i].status = "done"]
       ELSE UNCHANGED <<job, mode>> /\ acts' = [acts EXCEPT ![i].status = "refused"]
  /\ IF acts[i].mounted THEN UNCHANGED <<view, loads>> ELSE Blame
  /\ UNCHANGED where

(* The action has succeeded, and its page is still there: it is loaded     *)
(* again, with the query captured when the action was offered, and the     *)
(* dialog waits for that load.                                             *)
ActionEnds(i) ==
  /\ acts[i].status = "done"
  /\ acts[i].mounted
  /\ ~(where = "job" /\ acts[i].name = "remove")
  /\ loads' = Append(loads,
       [LoadOf(acts[i].query, acts[i].query # view.query) EXCEPT
          !.closes = acts[i].name \in Dialogs])
  /\ acts' = RemoveAt(acts, i)
  /\ UNCHANGED <<job, mode, where, view>>

(* The hash is set when a removal has succeeded, wherever the operator has *)
(* gone since; it is the queue's page that comes up.                       *)
RemovalEnds(i) ==
  /\ acts[i].status = "done"
  /\ acts[i].name = "remove"
  /\ IF where = "queue" THEN UNCHANGED <<where, view, loads>> ELSE Mount("queue")
  /\ acts' = [k \in DOMAIN RemoveAt(acts, i) |->
       IF where = "queue" THEN RemoveAt(acts, i)[k]
       ELSE [RemoveAt(acts, i)[k] EXCEPT !.mounted = FALSE]]
  /\ UNCHANGED <<job, mode>>

(* The page has gone: its load shows nowhere.                              *)
LateEnd(i) ==
  /\ acts[i].status # "sent"
  /\ ~acts[i].mounted
  /\ acts[i].name # "remove" \/ acts[i].status = "refused"
  /\ acts' = RemoveAt(acts, i)
  /\ UNCHANGED <<job, mode, where, view, loads>>

(* The request is refused, or fails, or its answer is lost: a toast, and   *)
(* no load.                                                                *)
ActionFails(i) ==
  /\ acts[i].mounted
  /\ acts' = RemoveAt(acts, i)
  /\ view' = [Released(view, acts[i].name \in Dialogs) EXCEPT
                 !.excused = @ \/ acts[i].status = "done"]
  /\ loads' = [k \in DOMAIN loads |->
                  [loads[k] EXCEPT !.excused = @ \/ acts[i].status = "done"]]
  /\ UNCHANGED <<job, mode, where>>

(* Workers move the job.                                                   *)
Others ==
  /\ \/ job = "waiting" /\ mode = "running" /\ job' = "active"
     \/ job = "active" /\ job' \in {"completed", "failed"}
     \/ job = "delayed" /\ job' = "waiting"
  /\ UNCHANGED mode
  /\ Blame
  /\ UNCHANGED <<where, acts>>

-----------------------------------------------------------------------------

Server ==
  \/ \E i \in DOMAIN loads : ReadServer(i) \/ LoadAnswers(i) \/ LoadFails(i)
  \/ \E i \in DOMAIN acts :
       ActionApplies(i) \/ ActionEnds(i) \/ RemovalEnds(i) \/ LateEnd(i) \/ ActionFails(i)

Click ==
  \/ \E page \in Pages : Navigate(page)
  \/ \E tab \in Tabs : PickTab(tab)
  \/ NextPage \/ PreviousPage \/ ApplyFilters \/ ClearFilters \/ TogglePause
  \/ \E f \in Filters : TypeFilter(f)
  \/ \E name \in Dialogs : ConfirmAction(name)
  \/ Cancel \/ HandleConfirm

Operator == Click /\ clicks < MaxClicks /\ clicks' = clicks + 1

Answers == Server /\ UNCHANGED clicks

PageNext == Answers \/ Operator \/ (Others /\ UNCHANGED clicks)

PageSpec == PageInit /\ [][PageNext]_pageVars

(* Requests are answered some time.                                        *)
FairPageSpec == PageSpec /\ WF_pageVars(Answers)

-----------------------------------------------------------------------------

AtRest == loads = <<>> /\ ~\E i \in DOMAIN acts : acts[i].mounted

(* Whatever the operator clicks, when nothing is under way any more the    *)
(* page shows the tab, page and filter that are selected, the job as it is *)
(* and whether the queue is paused; unless a load failed, or an answer was *)
(* lost or overtaken by one that was asked for later, or an action ended   *)
(* with the load of a tab the operator had left, or somebody else acted.   *)
ShownIsCurrent ==
  AtRest /\ where # "away" /\ ~view.excused =>
    /\ where = "queue" => view.rows = view.query
    /\ view.job = Seen(where, view.query)
    /\ where # "job" => view.mode = mode

(* A confirmation does not hang: the dialog that waits for its action, and *)
(* then for the load the action ends with, is released, whether the one    *)
(* and the other succeed or fail.                                          *)
ConfirmationEnds == view.confirming ~> ~view.confirming
=============================================================================
