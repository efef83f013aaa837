--------------------------- MODULE QueueExtension ---------------------------
(***************************************************************************)
(* The endpoints of bullmqQueueExtension over BullMqQueueAdapter, for one  *)
(* queue.  Every call to BullMQ is awaited, so jobs move, and other        *)
(* operators act, between any two of them.                                 *)
(*                                                                         *)
(* A listing shows jobs, and it is jobs that the model tells apart: the    *)
(* payload of a job matters as far as it has the value that is filtered by.*)
(***************************************************************************)
EXTENDS JobQueue

CONSTANTS
  Matching,   \* the jobs whose payload has the value of the filter
  Readers,    \* slots for GET requests in flight
  Operators,  \* slots for POST requests in flight
  PageSize,   \* pageSize of a listing
  PanelLimit, \* limit of a related-jobs panel
  Limit,      \* limit of clean, count of retry-failed
  MaxPage,    \* bound of the page asked for
  MaxInFlight \* bound of the requests in flight at a time

ASSUME MatchingAssumption == Matching \subseteq Jobs
ASSUME SizesAssumption    == {PageSize, PanelLimit, Limit} \subseteq Nat \ {0}
ASSUME BoundsAssumption   == MaxPage \in Nat \ {0} /\ MaxInFlight \in Nat
ASSUME SlotsAssumption    == Readers \cap Operators = {}

VARIABLES
  added,  \* the ids that add has drawn
  read,   \* per reader, the GET request in flight
  op,     \* per operator, the POST request in flight
  moved,  \* history: per slot, the jobs of its request that have moved since it started
  pushed  \* history: per reader, the jobs put back by another since they were counted

notes == <<moved, pushed>>
vars  == <<queue, paused, added, read, op, notes>>

Slots == Readers \cup Operators

(* The states a related-jobs listing goes through, in the order of the     *)
(* code.                                                                   *)
RelatedOrder == <<"completed", "failed", "waiting", "delayed", "active">>

Idle == [pc |-> "idle"]

Read ==
  [ pc       : {"counts", "jobs", "answer"},
    related  : BOOLEAN,              \* a related-jobs panel; else one state
    filtered : BOOLEAN,              \* a payload filter is given
    state    : QueueJobState,        \* the state that is listed (now)
    page     : 1..MaxPage,
    count    : 0..Cardinality(Jobs), \* counts[filter], read before the jobs
    items    : Seq(Jobs),
    total    : 0..Cardinality(Jobs),
    hidden   : BOOLEAN ]             \* history: paused when waiting was counted

Op ==
  [ pc       : {"find", "apply", "select", "retry", "answer"},
    action   : {"pause", "resume", "empty", "clean", "retry-failed",
                "retry", "remove", "promote"},
    todo     : Seq(Jobs),            \* the jobs left to act on
    count    : 0..Cardinality(Jobs),
    status   : {"ok", "unknown", "rejected", "down"},
    done     : SUBSET Jobs,          \* history: the jobs it has acted on
    possible : BOOLEAN ]             \* history: when it started, the job accepted this

TypeOK ==
  /\ QueueTypeOK
  /\ added \subseteq Jobs
  /\ read \in [Readers -> Read \cup {Idle}]
  /\ op \in [Operators -> Op \cup {Idle}]
  /\ moved \in [Slots -> SUBSET Jobs]
  /\ pushed \in [Readers -> SUBSET Jobs]

InFlight ==
  Cardinality({r \in Readers : read[r] # Idle}) + Cardinality({o \in Operators : op[o] # Idle})

Reply(r, next) == read' = [read EXCEPT ![r] = next]
Step(o, next)  == op' = [op EXCEPT ![o] = next]

(* The jobs whose moves matter to the request in a slot.                   *)
Watched(s) ==
  IF s \in Readers
    THEN IF read[s] # Idle /\ read[s].filtered THEN Matching ELSE {}
    ELSE IF op[s] # Idle THEN ToSet(op[s].todo) ELSE {}

Note(js) == moved' = [s \in Slots |-> moved[s] \cup (js \cap Watched(s))]

(* Jobs of a state that another came before, after they were counted.      *)
NotePushed(js, state) ==
  pushed' = [r \in Readers |-> pushed[r] \cup
    {j \in js \cap Watched(r) : read[r].pc = "jobs" /\ read[r].state = state}]

Forgotten(s) ==
  /\ moved' = [moved EXCEPT ![s] = {}]
  /\ pushed' = [r \in Readers |-> IF r = s THEN {} ELSE pushed[r]]

(* Some jobs are there already, in some state, when the server starts.     *)
Init ==
  /\ added \in SUBSET Jobs
  /\ \E place \in [added -> QueueJobState] :
       queue = [s \in QueueJobState |-> SetToSeq({j \in added : place[j] = s})]
  /\ paused \in BOOLEAN
  /\ read = [r \in Readers |-> Idle]
  /\ op = [o \in Operators |-> Idle]
  /\ moved = [s \in Slots |-> {}]
  /\ pushed = [r \in Readers |-> {}]

-----------------------------------------------------------------------------
(* Reading: the pages of a state, and the jobs related to a record.        *)

Request(related, filtered, state, page) ==
  [pc |-> "counts", related |-> related, filtered |-> filtered, state |-> state,
   page |-> page, count |-> 0, items |-> <<>>, total |-> 0, hidden |-> FALSE]

ListJobs(r) ==
  /\ read[r] = Idle
  /\ InFlight < MaxInFlight
  /\ \E filtered \in BOOLEAN, state \in QueueJobState, page \in 1..MaxPage :
       Reply(r, Request(FALSE, filtered, state, page))
  /\ UNCHANGED <<queue, paused, added, op, notes>>

ListRelatedJobs(r) ==
  /\ read[r] = Idle
  /\ InFlight < MaxInFlight
  /\ Reply(r, Request(TRUE, TRUE, RelatedOrder[1], 1))
  /\ UNCHANGED <<queue, paused, added, op, notes>>

ReadCounts(r) ==
  /\ read[r].pc = "counts"
  /\ Reply(r, [read[r] EXCEPT !.pc = "jobs", !.count = Len(Reached(read[r].state)),
                              !.hidden = @ \/ (read[r].state = "waiting" /\ paused)])
  /\ UNCHANGED <<queue, paused, added, op, notes>>

(* Positions first to last of s, as far as there are any.                  *)
Slice(s, first, last) == SubSeq(s, first, IF last < Len(s) THEN last ELSE Len(s))

(* A mutant: newest jobs first.                                            *)
GetJobsNewestFirst(state, start, end) ==
  Slice(Reverse(queue[state]), start + 1, end + 1)

(* getJobs of positions start to end, counted from 0.                      *)
GetJobs(state, start, end) == Slice(queue[state], start + 1, end + 1)

(* A mutant: the filter is not applied.                                    *)
AllJobs(q) == IF q.count = 0 THEN <<>> ELSE GetJobs(q.state, 0, q.count - 1)

(* The jobs of the state that match, as far as the count read before goes. *)
MatchingJobs(q) ==
  IF q.count = 0 THEN <<>>
  ELSE Kept(GetJobs(q.state, 0, q.count - 1), Matching)

PageOf(s, page, size) == Slice(s, (page - 1) * size + 1, page * size)

ReadPage(r) ==
  LET q     == read[r]
      start == (q.page - 1) * PageSize
  IN  /\ q.pc = "jobs"
      /\ ~q.related
      /\ Reply(r, [q EXCEPT !.pc = "answer",
           !.items = IF q.filtered THEN PageOf(MatchingJobs(q), q.page, PageSize)
                     ELSE GetJobs(q.state, start, start + PageSize - 1),
           !.total = IF q.filtered THEN Len(MatchingJobs(q)) ELSE q.count])
      /\ UNCHANGED <<queue, paused, added, op, notes>>

Index(state) == CHOOSE i \in DOMAIN RelatedOrder : RelatedOrder[i] = state

Room(items) == PanelLimit - Len(items)

(* One more state of a related-jobs listing.                               *)
ReadRelated(r) ==
  LET q     == read[r]
      found == PageOf(MatchingJobs(q), 1, PanelLimit)
      items == q.items \o Slice(found, 1, Room(q.items))
      next  == Index(q.state) + 1
  IN  /\ q.pc = "jobs"
      /\ q.related
      /\ Reply(r, IF Len(items) >= PanelLimit \/ next > Len(RelatedOrder)
                  THEN [q EXCEPT !.pc = "answer", !.items = items]
                  ELSE [q EXCEPT !.pc = "counts", !.items = items,
                                 !.state = RelatedOrder[next]])
      /\ UNCHANGED <<queue, paused, added, op, notes>>

-----------------------------------------------------------------------------
(* The actions of an operator.                                             *)

NewOp(action, pc, todo, possible) ==
  [pc |-> pc, action |-> action, todo |-> todo, count |-> 0, status |-> "ok",
   done |-> {}, possible |-> possible]

StartQueueAction(o) ==
  /\ op[o] = Idle
  /\ InFlight < MaxInFlight
  /\ \/ \E action \in {"pause", "resume", "empty", "clean"} :
          Step(o, NewOp(action, "apply", <<>>, TRUE))
     \/ Step(o, NewOp("retry-failed", "select", <<>>, TRUE))
  /\ UNCHANGED <<queue, paused, added, read, notes>>

(* The page may be old, or of a job that is gone: the action can be one    *)
(* that is not possible.                                                   *)
StartJobAction(o) ==
  /\ op[o] = Idle
  /\ InFlight < MaxInFlight
  /\ \E action \in {"retry", "remove", "promote"}, j \in Jobs :
       Step(o, NewOp(action, "find", <<j>>, Accepts(action, j)))
  /\ UNCHANGED <<queue, paused, added, read, notes>>

ApplyToQueue(o) ==
  /\ op[o].pc = "apply"
  /\ \/ /\ op[o].action \in {"pause", "resume"}
        /\ paused' = (op[o].action = "pause")
        /\ Step(o, [op[o] EXCEPT !.pc = "answer"])
        /\ UNCHANGED <<queue, notes>>
     \/ /\ op[o].action = "empty"          \* obliterate with force
        /\ queue' = Removed(Jobs)
        /\ paused' = FALSE
        /\ Step(o, [op[o] EXCEPT !.pc = "answer"])
        /\ Note({j \in Jobs : Exists(j)}) /\ UNCHANGED pushed
     \/ /\ op[o].action = "clean"          \* clean leaves active jobs alone
        /\ \E state \in QueueJobState \ {"active"} :
             LET cleaned == Slice(Reached(state), 1, Limit)
             IN  /\ queue' = Removed(ToSet(cleaned))
                 /\ Step(o, [op[o] EXCEPT !.pc = "answer", !.count = Len(cleaned),
                                          !.done = ToSet(cleaned)])
                 /\ Note(ToSet(cleaned))
        /\ UNCHANGED <<paused, pushed>>
  /\ UNCHANGED <<added, read>>

(* A mutant: delayed jobs are selected as well.                            *)
SelectFailedOrDelayed(o) ==
  LET jobs == Slice(queue["failed"] \o queue["delayed"], 1, Limit)
  IN  /\ op[o].pc = "select"
      /\ Step(o, [op[o] EXCEPT !.pc = "retry", !.todo = jobs, !.count = Len(jobs)])
      /\ UNCHANGED <<queue, paused, added, read, notes>>

SelectFailed(o) ==
  LET jobs == GetJobs("failed", 0, Limit - 1)
  IN  /\ op[o].pc = "select"
      /\ Step(o, [op[o] EXCEPT !.pc = "retry", !.todo = jobs, !.count = Len(jobs)])
      /\ UNCHANGED <<queue, paused, added, read, notes>>

(* A mutant: a job that cannot be retried is passed over.                  *)
RetryOrSkip(o) ==
  LET j == Head(op[o].todo)
  IN  /\ op[o].pc = "retry"
      /\ op[o].todo # <<>>
      /\ IF Accepts("retry", j)
           THEN queue' = Applied("retry", j) /\ Note({j}) /\ UNCHANGED pushed
                /\ Step(o, [op[o] EXCEPT !.todo = Tail(@), !.done = @ \cup {j}])
           ELSE Step(o, [op[o] EXCEPT !.todo = Tail(@)]) /\ UNCHANGED <<queue, notes>>
      /\ UNCHANGED <<paused, added, read>>

(* The failed jobs are retried one after the other; the first that rejects *)
(* ends the request.                                                       *)
RetryNext(o) ==
  LET j == Head(op[o].todo)
  IN  /\ op[o].pc = "retry"
      /\ op[o].todo # <<>>
      /\ IF Accepts("retry", j)
           THEN queue' = Applied("retry", j) /\ Note({j}) /\ UNCHANGED pushed
                /\ Step(o, [op[o] EXCEPT !.todo = Tail(@), !.done = @ \cup {j}])
           ELSE Step(o, [op[o] EXCEPT !.pc = "answer", !.status = "rejected"])
                /\ UNCHANGED <<queue, notes>>
      /\ UNCHANGED <<paused, added, read>>

RetryDone(o) ==
  /\ op[o].pc = "retry"
  /\ op[o].todo = <<>>
  /\ Step(o, [op[o] EXCEPT !.pc = "answer"])
  /\ UNCHANGED <<queue, paused, added, read, notes>>

FindJob(o) ==
  /\ op[o].pc = "find"
  /\ Step(o, IF Exists(Head(op[o].todo)) THEN [op[o] EXCEPT !.pc = "apply"]
             ELSE [op[o] EXCEPT !.pc = "answer", !.status = "unknown"])
  /\ UNCHANGED <<queue, paused, added, read, notes>>

ApplyToJob(o) ==
  LET j == Head(op[o].todo)
  IN  /\ op[o].pc = "apply"
      /\ op[o].action \in {"retry", "remove", "promote"}
      /\ IF Accepts(op[o].action, j)
           THEN queue' = Applied(op[o].action, j) /\ Note({j}) /\ UNCHANGED pushed
                /\ Step(o, [op[o] EXCEPT !.pc = "answer", !.done = {j}])
           ELSE Step(o, [op[o] EXCEPT !.pc = "answer", !.status = "rejected"])
                /\ UNCHANGED <<queue, notes>>
      /\ UNCHANGED <<paused, added, read>>

(* Redis does not answer: the call rejects.                                *)
Down(o) ==
  /\ op[o].pc \in {"find", "apply", "select", "retry"}
  /\ Step(o, [op[o] EXCEPT !.pc = "answer", !.status = "down"])
  /\ UNCHANGED <<queue, paused, added, read, notes>>

-----------------------------------------------------------------------------

TakeAnswer(s) ==
  /\ \/ s \in Readers /\ read[s].pc = "answer" /\ Reply(s, Idle) /\ UNCHANGED op
     \/ s \in Operators /\ op[s].pc = "answer" /\ Step(s, Idle) /\ UNCHANGED read
  /\ Forgotten(s)
  /\ UNCHANGED <<queue, paused, added>>

(* BullMQ draws a new id for every job.                                    *)
Host(j) ==
  /\ \/ /\ j \notin added
        /\ added' = added \cup {j}
        /\ \E state \in {"waiting", "delayed"} : \E n \in Places(state) :
             AddJob(j, n, state) /\ NotePushed(Behind(n, state), state)
     \/ /\ \E state \in QueueJobState \ {"active"} : \E n \in Places(state) :
             FinishJob(j, n, state) /\ NotePushed(Behind(n, state), state)
        /\ UNCHANGED added
     \/ /\ TakeJob(j) \/ DelayOver(j)
        /\ UNCHANGED <<added, pushed>>
  /\ Note({j})
  /\ UNCHANGED <<read, op>>

ReadStep(r) == ReadCounts(r) \/ ReadPage(r) \/ ReadRelated(r)

OpStep(o) ==
  \/ ApplyToQueue(o) \/ SelectFailed(o) \/ RetryNext(o) \/ RetryDone(o)
  \/ FindJob(o) \/ ApplyToJob(o)

Next ==
  \/ \E j \in Jobs : Host(j)
  \/ \E r \in Readers : ListJobs(r) \/ ListRelatedJobs(r) \/ ReadStep(r)
  \/ \E o \in Operators : StartQueueAction(o) \/ StartJobAction(o) \/ OpStep(o) \/ Down(o)
  \/ \E s \in Slots : TakeAnswer(s)

Spec == Init /\ [][Next]_vars

-----------------------------------------------------------------------------

Answered(r) == read[r].pc = "answer"

(* The matching jobs that a listing is to find.  It may miss a job that    *)
(* moved; one that another job was put before, by the time it is due or to *)
(* be the next, between the count of that state and its jobs; and, when    *)
(* the queue was paused as the waiting jobs were counted, those.           *)
Stable(r, q) ==
  {j \in Matching \ (moved[r] \cup pushed[r]) : ~(q.hidden /\ In(j, "waiting"))}

(* A listing that reads the count of jobs first and then that many jobs,   *)
(* or five states one after the other, still finds every matching job that *)
(* has stayed where it was, unless the limit was reached: jobs that arrive *)
(* or leave in between cannot push it out of the range, except from before *)
(* it.  The waiting jobs of a paused queue, which are not counted, are the *)
(* exception: a filtered listing does not find them.                       *)
StableJobsAreFound ==
  \A r \in Readers : Answered(r) /\ read[r].filtered =>
    \A j \in Stable(r, read[r]) :
      (IF read[r].related THEN Exists(j) ELSE In(j, read[r].state)) =>
        \/ j \in ToSet(read[r].items)
        \/ read[r].related /\ Len(read[r].items) = PanelLimit
        \/ ~read[r].related /\ (read[r].page > 1 \/ Len(read[r].items) = PageSize)

(* A filtered listing shows matching jobs only, no more than were asked    *)
(* for, and a job twice only if it moved from one state to another while   *)
(* the states were read.                                                   *)
ListingIsSound ==
  \A r \in Readers : Answered(r) =>
    LET items == read[r].items
    IN  /\ read[r].filtered => ToSet(items) \subseteq Matching
        /\ Len(items) <= (IF read[r].related THEN PanelLimit ELSE PageSize)
        /\ \A i, k \in DOMAIN items : i < k /\ items[i] = items[k] => items[i] \in moved[r]

(* The number that retry-failed answers, and that goes into the audit log, *)
(* is the number of jobs this request retried, whatever other operators    *)
(* and workers did to the same jobs.                                       *)
CountIsDone ==
  \A o \in Operators :
    op[o].pc = "answer" /\ op[o].status = "ok" /\ op[o].action \in {"clean", "retry-failed"}
      => op[o].count = Cardinality(op[o].done)

(* An action that was possible when the request started, or on jobs that   *)
(* the request has itself selected, is refused only because of a race:     *)
(* somebody else has moved or removed the job since, and not this request. *)
RefusalsAreRaces ==
  \A o \in Operators :
    op[o].pc = "answer" /\ op[o].status \in {"unknown", "rejected"} /\ op[o].possible =>
      Head(op[o].todo) \in moved[o] \ op[o].done
=============================================================================
