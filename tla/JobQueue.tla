------------------------------ MODULE JobQueue ------------------------------
(***************************************************************************)
(* The BullMQ queue and the workers of the host, as the queue extension    *)
(* meets them: jobs move between five states while an operator looks at    *)
(* them.  BullMQ is not part of the repository; the guards below are those *)
(* under which it rejects, the order within a state is that of getJobs     *)
(* with asc: delayed jobs by the time they are due, waiting ones by their  *)
(* turn, the others oldest first.                                          *)
(***************************************************************************)
EXTENDS Lists, SequencesExt

CONSTANTS Jobs

ASSUME JobsAssumption == IsFiniteSet(Jobs)

VARIABLES
  queue,   \* the jobs in each state, in the order of getJobs
  paused   \* isPaused: workers take no job

QueueJobState == {"waiting", "active", "delayed", "failed", "completed"}

In(j, state) == Contains(queue[state], j)

Exists(j) == \E state \in QueueJobState : In(j, state)

QueueTypeOK ==
  /\ queue \in [QueueJobState -> Seq(Jobs)]
  /\ paused \in BOOLEAN

-----------------------------------------------------------------------------
(* What the methods of BullMqQueueLike and BullMqJobLike do to the queue.  *)

(* j moves, to come after the first n jobs of the other state.             *)
MovedAfter(n, j, from, to) ==
  [queue EXCEPT ![from] = Kept(@, Jobs \ {j}), ![to] = InsertAt(@, n + 1, j)]

Moved(j, from, to) == MovedAfter(Len(queue[to]), j, from, to)

Removed(js) ==
  [state \in QueueJobState |-> Kept(queue[state], Jobs \ js)]

(* job.retry, job.remove and job.promote reject a job in the wrong state.  *)
Accepts(method, j) ==
  CASE method = "retry"   -> In(j, "failed")
    [] method = "remove"  -> Exists(j) /\ ~In(j, "active")
    [] method = "promote" -> In(j, "delayed")

Applied(method, j) ==
  CASE method = "retry"   -> Moved(j, "failed", "waiting")
    [] method = "remove"  -> Removed({j})
    [] method = "promote" -> Moved(j, "delayed", "waiting")

(* The waiting jobs of a paused queue are in a list of its own: neither    *)
(* getJobCounts nor clean of "waiting" sees them, getJobs does.            *)
Reached(state) == IF state = "waiting" /\ paused THEN <<>> ELSE queue[state]

-----------------------------------------------------------------------------
(* The host adds jobs, and its workers process them.                       *)

(* After how many jobs a job may come: a delayed one has its time, one to  *)
(* be processed may be put first (lifo, or after a worker stalled).        *)
Places(state) ==
  CASE state = "delayed" -> 0..Len(queue[state])
    [] state = "waiting" -> {0, Len(queue[state])}
    [] OTHER             -> {Len(queue[state])}

(* The jobs it comes before.                                               *)
Behind(n, state) == {queue[state][i] : i \in (n + 1)..Len(queue[state])}

AddJob(j, n, state) ==
  /\ ~Exists(j)
  /\ queue' = [queue EXCEPT ![state] = InsertAt(@, n + 1, j)]
  /\ UNCHANGED paused

TakeJob(j) ==
  /\ ~paused
  /\ queue["waiting"] # <<>>
  /\ j = Head(queue["waiting"])
  /\ queue' = Moved(j, "waiting", "active")
  /\ UNCHANGED paused

(* A failed attempt that is not the last goes back to the queue, now or    *)
(* after a delay (backoff).                                                *)
FinishJob(j, n, to) ==
  /\ In(j, "active")
  /\ queue' = MovedAfter(n, j, "active", to)
  /\ UNCHANGED paused

DelayOver(j) ==
  /\ queue["delayed"] # <<>>
  /\ j = Head(queue["delayed"])
  /\ queue' = Moved(j, "delayed", "waiting")
  /\ UNCHANGED paused
=============================================================================
