----------------------------- MODULE AuditStore -----------------------------
(***************************************************************************)
(* The database-backed audit stores: PrismaAdminAuditStore,                *)
(* TypeOrmAdminAuditStore and MikroOrmAdminAuditStore.  The three run one  *)
(* protocol, and no transaction holds its steps together:                  *)
(*                                                                         *)
(*   record       takes the id and the timestamp, then calls append, which *)
(*   INSERTs      the entry,                                               *)
(*   SELECTs      the ids that come after the first maxEntries, and        *)
(*   DELETEs      these ids, if there are any.                             *)
(*                                                                         *)
(* Each query is awaited, so the appends of concurrent requests interleave *)
(* between the steps, entries reach the table in another order than that   *)
(* of their timestamps, and an append may die between two steps.           *)
(***************************************************************************)
EXTENDS NewestFirst

CONSTANT Requests       \* the requests that record audit events, of one server
                        \* or of several servers on the same database

VARIABLES
  rows,       \* the audit table
  call,       \* per request, the append it is executing
  inserted,   \* history: every entry the table ever received
  leaked      \* history: an append died between its INSERT and the end of its
              \* DELETE, and no append has selected the overflow since

vars == <<rows, call, inserted, leaked>>

(* "insert", "select" and "delete" name the query the append awaits.       *)
Idle == [pc : {"idle"}]
Call == Idle
          \cup [pc : {"insert", "select"}, entry : Entry]
          \cup [pc : {"delete"}, entry : Entry, overflow : SUBSET Entry]

TypeOK ==
  /\ rows \subseteq Entry
  /\ IsFiniteSet(rows)
  /\ call \in [Requests -> Call]
  /\ inserted \subseteq Entry
  /\ IsFiniteSet(inserted)
  /\ leaked \in BOOLEAN

Idling == [pc |-> "idle"]

Running(r) == call[r].pc # "idle"

(* randomUUID never returns an id twice.                                   *)
Fresh(id) ==
  /\ \A e \in inserted : e.id # id
  /\ \A r \in Requests : Running(r) => call[r].entry.id # id

Init ==
  /\ rows = {}
  /\ call = [r \in Requests |-> Idling]
  /\ inserted = {}
  /\ leaked = FALSE

(* AdminAuditService.record: the entry is complete before append is called *)
(* and keeps its timestamp however long its INSERT takes.  The wall clock  *)
(* may step in either direction, and clocks of several servers differ.     *)
Record(r) ==
  /\ ~Running(r)
  /\ \E e \in Entry :
       /\ Fresh(e.id)
       /\ call' = [call EXCEPT ![r] = [pc |-> "insert", entry |-> e]]
  /\ UNCHANGED <<rows, inserted, leaked>>

(* Mutants: the append's own state is inserted for the entry; the entry is *)
(* inserted last and nothing is pruned after it.                           *)
InsertCall(r) ==
  /\ call[r].pc = "insert"
  /\ rows' = rows \cup {call[r]}
  /\ inserted' = inserted \cup {call[r].entry}
  /\ call' = [call EXCEPT ![r] = Idling]
  /\ UNCHANGED leaked

InsertLast(r) ==
  /\ call[r].pc = "insert"
  /\ rows' = rows \cup {call[r].entry}
  /\ inserted' = inserted \cup {call[r].entry}
  /\ call' = [call EXCEPT ![r] = Idling]
  /\ UNCHANGED leaked

Insert(r) ==
  /\ call[r].pc = "insert"
  /\ rows' = rows \cup {call[r].entry}
  /\ inserted' = inserted \cup {call[r].entry}
  /\ call' = [call EXCEPT ![r] = [pc |-> "select", entry |-> call[r].entry]]
  /\ UNCHANGED leaked

(* A mutant: the overflow is selected without its last row.                *)
SelectAllButOne(r) ==
  /\ call[r].pc = "select"
  /\ call' = [call EXCEPT ![r] =
                IF Cardinality(Overflow(rows)) <= 1
                  THEN Idling
                  ELSE [pc |-> "delete", entry |-> call[r].entry,
                        overflow |-> {e \in Overflow(rows) :
                                        Above(e, Overflow(rows)) # {}}]]
  /\ leaked' = FALSE
  /\ UNCHANGED <<rows, inserted>>

(* With nothing to prune append returns here.                              *)
SelectOverflow(r) ==
  /\ call[r].pc = "select"
  /\ call' = [call EXCEPT ![r] =
                IF Overflow(rows) = {}
                  THEN Idling
                  ELSE [pc |-> "delete", entry |-> call[r].entry,
                        overflow |-> Overflow(rows)]]
  /\ leaked' = FALSE
  /\ UNCHANGED <<rows, inserted>>

(* A mutant: the overflow is taken to be all that is older than the        *)
(* append's own entry.                                                     *)
DeleteOlderThanOwn(r) ==
  /\ call[r].pc = "delete"
  /\ rows' = {e \in rows : ~Newer(call[r].entry, e)}
  /\ call' = [call EXCEPT ![r] = Idling]
  /\ UNCHANGED <<inserted, leaked>>

(* Rows another append has deleted meanwhile are no error.                 *)
DeleteOverflow(r) ==
  /\ call[r].pc = "delete"
  /\ rows' = rows \ call[r].overflow
  /\ call' = [call EXCEPT ![r] = Idling]
  /\ UNCHANGED <<inserted, leaked>>

(* The awaited query rejects, or the process dies while it waits.  A query *)
(* whose answer is lost after it took effect is that query's action        *)
(* followed by this one.                                                   *)
Abort(r) ==
  /\ Running(r)
  /\ call' = [call EXCEPT ![r] = Idling]
  /\ leaked' = (leaked \/ call[r].pc # "insert")
  /\ UNCHANGED <<rows, inserted>>

Append(r) == Record(r) \/ Insert(r) \/ SelectOverflow(r) \/ DeleteOverflow(r)

Next == \E r \in Requests : Append(r) \/ Abort(r)

(* The database answers every query it is sent.                            *)
Fairness == \A r \in Requests : WF_vars(Insert(r) \/ SelectOverflow(r) \/ DeleteOverflow(r))

Spec == Init /\ [][Next]_vars

FairSpec == Spec /\ Fairness

-----------------------------------------------------------------------------

(* Whatever appends overlap and wherever they die, none prunes an entry    *)
(* that belongs to the newest maxEntries of all entries ever inserted:     *)
(* the ids an append selected stay outside the window until it deletes     *)
(* them, although other appends insert and delete in between.              *)
NewestRetained == Newest(inserted) \subseteq rows

(* A row outside the window is never forgotten by everyone: some append is *)
(* about to delete it, or about to select it, or an append died after its  *)
(* INSERT and none has run the SELECT since.                               *)
OverflowAccounted ==
  \A e \in Overflow(rows) :
    \/ leaked
    \/ \E r \in Requests : call[r].pc = "select"
    \/ \E r \in Requests : call[r].pc = "delete" /\ e \in call[r].overflow

(* Retention: when no append runs, the table holds at most maxEntries rows *)
(* unless an append died and none followed it.                             *)
BoundedAtRest ==
  (\A r \in Requests : ~Running(r)) => leaked \/ Cardinality(rows) <= MaxEntries

(* Each row outside the window leaves the table, or an append dies trying. *)
(* This holds of each row while others keep coming: the table may stay     *)
(* above maxEntries for as long as appends overlap without a pause, but no *)
(* row stays for that.                                                     *)
SurplusIsPruned ==
  \A e \in Entry : e \in Overflow(rows) ~> (leaked \/ e \notin rows)

(* What list({page: 1, pageSize: maxEntries}) returns.                     *)
Listed == Newest(rows)

Log == INSTANCE AuditLog WITH window <- Listed

(* The store implements the abstract log: only an INSERT changes what a    *)
(* reader is shown, and it shows the newest maxEntries of all entries ever *)
(* stored.                                                                 *)
ImplementsAuditLog == Log!Spec
=============================================================================
