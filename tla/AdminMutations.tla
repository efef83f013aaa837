--------------------------- MODULE AdminMutations ---------------------------
(***************************************************************************)
(* The mutating operations of AdminService on the rows of one resource,    *)
(* over the four adapters, with the audit log enabled.                     *)
(*                                                                         *)
(* Every adapter call and the audit append are awaited and no transaction  *)
(* spans two of them, so the operations of concurrent requests interleave  *)
(* between them.  Promise.all rejects with the first rejection and leaves  *)
(* the calls it started running: a bulk operation goes on changing rows    *)
(* after its error was answered.                                           *)
(*                                                                         *)
(* A row is reduced to whether it exists and is archived (soft-deleted).   *)
(* The handlers of actions and bulk actions are host code; they are the    *)
(* ones of the example apps: an action updates its row, a bulk action      *)
(* finds and then updates each of its rows.                                *)
(***************************************************************************)
EXTENDS Naturals, FiniteSets

CONSTANTS
  Ids,        \* the ids rows may have
  Requests,   \* the requests; each runs one operation
  Faulty      \* whether calls may reject by themselves, and the process die

ASSUME IdsAssumption    == IsFiniteSet(Ids)
ASSUME FaultyAssumption == Faulty \in BOOLEAN

VARIABLES
  config,   \* the adapter, and whether the resource has soft delete
  rows,     \* the table
  req,      \* per request, its progress
  audit,    \* the entries of the audit log, each with the request it is of
  effects   \* history: the changes requests made to rows

vars == <<config, rows, req, audit, effects>>

Adapters == {"memory", "prisma", "typeorm", "mikroorm"}

BulkOps == {"bulkRemove", "bulkAction"}
Ops     == {"create", "update", "password", "remove", "action"} \cup BulkOps

Deletes(q) == q.op \in {"remove", "bulkRemove"}

(* What is awaited for one row: findOne of the service; the read, the      *)
(* write and the re-read an adapter's update or create consists of.  The   *)
(* write of a TypeORM update is named for the state of the row it loaded.  *)
Writes == {"write", "saveLive", "saveArchived"}
Stages == {"none", "find", "load", "reload"} \cup Writes

(* "prepare": validation, transforms, the password hash, the choice of the *)
(* action; "work": calls on rows; "reread": the second detail of runAction.*)
Pc == {"new", "prepare", "work", "audit", "reread", "ok", "error"}

Request == [pc : Pc, op : Ops \cup {"none"}, ids : SUBSET Ids, at : [Ids -> Stages]]

Entry == [by : Requests, action : Ops, ids : SUBSET Ids]

Quiet == [i \in Ids |-> "none"]

TypeOK ==
  /\ config \in [adapter : Adapters, soft : BOOLEAN]
  /\ rows \in [Ids -> {"absent", "live", "archived"}]
  /\ req \in [Requests -> Request]
  /\ audit \subseteq Entry
  /\ effects \subseteq [by : Requests, id : Ids, kind : {"written", "removed"}]

Become(r, q) == req' = [req EXCEPT ![r] = q]

(* The outstanding calls are all answered: on to the audit entry.          *)
Settle(q) == IF q.pc = "work" /\ q.at = Quiet THEN [q EXCEPT !.pc = "audit"] ELSE q

(* A call on row i rejects.  In a bulk operation the calls on other rows   *)
(* go on, except that a bulkRemove that is still looking up its rows has   *)
(* not begun to delete any.                                                *)
Reject(q, i) ==
  [q EXCEPT !.pc = IF @ = "work" THEN "error" ELSE @,
            !.at = IF q.op = "bulkRemove" /\ q.at[i] = "find"
                     THEN Quiet ELSE [@ EXCEPT ![i] = "none"]]

(* A change of row i by r.                                                 *)
Put(r, i, state) ==
  /\ rows' = [rows EXCEPT ![i] = state]
  /\ effects' = IF rows[i] = "absent" /\ state = "absent" THEN effects
                ELSE effects \cup
                  {[by |-> r, id |-> i,
                    kind |-> IF state = "absent" THEN "removed" ELSE "written"]}

Init ==
  /\ config \in [adapter : Adapters, soft : BOOLEAN]
  /\ rows \in [Ids -> {"absent", "live"}]
  /\ req = [r \in Requests |-> [pc |-> "new", op |-> "none", ids |-> {}, at |-> Quiet]]
  /\ audit = {}
  /\ effects = {}

-----------------------------------------------------------------------------
(* The operations up to their first write                                  *)

(* The id of a row whose create is under way is nobody's to name yet.      *)
Unborn(i) ==
  /\ rows[i] = "absent"
  /\ \E q \in Requests : req[q].op = "create" /\ i \in req[q].ids
  /\ \A e \in effects : e.id # i

Start(r) ==
  /\ req[r].pc = "new"
  /\ \E op \in Ops, ids \in SUBSET {i \in Ids : ~Unborn(i)} :
       /\ op \notin BulkOps => Cardinality(ids) = (IF op = "create" THEN 0 ELSE 1)
       /\ Become(r, IF op \in {"create", "update", "bulkAction"}
                      THEN [pc |-> "prepare", op |-> op, ids |-> ids, at |-> Quiet]
                      ELSE Settle([pc |-> "work", op |-> op, ids |-> ids,
                                   at |-> [i \in Ids |-> IF i \in ids THEN "find"
                                                                      ELSE "none"]]))
  /\ UNCHANGED <<config, rows, audit, effects>>

(* Unknown resource, missing permission; invalid payload, mismatched       *)
(* password, unknown action.                                               *)
Refuse(r) ==
  /\ req[r].pc \in {"new", "prepare"}
  /\ Become(r, [req[r] EXCEPT !.pc = "error"])
  /\ UNCHANGED <<config, rows, audit, effects>>

(* An update loads the entity it merges into in the two ORMs, and is one   *)
(* statement in Prisma and one synchronous step in memory.                 *)
FirstCall ==
  IF config.adapter \in {"typeorm", "mikroorm"} THEN "load" ELSE "write"

(* The id of a created row is new: no request has named it before.         *)
Prepared(r) ==
  /\ req[r].pc = "prepare"
  /\ \E ids \in SUBSET Ids :
       /\ IF req[r].op = "create"
            THEN \E i \in Ids :
                   /\ rows[i] = "absent"
                   /\ \A e \in effects : e.id # i
                   /\ \A q \in Requests : i \notin req[q].ids
                   /\ ids = {i}
            ELSE ids = req[r].ids
       /\ Become(r, Settle([req[r] EXCEPT
            !.pc = "work", !.ids = ids,
            !.at = [i \in Ids |->
                      IF i \notin ids THEN "none"
                      ELSE CASE req[r].op = "create"     -> "write"
                             [] req[r].op = "bulkAction" -> "find"
                             [] OTHER                    -> FirstCall]]))
  /\ UNCHANGED <<config, rows, audit, effects>>

(* What follows a findOne of the service that returns row i, or null: a    *)
(* single operation answers 404 for null; a bulkRemove uses the row for    *)
(* its label only, and deletes when all rows are looked up; a bulk action  *)
(* passes over a missing row.                                              *)
Found(q, i) ==
  CASE q.op = "remove"     -> [q EXCEPT !.at[i] = "write"]
    [] q.op = "bulkAction" -> [q EXCEPT !.at[i] = FirstCall]
    [] q.op = "bulkRemove" ->
         [q EXCEPT !.at = IF \E j \in Ids \ {i} : @[j] = "find"
                            THEN [@ EXCEPT ![i] = "none"]
                            ELSE [j \in Ids |-> IF j \in q.ids THEN "write" ELSE "none"]]
    [] OTHER               -> [q EXCEPT !.pc = "prepare", !.at[i] = "none"]

NotFound(q, i) ==
  CASE q.op = "bulkRemove" -> Found(q, i)
    [] q.op = "bulkAction" -> Settle([q EXCEPT !.at[i] = "none"])
    [] OTHER               -> Reject(q, i)

(* A mutant: the row that is not found is never answered for.              *)
FindLive(r, i) ==
  /\ req[r].at[i] = "find"
  /\ rows[i] # "absent"
  /\ Become(r, Found(req[r], i))
  /\ UNCHANGED <<config, rows, audit, effects>>

Find(r, i) ==
  /\ req[r].at[i] = "find"
  /\ Become(r, IF rows[i] # "absent" THEN Found(req[r], i) ELSE NotFound(req[r], i))
  /\ UNCHANGED <<config, rows, audit, effects>>

-----------------------------------------------------------------------------
(* The calls that write                                                    *)

(* findOneOrFail of an ORM's update.                                       *)
Load(r, i) ==
  /\ req[r].at[i] = "load"
  /\ Become(r, IF rows[i] = "absent" THEN Reject(req[r], i)
               ELSE [req[r] EXCEPT !.at[i] =
                       IF config.adapter = "mikroorm" THEN "write"
                       ELSE IF rows[i] = "live" THEN "saveLive" ELSE "saveArchived"])
  /\ UNCHANGED <<config, rows, audit, effects>>

Orm == config.adapter \in {"typeorm", "mikroorm"}

(* What row i becomes when the write of it takes effect.  A TypeORM save   *)
(* writes every column back that differs from what it loaded, deletedAt    *)
(* among them, and inserts an entity whose row has gone; a MikroORM flush, *)
(* a soft delete by WHERE and a delete of a missing row change nothing.    *)
Written(q, i) ==
  IF Deletes(q) THEN IF config.soft /\ rows[i] # "absent" THEN "archived" ELSE "absent"
  ELSE IF q.op = "create" \/ q.at[i] = "saveLive" THEN "live"
  ELSE IF q.at[i] = "saveArchived" THEN "archived" ELSE rows[i]

(* Prisma reports a missing row (P2025) to a delete as to an update; the   *)
(* in-memory adapter to an update only.                                    *)
WriteRejects(q, i) ==
  /\ rows[i] = "absent"
  /\ q.op # "create"
  /\ config.adapter = "prisma" \/ (config.adapter = "memory" /\ ~Deletes(q))

(* Both ORMs read the row again after a create or an update.               *)
AfterWrite(q, i) ==
  IF Orm /\ ~Deletes(q) THEN [q EXCEPT !.at[i] = "reload"]
                        ELSE Settle([q EXCEPT !.at[i] = "none"])

(* Mutants: a delete is answered before it took effect; the deletes of a   *)
(* bulkRemove are settled (Promise.allSettled), not checked; a missing row *)
(* is created by an update.                                                *)
WriteNotAwaited(r, i) ==
  /\ req[r].at[i] \in Writes
  /\ \/ /\ Put(r, i, Written(req[r], i))
        /\ Become(r, AfterWrite(req[r], i))
     \/ /\ Become(r, [req[r] EXCEPT !.pc = "audit"])
        /\ req[r].pc = "work"
        /\ UNCHANGED <<rows, effects>>
  /\ UNCHANGED <<config, audit>>

WriteSettled(r, i) ==
  /\ req[r].at[i] \in Writes
  /\ Put(r, i, Written(req[r], i))
  /\ Become(r, AfterWrite(req[r], i))
  /\ UNCHANGED <<config, audit>>

WriteUpserting(r, i) ==
  /\ req[r].at[i] \in Writes
  /\ Put(r, i, IF rows[i] = "absent" /\ ~Deletes(req[r]) THEN "live" ELSE Written(req[r], i))
  /\ Become(r, AfterWrite(req[r], i))
  /\ UNCHANGED <<config, audit>>

Write(r, i) ==
  /\ req[r].at[i] \in Writes
  /\ IF WriteRejects(req[r], i)
       THEN Become(r, Reject(req[r], i)) /\ UNCHANGED <<rows, effects>>
       ELSE /\ Put(r, i, Written(req[r], i))
            /\ Become(r, AfterWrite(req[r], i))
  /\ UNCHANGED <<config, audit>>

(* TypeORM's findOneOrFail rejects for a row that has gone; MikroORM's     *)
(* findOne returns null, which the audit entry of a create or an update    *)
(* cannot be made from, and which a handler passes on.                     *)
Reload(r, i) ==
  /\ req[r].at[i] = "reload"
  /\ Become(r, IF /\ rows[i] = "absent"
                  /\ \/ config.adapter = "typeorm"
                     \/ req[r].op \in {"create", "update", "password"}
                 THEN Reject(req[r], i)
                 ELSE Settle([req[r] EXCEPT !.at[i] = "none"]))
  /\ UNCHANGED <<config, rows, audit, effects>>

-----------------------------------------------------------------------------
(* The audit entry and the answer                                          *)

Recorded(r) == audit \cup {[by |-> r, action |-> req[r].op, ids |-> req[r].ids]}

(* A mutant: the append is not awaited, and is lost.                       *)
RecordAuditNotAwaited(r) ==
  /\ req[r].pc = "audit"
  /\ audit' \in {audit, Recorded(r)}
  /\ Become(r, [req[r] EXCEPT !.pc = "ok"])
  /\ UNCHANGED <<config, rows, effects>>

(* A handler that returned no entity makes runAction read the row again.   *)
RecordAudit(r) ==
  /\ req[r].pc = "audit"
  /\ audit' = Recorded(r)
  /\ \E pc \in {"ok"} \cup (IF req[r].op = "action" THEN {"reread"} ELSE {}) :
       Become(r, [req[r] EXCEPT !.pc = pc])
  /\ UNCHANGED <<config, rows, effects>>

Reread(r) ==
  /\ req[r].pc = "reread"
  /\ \A i \in req[r].ids :
       Become(r, [req[r] EXCEPT !.pc = IF rows[i] # "absent" THEN "ok" ELSE "error"])
  /\ UNCHANGED <<config, rows, audit, effects>>

-----------------------------------------------------------------------------
(* Faults                                                                  *)

(* A call on row i rejects, with or without having taken effect.           *)
CallFails(r, i) ==
  /\ Faulty
  /\ req[r].at[i] # "none"
  /\ Become(r, Reject(req[r], i))
  /\ \/ UNCHANGED <<rows, effects>>
     \/ /\ req[r].at[i] \in Writes
        /\ ~WriteRejects(req[r], i)
        /\ Put(r, i, Written(req[r], i))
  /\ UNCHANGED <<config, audit>>

AnswerFails(r) ==
  /\ Faulty
  /\ req[r].pc \in {"audit", "reread"}
  /\ audit' \in {audit} \cup (IF req[r].pc = "audit" THEN {Recorded(r)} ELSE {})
  /\ Become(r, [req[r] EXCEPT !.pc = "error"])
  /\ UNCHANGED <<config, rows, effects>>

(* The process dies, and its requests with it.  A restarted process serves *)
(* the requests that are still to come; the built-in memory adapter loses  *)
(* its table, so crashes are of the adapters with a database.              *)
Crash ==
  /\ Faulty
  /\ config.adapter # "memory"
  /\ req' = [r \in Requests |->
               IF req[r].pc \in {"new", "ok"} THEN req[r]
                 ELSE [req[r] EXCEPT !.pc = "error", !.at = Quiet]]
  /\ UNCHANGED <<config, rows, audit, effects>>

Step(r) ==
  \/ Start(r) \/ Refuse(r) \/ Prepared(r) \/ RecordAudit(r) \/ Reread(r)
  \/ \E i \in Ids : Find(r, i) \/ Load(r, i) \/ Write(r, i) \/ Reload(r, i)

Fault(r) == AnswerFails(r) \/ \E i \in Ids : CallFails(r, i)

Next == (\E r \in Requests : Step(r) \/ Fault(r)) \/ Crash

(* The event loop runs every continuation, and every call is answered.     *)
Fairness ==
  \A r \in Requests :
    /\ WF_vars(Refuse(r) \/ Prepared(r) \/ RecordAudit(r) \/ Reread(r))
    /\ \A i \in Ids : WF_vars(Find(r, i) \/ Load(r, i) \/ Write(r, i) \/ Reload(r, i))

Spec == Init /\ [][Next]_vars

FairSpec == Spec /\ Fairness

-----------------------------------------------------------------------------

Over(r) == req[r].pc \in {"ok", "error"} /\ req[r].at = Quiet

(* An operation that answered success is in the audit log, and none of its *)
(* calls is still running: all it does to the table has been done.         *)
OkIsComplete ==
  \A r \in Requests :
    req[r].pc = "ok" =>
      /\ req[r].at = Quiet
      /\ \E e \in audit : e.by = r /\ e.action = req[r].op

(* A delete gets its audit entry when the rows it names are gone, whatever *)
(* updates overlap it.  TypeORM is excepted: save may have put back a row  *)
(* or an empty deletedAt that an overlapping update had loaded.            *)
RecordedDeletesAreGone ==
  [][\A e \in audit' \ audit :
       e.action \in {"remove", "bulkRemove"} /\ config.adapter # "typeorm" =>
         \A i \in e.ids : rows[i] \in {"absent"} \cup (IF config.soft THEN {"archived"} ELSE {})]_vars

(* A row that was removed does not come back through an update, an action  *)
(* or a bulk action that read it before; TypeORM is excepted.              *)
RemovedStaysRemoved ==
  config.adapter # "typeorm" =>
    \A e \in effects : e.kind = "removed" => rows[e.id] = "absent"

(* Where the adapter reports missing rows, two successful hard deletes     *)
(* never both claim the same row: the counts they answer add up.           *)
RowsDeletedOnce ==
  config.adapter = "prisma" /\ ~config.soft =>
    \A q, r \in {p \in Requests : req[p].pc = "ok" /\ Deletes(req[p])} :
      q # r => req[q].ids \cap req[r].ids = {}

(* Every operation is answered, and the calls it started come to an end.   *)
EveryOperationEnds ==
  \A r \in Requests : req[r].pc # "new" ~> Over(r)

(* What the documentation says of the audit log, "Recorded events include  *)
(* delete and soft delete": once a delete is over, the rows it removed or  *)
(* archived are covered by an audit entry.                                 *)
DeletesAreRecorded ==
  \A e \in effects :
    Deletes(req[e.by]) /\ Over(e.by) => \E a \in audit : a.by = e.by
=============================================================================
