------------------------ MODULE AdminMutationsProofs ------------------------
(***************************************************************************)
(* Theorems about AdminMutations, for any ids and any number of requests,  *)
(* over all adapters and both delete modes, with faults and crashes.  One  *)
(* inductive invariant, Inv, carries the safety properties of the module.  *)
(* The deletes among them come after a review: the second part is about    *)
(* DeleteReview, for any records, any page size and any number of changes. *)
(***************************************************************************)
EXTENDS AdminMutations, DeleteReview, FiniteSetTheorems, TLAPS

Singles == {"update", "password", "remove", "action"}

(* What a request is like in each of its steps.                            *)
Shaped(q) ==
  /\ q \in Request
  /\ q.pc = "new" => q.op = "none"
  /\ q.op = "none" => q.pc \in {"new", "error"}
  /\ \A i \in Ids : q.at[i] # "none" =>
       /\ i \in q.ids
       /\ q.pc = "work" \/ (q.pc = "error" /\ q.op \in BulkOps)
  /\ q.op \in Singles => \E i \in Ids : q.ids = {i}
  /\ q.op = "create" => q.ids = {} \/ \E i \in Ids : q.ids = {i}
  /\ q.pc = "prepare" => ~Deletes(q)
  /\ q.pc = "reread" => q.op = "action"
  /\ \A i \in Ids : q.at[i] \in {"find", "load"} => q.op # "create"
  /\ \A i \in Ids : q.at[i] \in {"load", "reload"} => ~Deletes(q)
  /\ \A i \in Ids : q.at[i] = "load" => Orm
  /\ \A i \in Ids : q.at[i] \in {"saveLive", "saveArchived"} => config.adapter = "typeorm"

AllShaped == \A r \in Requests : Shaped(req[r])

(* Until its insert, the row of a create is nobody else's, and new.        *)
CreatedIsNew ==
  \A r \in Requests, i \in Ids :
    req[r].op = "create" /\ req[r].at[i] \in Writes =>
      /\ rows[i] = "absent"
      /\ \A e \in effects : e.id # i
      /\ \A q \in Requests \ {r} : i \notin req[q].ids

Gone == {"absent"} \cup (IF config.soft THEN {"archived"} ELSE {})

(* A delete that has looked up its rows, and has not failed.               *)
Deleting(q) ==
  /\ Deletes(q)
  /\ q.pc \in {"work", "audit", "reread", "ok"}
  /\ \A i \in Ids : q.at[i] # "find"

(* What such a delete has got an answer for is gone, until it is recorded. *)
AnsweredAreGone ==
  config.adapter # "typeorm" =>
    \A r \in Requests : Deleting(req[r]) /\ req[r].pc \in {"work", "audit"} =>
      \A i \in req[r].ids : req[r].at[i] = "none" => rows[i] \in Gone

Removal(r, i) == [by |-> r, id |-> i, kind |-> "removed"]

(* Where missing rows are reported, it is this delete that removed it.     *)
AnsweredAreClaimed ==
  config.adapter = "prisma" /\ ~config.soft =>
    \A r \in Requests : Deleting(req[r]) =>
      \A i \in req[r].ids : req[r].at[i] = "none" => Removal(r, i) \in effects

(* A row is removed by one request only.                                   *)
RemovedOnce ==
  config.adapter # "typeorm" =>
    \A e, f \in effects :
      e.kind = "removed" /\ f.kind = "removed" /\ e.id = f.id => e.by = f.by

(* An operation past its audit entry has one.                              *)
Audited ==
  \A r \in Requests : req[r].pc \in {"reread", "ok"} =>
    \E e \in audit : e.by = r /\ e.action = req[r].op

Inv ==
  /\ TypeOK
  /\ AllShaped
  /\ CreatedIsNew
  /\ AnsweredAreGone
  /\ AnsweredAreClaimed
  /\ RemovedStaysRemoved
  /\ RemovedOnce
  /\ Audited

-----------------------------------------------------------------------------
(* What the helpers make of a request.                                     *)

LEMMA QuietType == Quiet \in [Ids -> Stages] /\ \A i \in Ids : Quiet[i] = "none"
BY DEF Quiet, Stages

(* A request in work whose calls are all answered goes on to its entry.    *)
LEMMA SettleShaped ==
  ASSUME NEW q, Shaped(q)
  PROVE  /\ Shaped(Settle(q))
         /\ Settle(q).op = q.op /\ Settle(q).ids = q.ids /\ Settle(q).at = q.at
         /\ Settle(q).pc = q.pc \/ (q.pc = "work" /\ Settle(q).pc = "audit")
<1>1. CASE q.pc = "work" /\ q.at = Quiet
  <2>1. Settle(q) = [q EXCEPT !.pc = "audit"]
    BY <1>1 DEF Settle
  <2>2. /\ Settle(q) \in Request /\ Settle(q).pc = "audit"
        /\ Settle(q).op = q.op /\ Settle(q).ids = q.ids /\ Settle(q).at = q.at
    BY <2>1 DEF Shaped, Request, Pc
  <2>3. QED BY <1>1, <2>2, QuietType DEF Shaped, Deletes
<1>2. CASE ~(q.pc = "work" /\ q.at = Quiet)
  BY <1>2 DEF Settle
<1>3. QED BY <1>1, <1>2

(* The call on row i has come to its end without an error.                 *)
LEMMA DropShaped ==
  ASSUME NEW q, Shaped(q), NEW i \in Ids, q.at[i] # "none"
  PROVE  LET p == [q EXCEPT !.at[i] = "none"]
         IN  /\ Shaped(p) /\ p.op = q.op /\ p.ids = q.ids /\ p.pc = q.pc
             /\ p.at = [q.at EXCEPT ![i] = "none"]
<1> DEFINE p == [q EXCEPT !.at[i] = "none"]
<1>1. /\ p \in Request /\ p.op = q.op /\ p.ids = q.ids /\ p.pc = q.pc
      /\ p.at = [q.at EXCEPT ![i] = "none"]
  BY DEF Shaped, Request, Stages
<1>2. \A j \in Ids : p.at[j] = IF j = i THEN "none" ELSE q.at[j]
  BY <1>1 DEF Shaped, Request
<1> HIDE DEF p
<1>3. Shaped(p)
  BY <1>1, <1>2 DEF Shaped, Deletes
<1>4. QED BY <1>1, <1>3 DEF p

(* The call on row i has got to another phase.                             *)
LEMMA StageShaped ==
  ASSUME NEW q, Shaped(q), NEW i \in Ids, q.at[i] # "none",
         NEW phase \in Stages,
         phase \in {"find", "load"} => q.op # "create",
         phase \in {"load", "reload"} => ~Deletes(q),
         phase = "load" => Orm,
         phase \in {"saveLive", "saveArchived"} => config.adapter = "typeorm"
  PROVE  LET p == [q EXCEPT !.at[i] = phase]
         IN  /\ Shaped(p) /\ p.op = q.op /\ p.ids = q.ids /\ p.pc = q.pc
             /\ p.at = [q.at EXCEPT ![i] = phase]
<1> DEFINE p == [q EXCEPT !.at[i] = phase]
<1>1. /\ p \in Request /\ p.op = q.op /\ p.ids = q.ids /\ p.pc = q.pc
      /\ p.at = [q.at EXCEPT ![i] = phase]
  BY DEF Shaped, Request
<1>2. \A j \in Ids : p.at[j] = IF j = i THEN phase ELSE q.at[j]
  BY <1>1 DEF Shaped, Request
<1> HIDE DEF p
<1>3. Shaped(p)
  BY <1>1, <1>2 DEF Shaped, Deletes
<1>4. QED BY <1>1, <1>3 DEF p

(* A rejection is answered with an error; the other calls stay or go.      *)
LEMMA RejectShaped ==
  ASSUME NEW q, Shaped(q), NEW i \in Ids, q.at[i] # "none"
  PROVE  LET p == Reject(q, i)
         IN  /\ Shaped(p) /\ p.op = q.op /\ p.ids = q.ids /\ p.pc = "error"
             /\ \A j \in Ids : p.at[j] \in {"none", q.at[j]}
<1> DEFINE p == Reject(q, i)
           at == IF q.op = "bulkRemove" /\ q.at[i] = "find"
                   THEN Quiet ELSE [q.at EXCEPT ![i] = "none"]
<1>1. /\ at \in [Ids -> Stages]
      /\ \A j \in Ids : at[j] \in {"none", q.at[j]}
      /\ at[i] = "none"
  BY QuietType DEF Shaped, Request, Stages
<1>2. q.pc \in {"work", "error"}
  BY DEF Shaped
<1>3. /\ p = [q EXCEPT !.pc = IF q.pc = "work" THEN "error" ELSE q.pc, !.at = at]
  BY DEF Reject
<1> HIDE DEF at, p
<1>4. /\ p \in Request /\ p.op = q.op /\ p.ids = q.ids /\ p.pc = "error" /\ p.at = at
  BY <1>1, <1>2, <1>3 DEF Shaped, Request, Pc
<1>5. \A j \in Ids : at[j] # "none" => q.op \in BulkOps
  <2>1. SUFFICES ASSUME NEW j \in Ids, at[j] # "none", q.op \notin BulkOps
                 PROVE  FALSE
    OBVIOUS
  <2>2. j \in q.ids /\ i \in q.ids /\ j # i
    BY <1>1, <2>1 DEF Shaped
  <2>3. q.op \in Ops
    BY <1>2, <2>2 DEF Shaped, Request, Ops
  <2>4. QED BY <2>1, <2>2, <2>3 DEF Shaped, Ops, Singles
<1>6. Shaped(p)
  <2>1. \A j \in Ids : p.at[j] # "none" =>
          j \in p.ids /\ p.op \in BulkOps /\ p.at[j] = q.at[j]
    BY <1>1, <1>4, <1>5 DEF Shaped
  <2>2. QED BY <1>4, <2>1 DEF Shaped, Deletes
<1>7. QED BY <1>1, <1>4, <1>6 DEF p

(* A findOne is answered: a deleting request has nothing done by then, as  *)
(* the deletes of a bulkRemove start when all its rows are looked up.      *)
LEMMA LookedUpShaped ==
  ASSUME NEW q, Shaped(q), NEW i \in Ids, q.at[i] = "find",
         NEW p, p = Found(q, i) \/ p = NotFound(q, i)
  PROVE  /\ Shaped(p) /\ p.op = q.op /\ p.ids = q.ids /\ p.op # "create"
         /\ p.pc \notin {"reread", "ok"}
         /\ Deleting(p) => \A j \in p.ids : p.at[j] # "none"
<1>1. /\ q.op \in Ops \ {"create"} /\ i \in q.ids /\ q.at[i] # "none"
      /\ q.pc \in {"work", "error"}
      /\ q.op \in Singles => q.ids = {i} /\ q.pc = "work"
  BY DEF Shaped, Request, Ops, BulkOps, Singles
<1>2. \A a : p = Reject(q, a) /\ a = i =>
        /\ Shaped(p) /\ p.op = q.op /\ p.ids = q.ids /\ p.pc = "error"
  BY <1>1, RejectShaped
<1>3. CASE q.op = "remove"
  <2>1. p = [q EXCEPT !.at[i] = "write"] \/ p = Reject(q, i)
    BY <1>3 DEF Found, NotFound
  <2>2. "write" \in Stages
    BY DEF Stages, Writes
  <2>3. CASE p = Reject(q, i)
    BY <2>3, <1>1, <1>2 DEF Deleting
  <2>4. CASE p = [q EXCEPT !.at[i] = "write"]
    <3>1. /\ Shaped(p) /\ p.op = q.op /\ p.ids = q.ids /\ p.pc = q.pc
          /\ p.at = [q.at EXCEPT ![i] = "write"]
      BY <2>2, <2>4, <1>1, StageShaped
    <3>2. p.at[i] = "write"
      BY <3>1 DEF Shaped, Request
    <3>3. QED BY <3>1, <3>2, <1>1, <1>3 DEF Singles
  <2>5. QED BY <2>1, <2>3, <2>4
<1>4. CASE q.op = "bulkAction"
  <2>1. p = [q EXCEPT !.at[i] = FirstCall] \/ p = Settle([q EXCEPT !.at[i] = "none"])
    BY <1>4 DEF Found, NotFound
  <2>2. FirstCall \in Stages /\ FirstCall \notin {"saveLive", "saveArchived"}
    BY DEF FirstCall, Stages, Writes
  <2>9. FirstCall = "load" => Orm
    BY DEF FirstCall, Orm
  <2>3. CASE p = [q EXCEPT !.at[i] = FirstCall]
    BY <2>2, <2>9, <2>3, <1>1, <1>4, StageShaped DEF Deleting, Deletes
  <2>4. CASE p = Settle([q EXCEPT !.at[i] = "none"])
    <3> DEFINE d == [q EXCEPT !.at[i] = "none"]
    <3>1. Shaped(d) /\ d.op = q.op /\ d.ids = q.ids /\ d.pc = q.pc
      BY <1>1, DropShaped
    <3> HIDE DEF d
    <3>2. p = Settle(d)
      BY <2>4 DEF d
    <3>3. QED BY <3>1, <3>2, <1>1, <1>4, SettleShaped DEF Deleting, Deletes
  <2>5. QED BY <2>1, <2>3, <2>4
<1>5. CASE q.op = "bulkRemove"
  <2> DEFINE at == IF \E j \in Ids \ {i} : q.at[j] = "find"
                     THEN [q.at EXCEPT ![i] = "none"]
                     ELSE [j \in Ids |-> IF j \in q.ids THEN "write" ELSE "none"]
  <2>1. p = [q EXCEPT !.at = at]
    BY <1>5 DEF Found, NotFound
  <2>2. at \in [Ids -> Stages]
    BY DEF Shaped, Request, Stages, Writes
  <2>3. \A j \in Ids : at[j] # "none" => j \in q.ids
    BY DEF Shaped, Request
  <2>4. (\A j \in Ids : at[j] # "find") => \A j \in q.ids : at[j] # "none"
    BY DEF Shaped, Request
  <2>5. \A j \in Ids : at[j] \in {"none", "find", "write", q.at[j]}
    BY DEF Shaped, Request
  <2>9. \A j \in Ids : q.at[j] \notin {"load", "reload"}
    BY <1>5 DEF Shaped, Deletes
  <2> HIDE DEF at
  <2>6. p \in Request /\ p.op = q.op /\ p.ids = q.ids /\ p.pc = q.pc /\ p.at = at
    BY <2>1, <2>2 DEF Shaped, Request
  <2>7. Shaped(p)
    BY <1>1, <1>5, <2>3, <2>5, <2>6, <2>9 DEF Shaped, BulkOps, Singles
  <2>8. QED BY <1>1, <1>5, <2>4, <2>6, <2>7 DEF Deleting
<1>6. CASE q.op \in {"update", "password", "action"}
  <2>1. p = [q EXCEPT !.pc = "prepare", !.at[i] = "none"] \/ p = Reject(q, i)
    BY <1>6 DEF Found, NotFound
  <2>2. CASE p = Reject(q, i)
    BY <2>2, <1>1, <1>2 DEF Deleting
  <2>3. CASE p = [q EXCEPT !.pc = "prepare", !.at[i] = "none"]
    <3>1. /\ p \in Request /\ p.op = q.op /\ p.ids = q.ids /\ p.pc = "prepare"
          /\ p.at = [q.at EXCEPT ![i] = "none"]
      BY <2>3 DEF Shaped, Request, Stages, Pc
    <3>2. \A j \in Ids : p.at[j] = "none"
      BY <1>1, <1>6, <3>1 DEF Shaped, Request, Singles
    <3>3. Shaped(p)
      BY <1>1, <1>6, <3>1, <3>2 DEF Shaped, Singles, Deletes
    <3>4. QED BY <1>1, <3>1, <3>3 DEF Deleting
  <2>4. QED BY <2>1, <2>2, <2>3
<1>7. QED BY <1>1, <1>3, <1>4, <1>5, <1>6 DEF Ops, BulkOps

-----------------------------------------------------------------------------
(* What the steps that change no row have in common.                       *)
LEMMA RequestStep ==
  ASSUME Inv, NEW r \in Requests, NEW q, Become(r, q), Shaped(q),
         UNCHANGED <<config, rows, effects>>,
         audit \subseteq audit', audit' \subseteq Entry,
         \A i \in Ids : q.op = "create" /\ q.at[i] \in Writes =>
           /\ rows[i] = "absent"
           /\ \A e \in effects : e.id # i
           /\ \A p \in Requests \ {r} : i \notin req[p].ids,
         \A i \in q.ids \ req[r].ids : \A p \in Requests \ {r} :
           ~(req[p].op = "create" /\ req[p].at[i] \in Writes),
         Deleting(q) => \A i \in q.ids : q.at[i] = "none" =>
           /\ Deleting(req[r]) /\ i \in req[r].ids /\ req[r].at[i] = "none"
           /\ q.pc \in {"work", "audit"} => req[r].pc \in {"work", "audit"},
         q.pc \in {"reread", "ok"} => \E e \in audit' : e.by = r /\ e.action = q.op
  PROVE  Inv'
<1>1. /\ req'[r] = q /\ \A p \in Requests \ {r} : req'[p] = req[p]
      /\ req' \in [Requests -> Request]
  BY DEF Inv, TypeOK, Become, Shaped
<1>2. config' = config /\ rows' = rows /\ effects' = effects
  OBVIOUS
<1>3. TypeOK'
  BY <1>1, <1>2 DEF Inv, TypeOK
<1>4. AllShaped'
  BY <1>1, <1>2 DEF Inv, AllShaped, Shaped, Deletes, Orm
<1>5. CreatedIsNew'
  <2>1. SUFFICES ASSUME NEW p \in Requests, NEW i \in Ids,
                        req'[p].op = "create", req'[p].at[i] \in Writes
                 PROVE  /\ rows[i] = "absent"
                        /\ \A e \in effects : e.id # i
                        /\ \A o \in Requests \ {p} : i \notin req'[o].ids
    BY <1>2 DEF CreatedIsNew
  <2>2. CASE p = r
    BY <1>1, <2>1, <2>2
  <2>3. CASE p # r
    <3>1. /\ rows[i] = "absent" /\ \A e \in effects : e.id # i
          /\ \A o \in Requests \ {p} : i \notin req[o].ids
      BY <1>1, <2>1, <2>3 DEF Inv, CreatedIsNew
    <3>2. i \notin q.ids
      BY <1>1, <2>1, <2>3, <3>1
    <3>3. QED BY <1>1, <3>1, <3>2
  <2>4. QED BY <2>2, <2>3
<1>6. AnsweredAreGone'
  BY <1>1, <1>2 DEF Inv, AnsweredAreGone, Gone, Deleting, Deletes
<1>7. AnsweredAreClaimed'
  BY <1>1, <1>2 DEF Inv, AnsweredAreClaimed, Deleting, Deletes, Removal
<1>8. RemovedStaysRemoved' /\ RemovedOnce'
  BY <1>2 DEF Inv, RemovedStaysRemoved, RemovedOnce
<1>9. Audited'
  BY <1>1 DEF Inv, Audited
<1>10. QED BY <1>3, <1>4, <1>5, <1>6, <1>7, <1>8, <1>9 DEF Inv

-----------------------------------------------------------------------------
(* Every action keeps the invariant.                                       *)

(* A request that names rows: not those of a create under way.             *)
LEMMA StartInv ==
  ASSUME Inv, NEW r \in Requests, Start(r)
  PROVE  Inv'
<1>1. PICK op \in Ops, ids \in SUBSET {i \in Ids : ~Unborn(i)} :
        /\ op \notin BulkOps => Cardinality(ids) = (IF op = "create" THEN 0 ELSE 1)
        /\ Become(r, IF op \in {"create", "update", "bulkAction"}
                       THEN [pc |-> "prepare", op |-> op, ids |-> ids, at |-> Quiet]
                       ELSE Settle([pc |-> "work", op |-> op, ids |-> ids,
                                    at |-> [i \in Ids |-> IF i \in ids THEN "find"
                                                                       ELSE "none"]]))
  BY DEF Start
<1>2. /\ op = "create" => ids = {}
      /\ op \in Singles => \E i \in Ids : ids = {i}
  <2>1. IsFiniteSet(ids)
    BY IdsAssumption, FS_Subset
  <2>2. op = "create" => Cardinality(ids) = 0
    BY <1>1 DEF BulkOps
  <2>3. op \in Singles => Cardinality(ids) = 1
    BY <1>1 DEF BulkOps, Singles
  <2>4. op = "create" => ids = {}
    BY <2>1, <2>2, FS_EmptySet
  <2>5. op \in Singles => \E x : ids = {x}
    BY <2>1, <2>3, FS_Singleton
  <2>6. QED BY <2>4, <2>5
<1> DEFINE find == [i \in Ids |-> IF i \in ids THEN "find" ELSE "none"]
           first == [pc |-> "work", op |-> op, ids |-> ids, at |-> find]
           later == [pc |-> "prepare", op |-> op, ids |-> ids, at |-> Quiet]
<1>3. ASSUME op \in {"create", "update", "bulkAction"}
      PROVE  Shaped(later) /\ ~Deleting(later)
  <2>1. later \in Request
    BY QuietType DEF Request, Pc
  <2>2. QED BY <1>2, <1>3, <2>1, QuietType DEF Shaped, Deletes, Deleting, Singles
<1>4. ASSUME op \notin {"create", "update", "bulkAction"}
      PROVE  Shaped(first)
  <2>1. first \in Request
    BY DEF Request, Pc, Stages
  <2>2. \A i \in Ids : find[i] = IF i \in ids THEN "find" ELSE "none"
    OBVIOUS
  <2> HIDE DEF find
  <2>3. QED BY <1>2, <1>4, <2>1, <2>2 DEF Shaped, Deletes, Singles, Ops, BulkOps
<1>5. PICK q : /\ Become(r, q) /\ Shaped(q) /\ q.op = op /\ q.ids = ids
               /\ q.pc \in {"prepare", "work", "audit"}
               /\ \A i \in Ids : q.at[i] \notin Writes
               /\ Deleting(q) => \A i \in ids : q.at[i] # "none"
  <2>1. CASE op \in {"create", "update", "bulkAction"}
    BY <1>1, <1>3, <2>1, QuietType DEF Writes
  <2>2. CASE op \notin {"create", "update", "bulkAction"}
    <3> DEFINE q == Settle(first)
    <3>1. /\ Shaped(q) /\ q.op = op /\ q.ids = ids /\ q.at = find
          /\ q.pc \in {"work", "audit"}
      BY <1>4, <2>2, SettleShaped
    <3>2. Become(r, q)
      BY <1>1, <2>2
    <3>3. \A i \in Ids : q.at[i] = IF i \in ids THEN "find" ELSE "none"
      BY <3>1
    <3> HIDE DEF q
    <3>4. QED BY <3>1, <3>2, <3>3 DEF Writes
  <2>3. QED BY <2>1, <2>2
<1>6. \A i \in ids, p \in Requests \ {r} :
        ~(req[p].op = "create" /\ req[p].at[i] \in Writes)
  <2>1. SUFFICES ASSUME NEW i \in ids, NEW p \in Requests,
                        req[p].op = "create", req[p].at[i] \in Writes
                 PROVE  FALSE
    OBVIOUS
  <2>2. rows[i] = "absent" /\ \A e \in effects : e.id # i
    BY <2>1 DEF Inv, CreatedIsNew
  <2>3. i \in req[p].ids
    BY <2>1 DEF Inv, AllShaped, Shaped, Writes
  <2>4. QED BY <2>1, <2>2, <2>3 DEF Unborn
<1>7. QED BY <1>5, <1>6, RequestStep DEF Start, Inv, TypeOK

(* A refusal comes before any call.                                        *)
LEMMA RefuseInv ==
  ASSUME Inv, NEW r \in Requests, Refuse(r)
  PROVE  Inv'
<1> DEFINE q == [req[r] EXCEPT !.pc = "error"]
<1>1. Shaped(req[r]) /\ req[r] \in Request /\ req[r].pc \in {"new", "prepare"}
  BY DEF Inv, AllShaped, Shaped, Refuse
<1>2. /\ q \in Request /\ q.pc = "error" /\ q.op = req[r].op
      /\ q.ids = req[r].ids /\ q.at = req[r].at
  BY <1>1 DEF Request, Pc
<1>3. Become(r, q)
  BY DEF Refuse
<1> HIDE DEF q
<1>4. \A i \in Ids : q.at[i] = "none"
  BY <1>1, <1>2 DEF Shaped
<1>5. Shaped(q) /\ ~Deleting(q)
  BY <1>1, <1>2, <1>4 DEF Shaped, Deletes, Deleting
<1>6. QED BY <1>2, <1>3, <1>4, <1>5, RequestStep DEF Refuse, Inv, TypeOK, Writes

(* The first calls of an operation; the row of a create is new.            *)
LEMMA PreparedInv ==
  ASSUME Inv, NEW r \in Requests, Prepared(r)
  PROVE  Inv'
<1> DEFINE op == req[r].op
           at(ids) == [i \in Ids |->
                         IF i \notin ids THEN "none"
                         ELSE CASE op = "create"     -> "write"
                                [] op = "bulkAction" -> "find"
                                [] OTHER             -> FirstCall]
           work(ids) == [req[r] EXCEPT !.pc = "work", !.ids = ids, !.at = at(ids)]
<1>1. Shaped(req[r]) /\ req[r] \in Request /\ req[r].pc = "prepare" /\ ~Deletes(req[r])
  BY DEF Inv, AllShaped, Shaped, Prepared
<1>2. PICK ids \in SUBSET Ids :
        /\ IF op = "create"
             THEN \E i \in Ids :
                    /\ rows[i] = "absent"
                    /\ \A e \in effects : e.id # i
                    /\ \A q \in Requests : i \notin req[q].ids
                    /\ ids = {i}
             ELSE ids = req[r].ids
        /\ Become(r, Settle(work(ids)))
  BY DEF Prepared
<1> DEFINE w == work(ids)
           phase == at(ids)
<1>3. phase \in [Ids -> Stages] /\ \A i \in Ids :
        /\ phase[i] # "none" <=> i \in ids
        /\ phase[i] \in {"none", "write", "find", "load"}
        /\ phase[i] \in {"find", "load"} => op # "create"
        /\ phase[i] = "load" => Orm
  BY DEF Stages, Writes, FirstCall, Orm
<1>4. w = [req[r] EXCEPT !.pc = "work", !.ids = ids, !.at = phase]
  OBVIOUS
<1> HIDE DEF phase, w
<1>5. w \in Request /\ w.pc = "work" /\ w.op = op /\ w.ids = ids /\ w.at = phase
  BY <1>1, <1>3, <1>4 DEF Request, Pc
<1>6. Shaped(w)
  BY <1>1, <1>2, <1>3, <1>5 DEF Shaped, Singles, Deletes
<1> DEFINE q == Settle(w)
<1>7. /\ Shaped(q) /\ q.op = op /\ q.ids = ids /\ q.at = phase
      /\ q.pc \in {"work", "audit"}
  BY <1>5, <1>6, SettleShaped
<1>8. Become(r, q)
  BY <1>2 DEF w
<1> HIDE DEF q
<1>9. ~Deleting(q)
  BY <1>1, <1>7 DEF Deleting, Deletes
<1>10. \A i \in Ids : q.op = "create" /\ q.at[i] \in Writes =>
         /\ rows[i] = "absent"
         /\ \A e \in effects : e.id # i
         /\ \A p \in Requests \ {r} : i \notin req[p].ids
  BY <1>2, <1>3, <1>7 DEF Writes
<1>11. \A i \in q.ids \ req[r].ids : \A p \in Requests \ {r} :
         ~(req[p].op = "create" /\ req[p].at[i] \in Writes)
  BY <1>2, <1>7 DEF Inv, AllShaped, Shaped, Writes
<1>12. QED BY <1>7, <1>8, <1>9, <1>10, <1>11, RequestStep DEF Prepared, Inv, TypeOK

(* What a request knows of itself before a call on row i ends.             *)
LEMMA CalledShape ==
  ASSUME Inv, NEW r \in Requests, NEW i \in Ids, req[r].at[i] # "none"
  PROVE  /\ Shaped(req[r]) /\ req[r] \in Request /\ i \in req[r].ids
         /\ req[r].pc \in {"work", "error"}
BY DEF Inv, AllShaped, Shaped

LEMMA FindInv ==
  ASSUME Inv, NEW r \in Requests, NEW i \in Ids, Find(r, i)
  PROVE  Inv'
<1>1. PICK q : (q = Found(req[r], i) \/ q = NotFound(req[r], i)) /\ Become(r, q)
  BY DEF Find
<1>2. Shaped(req[r]) /\ req[r].at[i] = "find"
  BY CalledShape DEF Find
<1>3. /\ Shaped(q) /\ q.op = req[r].op /\ q.ids = req[r].ids /\ q.op # "create"
      /\ q.pc \notin {"reread", "ok"}
      /\ Deleting(q) => \A j \in q.ids : q.at[j] # "none"
  BY <1>1, <1>2, LookedUpShaped
<1>4. QED BY <1>1, <1>3, RequestStep DEF Find, Inv, TypeOK

(* A rejection, whatever call it is of, leaves the invariant alone.        *)
LEMMA RejectInv ==
  ASSUME Inv, NEW r \in Requests, NEW i \in Ids, req[r].at[i] # "none",
         Become(r, Reject(req[r], i)), UNCHANGED <<config, rows, audit, effects>>
  PROVE  Inv'
<1> DEFINE q == Reject(req[r], i)
<1>1. Shaped(req[r])
  BY CalledShape
<1>2. /\ Shaped(q) /\ q.op = req[r].op /\ q.ids = req[r].ids /\ q.pc = "error"
      /\ \A j \in Ids : q.at[j] \in {"none", req[r].at[j]}
  BY <1>1, RejectShaped
<1>3. Become(r, q)
  OBVIOUS
<1> HIDE DEF q
<1>4. ~Deleting(q)
  BY <1>2 DEF Deleting
<1>5. \A j \in Ids : q.op = "create" /\ q.at[j] \in Writes =>
         /\ rows[j] = "absent"
         /\ \A e \in effects : e.id # j
         /\ \A p \in Requests \ {r} : j \notin req[p].ids
  BY <1>2 DEF Inv, CreatedIsNew, Writes
<1>6. QED BY <1>2, <1>3, <1>4, <1>5, RequestStep DEF Inv, TypeOK

(* The entity is loaded, or the row has gone.                              *)
LEMMA LoadInv ==
  ASSUME Inv, NEW r \in Requests, NEW i \in Ids, Load(r, i)
  PROVE  Inv'
<1>1. /\ Shaped(req[r]) /\ req[r].op # "create" /\ req[r].at[i] # "none"
  BY CalledShape DEF Load, Shaped
<1>2. CASE Become(r, Reject(req[r], i))
  BY <1>1, <1>2, RejectInv DEF Load
<1>3. ASSUME NEW phase \in {"write", "saveLive", "saveArchived"},
             phase # "write" => config.adapter = "typeorm",
             Become(r, [req[r] EXCEPT !.at[i] = phase])
      PROVE  Inv'
  <2> DEFINE q == [req[r] EXCEPT !.at[i] = phase]
  <2>1. phase \in Stages
    BY DEF Stages, Writes
  <2>2. /\ Shaped(q) /\ q.op = req[r].op /\ q.ids = req[r].ids /\ q.pc = req[r].pc
        /\ q.at = [req[r].at EXCEPT ![i] = phase]
    BY <1>1, <1>3, <2>1, StageShaped
  <2>3. Become(r, q)
    BY <1>3
  <2> HIDE DEF q
  <2>4. q.op # "create" /\ q.ids = req[r].ids /\ req[r].at[i] = "load"
    BY <1>1, <2>2 DEF Load
  <2>5. \A j \in Ids : q.at[j] = IF j = i THEN phase ELSE req[r].at[j]
    BY <1>1, <2>2 DEF Shaped, Request
  <2>6. Deleting(q) => Deleting(req[r])
    BY <2>2, <2>4, <2>5 DEF Deleting, Deletes
  <2>7. q.pc \notin {"reread", "ok"}
    BY <1>1, <2>2 DEF Shaped
  <2>8. \A j \in q.ids : j \in Ids
    BY <1>1, <2>2 DEF Shaped, Request
  <2>9. QED
    BY <1>3, <2>2, <2>3, <2>4, <2>5, <2>6, <2>7, <2>8, RequestStep DEF Load, Inv, TypeOK
<1>4. CASE rows[i] = "absent"
  BY <1>2, <1>4 DEF Load
<1>5. CASE rows[i] # "absent"
  <2> DEFINE phase == IF config.adapter = "mikroorm" THEN "write"
                      ELSE IF rows[i] = "live" THEN "saveLive" ELSE "saveArchived"
  <2>1. /\ phase \in {"write", "saveLive", "saveArchived"}
        /\ phase # "write" => config.adapter = "typeorm"
    BY <1>1 DEF Load, Shaped, Orm
  <2>2. Become(r, [req[r] EXCEPT !.at[i] = phase])
    BY <1>5 DEF Load
  <2> HIDE DEF phase
  <2>3. QED BY <1>3, <2>1, <2>2
<1>6. QED BY <1>4, <1>5

(* The row is read again after a write, which a delete does not do.        *)
LEMMA ReloadInv ==
  ASSUME Inv, NEW r \in Requests, NEW i \in Ids, Reload(r, i)
  PROVE  Inv'
<1>1. Shaped(req[r]) /\ req[r].at[i] = "reload" /\ ~Deletes(req[r])
  BY CalledShape DEF Reload, Shaped
<1>2. CASE Become(r, Reject(req[r], i))
  BY <1>1, <1>2, RejectInv DEF Reload
<1>3. CASE Become(r, Settle([req[r] EXCEPT !.at[i] = "none"]))
  <2> DEFINE d == [req[r] EXCEPT !.at[i] = "none"]
             q == Settle(d)
  <2>1. /\ Shaped(d) /\ d.op = req[r].op /\ d.ids = req[r].ids /\ d.pc = req[r].pc
        /\ d.at = [req[r].at EXCEPT ![i] = "none"]
    BY <1>1, DropShaped
  <2>2. \A j \in Ids : d.at[j] \in {"none", req[r].at[j]}
    BY <1>1, <2>1 DEF Shaped, Request
  <2> HIDE DEF d
  <2>3. /\ Shaped(q) /\ q.op = req[r].op /\ q.ids = req[r].ids /\ q.at = d.at
        /\ q.pc \in {req[r].pc, "audit"}
    BY <2>1, SettleShaped
  <2>4. Become(r, q)
    BY <1>3 DEF d
  <2> HIDE DEF q
  <2>5. ~Deleting(q)
    BY <1>1, <2>3 DEF Deleting, Deletes
  <2>6. q.pc \notin {"reread", "ok"}
    BY <1>1, <2>3 DEF Shaped
  <2>7. \A j \in Ids : q.op = "create" /\ q.at[j] \in Writes =>
          /\ rows[j] = "absent"
          /\ \A e \in effects : e.id # j
          /\ \A p \in Requests \ {r} : j \notin req[p].ids
    BY <2>2, <2>3 DEF Inv, CreatedIsNew, Writes
  <2>8. QED BY <2>3, <2>4, <2>5, <2>6, <2>7, RequestStep DEF Reload, Inv, TypeOK
<1>4. QED BY <1>2, <1>3 DEF Reload

(* The entry is appended, or lost with an error.                           *)
LEMMA RecordedType ==
  ASSUME Inv, NEW r \in Requests, req[r].pc = "audit"
  PROVE  /\ Recorded(r) \subseteq Entry /\ audit \subseteq Recorded(r)
         /\ \E e \in Recorded(r) : e.by = r /\ e.action = req[r].op
<1>1. Shaped(req[r]) /\ req[r] \in Request
  BY DEF Inv, AllShaped, Shaped
<1>2. req[r].op \in Ops /\ req[r].ids \in SUBSET Ids
  BY <1>1 DEF Shaped, Request
<1>3. [by |-> r, action |-> req[r].op, ids |-> req[r].ids] \in Entry
  BY <1>2 DEF Entry
<1>4. QED BY <1>3 DEF Recorded, Inv, TypeOK

(* A request that awaits nothing of its rows goes on to pc.                *)
LEMMA MoveOn ==
  ASSUME Inv, NEW r \in Requests, req[r].pc \in {"audit", "reread"},
         NEW pc \in {"ok", "error", "reread"}, pc = "reread" => req[r].op = "action",
         Become(r, [req[r] EXCEPT !.pc = pc]), UNCHANGED <<config, rows, effects>>,
         audit \subseteq audit', audit' \subseteq Entry,
         pc \in {"reread", "ok"} => \E e \in audit' : e.by = r /\ e.action = req[r].op
  PROVE  Inv'
<1> DEFINE q == [req[r] EXCEPT !.pc = pc]
<1>1. Shaped(req[r]) /\ req[r] \in Request
  BY DEF Inv, AllShaped, Shaped
<1>2. /\ q \in Request /\ q.pc = pc /\ q.op = req[r].op
      /\ q.ids = req[r].ids /\ q.at = req[r].at
  BY <1>1 DEF Request, Pc
<1>3. Become(r, q)
  OBVIOUS
<1> HIDE DEF q
<1>4. \A i \in Ids : q.at[i] = "none"
  BY <1>1, <1>2 DEF Shaped
<1>5. Shaped(q)
  BY <1>1, <1>2, <1>4 DEF Shaped, Deletes
<1>6. Deleting(q) => Deleting(req[r])
  BY <1>2 DEF Deleting, Deletes
<1>7. q.ids \subseteq Ids
  BY <1>2 DEF Request
<1>8. QED BY <1>2, <1>3, <1>4, <1>5, <1>6, <1>7, RequestStep DEF Writes

LEMMA RecordAuditInv ==
  ASSUME Inv, NEW r \in Requests, RecordAudit(r)
  PROVE  Inv'
BY RecordedType, MoveOn DEF RecordAudit

LEMMA RereadInv ==
  ASSUME Inv, NEW r \in Requests, Reread(r)
  PROVE  Inv'
<1>1. PICK i \in Ids : req[r].ids = {i}
  BY DEF Reread, Inv, AllShaped, Shaped, Singles
<1>2. PICK pc \in {"ok", "error"} : Become(r, [req[r] EXCEPT !.pc = pc])
  BY <1>1 DEF Reread
<1>3. \E e \in audit : e.by = r /\ e.action = req[r].op
  BY DEF Inv, Audited, Reread
<1>4. QED BY <1>2, <1>3, MoveOn DEF Reread, Inv, TypeOK

LEMMA AnswerFailsInv ==
  ASSUME Inv, NEW r \in Requests, AnswerFails(r)
  PROVE  Inv'
<1>1. audit \subseteq audit' /\ audit' \subseteq Entry
  BY RecordedType DEF AnswerFails, Inv, TypeOK
<1>2. QED BY <1>1, MoveOn DEF AnswerFails

-----------------------------------------------------------------------------
(* A write takes effect, whether its answer comes or not.                  *)

LEMMA WrittenType ==
  ASSUME Inv, NEW r \in Requests, NEW i \in Ids, req[r].at[i] \in Writes
  PROVE  /\ Written(req[r], i) \in {"absent", "live", "archived"}
         /\ Deletes(req[r]) => Written(req[r], i) \in Gone
         /\ ~config.soft /\ Deletes(req[r]) => Written(req[r], i) = "absent"
         /\ config.adapter # "typeorm" /\ rows[i] \in Gone /\ req[r].op # "create" =>
              Written(req[r], i) \in Gone
         /\ config.adapter # "typeorm" /\ rows[i] = "absent" /\ req[r].op # "create" =>
              Written(req[r], i) = "absent"
<1>1. rows[i] \in {"absent", "live", "archived"} /\ config.soft \in BOOLEAN
  BY DEF Inv, TypeOK
<1>2. config.adapter # "typeorm" => req[r].at[i] \notin {"saveLive", "saveArchived"}
  BY DEF Inv, AllShaped, Shaped
<1>3. CASE Deletes(req[r])
  <2>1. Written(req[r], i) = IF config.soft /\ rows[i] # "absent" THEN "archived" ELSE "absent"
    BY <1>3 DEF Written, Deletes
  <2>2. QED BY <1>1, <2>1 DEF Gone
<1>4. CASE ~Deletes(req[r]) /\ (req[r].op = "create" \/ req[r].at[i] = "saveLive")
  <2>1. Written(req[r], i) = "live"
    BY <1>4 DEF Written
  <2>2. QED BY <1>2, <1>4, <2>1
<1>5. CASE ~Deletes(req[r]) /\ req[r].op # "create" /\ req[r].at[i] = "saveArchived"
  <2>1. Written(req[r], i) = "archived"
    BY <1>5 DEF Written
  <2>2. QED BY <1>2, <1>5, <2>1
<1>6. CASE /\ ~Deletes(req[r]) /\ req[r].op # "create"
           /\ req[r].at[i] \notin {"saveLive", "saveArchived"}
  <2>1. Written(req[r], i) = rows[i]
    BY <1>6 DEF Written
  <2>2. QED BY <1>1, <1>6, <2>1
<1>7. QED BY <1>3, <1>4, <1>5, <1>6

LEMMA WriteStep ==
  ASSUME Inv, NEW r \in Requests, NEW i \in Ids, req[r].at[i] \in Writes,
         ~WriteRejects(req[r], i), Put(r, i, Written(req[r], i)),
         UNCHANGED <<config, audit>>,
         NEW q, Become(r, q), Shaped(q), q.op = req[r].op, q.ids = req[r].ids,
         q.at[i] \notin Writes,
         \A j \in Ids \ {i} : q.at[j] = req[r].at[j],
         q.pc = "error" \/ (req[r].pc = "work" /\ q.pc \in {"work", "audit"})
  PROVE  Inv'
<1> DEFINE value == Written(req[r], i)
<1>1. /\ req'[r] = q /\ \A p \in Requests \ {r} : req'[p] = req[p]
      /\ req' \in [Requests -> Request]
  BY DEF Inv, TypeOK, Become, Shaped
<1>2. /\ value \in {"absent", "live", "archived"}
      /\ Deletes(req[r]) => value \in Gone
      /\ ~config.soft /\ Deletes(req[r]) => value = "absent"
      /\ config.adapter # "typeorm" /\ rows[i] \in Gone /\ req[r].op # "create" => value \in Gone
      /\ config.adapter # "typeorm" /\ rows[i] = "absent" /\ req[r].op # "create" =>
           value = "absent"
  BY WrittenType
<1> DEFINE effect == [by |-> r, id |-> i,
                      kind |-> IF value = "absent" THEN "removed" ELSE "written"]
<1>3. /\ rows' \in [Ids -> {"absent", "live", "archived"}]
      /\ rows'[i] = value /\ \A j \in Ids \ {i} : rows'[j] = rows[j]
      /\ effects' = IF rows[i] = "absent" /\ value = "absent" THEN effects
                    ELSE effects \cup {effect}
  BY <1>2 DEF Put, Inv, TypeOK
<1>4. i \in req[r].ids
  BY DEF Inv, AllShaped, Shaped, Writes
<1> HIDE DEF value
<1>5. /\ effect.by = r /\ effect.id = i
      /\ effect.kind = "removed" <=> value = "absent"
      /\ effect \in [by : Requests, id : Ids, kind : {"written", "removed"}]
      /\ value = "absent" => effect = Removal(r, i)
  BY DEF Removal
<1> HIDE DEF effect
<1>6. effects \subseteq effects' /\ \A e \in effects' : e \in effects \/ e = effect
  BY <1>3
<1>7. req[r].op = "create" =>
        /\ rows[i] = "absent" /\ \A e \in effects : e.id # i
        /\ \A p \in Requests \ {r} : i \notin req[p].ids
  BY DEF Inv, CreatedIsNew
<1>8. TypeOK'
  BY <1>1, <1>3, <1>5, <1>6 DEF Inv, TypeOK
<1>9. AllShaped'
  BY <1>1 DEF Inv, AllShaped, Shaped, Deletes, Orm
<1>10. CreatedIsNew'
  <2>1. SUFFICES ASSUME NEW p \in Requests, NEW j \in Ids,
                        req'[p].op = "create", req'[p].at[j] \in Writes
                 PROVE  /\ rows'[j] = "absent"
                        /\ \A e \in effects' : e.id # j
                        /\ \A o \in Requests \ {p} : j \notin req'[o].ids
    BY DEF CreatedIsNew
  <2>2. j # i
    BY <1>1, <1>4, <2>1 DEF Inv, CreatedIsNew
  <2>3. req[p].op = "create" /\ req[p].at[j] \in Writes
    BY <1>1, <2>1, <2>2
  <2>4. /\ rows[j] = "absent" /\ \A e \in effects : e.id # j
        /\ \A o \in Requests \ {p} : j \notin req[o].ids
    BY <2>3 DEF Inv, CreatedIsNew
  <2>5. QED BY <1>1, <1>3, <1>5, <1>6, <2>2, <2>4
<1>11. Deleting(q) => Deleting(req[r])
  BY DEF Deleting, Deletes, Writes
<1>12. AnsweredAreGone'
  <2>1. SUFFICES ASSUME config.adapter # "typeorm", NEW p \in Requests,
                        Deleting(req'[p]), req'[p].pc \in {"work", "audit"},
                        NEW j \in req'[p].ids, req'[p].at[j] = "none"
                 PROVE  rows'[j] \in Gone
    BY DEF AnsweredAreGone, Gone, Deleting, Deletes
  <2>2. j \in Ids
    BY <1>1, <2>1 DEF Request
  <2>3. CASE p = r /\ j = i
    BY <1>1, <1>2, <1>3, <2>1, <2>3 DEF Deleting, Deletes
  <2>4. CASE p = r /\ j # i
    <3>1. /\ Deleting(req[r]) /\ req[r].pc \in {"work", "audit"}
          /\ j \in req[r].ids /\ req[r].at[j] = "none"
      BY <1>1, <1>11, <2>1, <2>2, <2>4
    <3>2. QED BY <1>3, <2>1, <2>2, <2>4, <3>1 DEF Inv, AnsweredAreGone
  <2>5. CASE p # r
    <3>1. rows[j] \in Gone
      BY <1>1, <2>1, <2>5 DEF Inv, AnsweredAreGone
    <3>2. QED BY <1>1, <1>2, <1>3, <1>7, <2>1, <2>2, <2>5, <3>1
  <2>6. QED BY <2>3, <2>4, <2>5
<1>13. AnsweredAreClaimed'
  <2>1. SUFFICES ASSUME config.adapter = "prisma", ~config.soft, NEW p \in Requests,
                        Deleting(req'[p]),
                        NEW j \in req'[p].ids, req'[p].at[j] = "none"
                 PROVE  Removal(p, j) \in effects'
    BY DEF AnsweredAreClaimed, Deleting, Deletes, Removal
  <2>2. j \in Ids
    BY <1>1, <2>1 DEF Request
  <2>3. CASE p = r /\ j = i
    <3>1. Deletes(req[r]) /\ req[r].op # "create"
      BY <1>1, <2>1, <2>3 DEF Deleting, Deletes
    <3>2. rows[i] # "absent" /\ value = "absent"
      BY <1>2, <2>1, <3>1 DEF WriteRejects
    <3>3. QED BY <1>3, <1>5, <2>3, <3>2
  <2>4. CASE p = r /\ j # i
    BY <1>1, <1>6, <1>11, <2>1, <2>2, <2>4 DEF Inv, AnsweredAreClaimed
  <2>5. CASE p # r
    BY <1>1, <1>6, <2>1, <2>5 DEF Inv, AnsweredAreClaimed
  <2>6. QED BY <2>3, <2>4, <2>5
<1>14. RemovedStaysRemoved'
  <2>1. SUFFICES ASSUME config.adapter # "typeorm", NEW e \in effects', e.kind = "removed"
                 PROVE  rows'[e.id] = "absent"
    BY DEF RemovedStaysRemoved
  <2>2. CASE e \in effects
    <3>1. rows[e.id] = "absent" /\ e.id \in Ids
      BY <2>1, <2>2 DEF Inv, RemovedStaysRemoved, TypeOK
    <3>2. QED BY <1>2, <1>3, <1>7, <2>1, <2>2, <3>1
  <2>3. CASE e = effect
    BY <1>3, <1>5, <2>1, <2>3
  <2>4. QED BY <1>6, <2>2, <2>3
<1>15. RemovedOnce'
  <2>1. SUFFICES ASSUME config.adapter # "typeorm", NEW e \in effects', NEW f \in effects',
                        e.kind = "removed", f.kind = "removed", e.id = f.id
                 PROVE  e.by = f.by
    BY DEF RemovedOnce
  <2>2. effect \in effects' /\ effect.kind = "removed" =>
          effect \in effects \/ \A g \in effects : g.kind = "removed" => g.id # i
    BY <1>3, <1>5, <2>1 DEF Inv, RemovedStaysRemoved
  <2>3. QED BY <1>5, <1>6, <2>1, <2>2 DEF Inv, RemovedOnce
<1>16. Audited'
  BY <1>1 DEF Inv, Audited
<1>17. QED BY <1>8, <1>9, <1>10, <1>12, <1>13, <1>14, <1>15, <1>16 DEF Inv

LEMMA WriteInv ==
  ASSUME Inv, NEW r \in Requests, NEW i \in Ids, Write(r, i)
  PROVE  Inv'
<1>1. /\ Shaped(req[r]) /\ req[r].at[i] \in Writes /\ req[r].at[i] # "none"
      /\ req[r].pc \in {"work", "error"}
  BY CalledShape DEF Write, Writes
<1>2. CASE WriteRejects(req[r], i)
  BY <1>1, <1>2, RejectInv DEF Write
<1>3. CASE ~WriteRejects(req[r], i) /\ Orm /\ ~Deletes(req[r])
  <2> DEFINE q == [req[r] EXCEPT !.at[i] = "reload"]
  <2>1. "reload" \in Stages
    BY DEF Stages
  <2>2. /\ Shaped(q) /\ q.op = req[r].op /\ q.ids = req[r].ids /\ q.pc = req[r].pc
        /\ q.at = [req[r].at EXCEPT ![i] = "reload"]
    BY <1>1, <1>3, <2>1, StageShaped
  <2>3. Become(r, q) /\ Put(r, i, Written(req[r], i))
    BY <1>3 DEF Write, AfterWrite
  <2> HIDE DEF q
  <2>4. q.at[i] = "reload" /\ \A j \in Ids \ {i} : q.at[j] = req[r].at[j]
    BY <1>1, <2>2 DEF Shaped, Request
  <2>5. q.at[i] \notin Writes
    BY <2>4 DEF Writes
  <2>6. QED BY <1>1, <1>3, <2>2, <2>3, <2>4, <2>5, WriteStep DEF Write
<1>4. CASE ~WriteRejects(req[r], i) /\ ~(Orm /\ ~Deletes(req[r]))
  <2> DEFINE d == [req[r] EXCEPT !.at[i] = "none"]
             q == Settle(d)
  <2>1. /\ Shaped(d) /\ d.op = req[r].op /\ d.ids = req[r].ids /\ d.pc = req[r].pc
        /\ d.at = [req[r].at EXCEPT ![i] = "none"]
    BY <1>1, DropShaped
  <2>2. d.at[i] = "none" /\ \A j \in Ids \ {i} : d.at[j] = req[r].at[j]
    BY <1>1, <2>1 DEF Shaped, Request
  <2>3. Become(r, q) /\ Put(r, i, Written(req[r], i))
    BY <1>4 DEF Write, AfterWrite
  <2> HIDE DEF d
  <2>4. /\ Shaped(q) /\ q.op = req[r].op /\ q.ids = req[r].ids /\ q.at = d.at
        /\ q.pc = req[r].pc \/ (req[r].pc = "work" /\ q.pc = "audit")
    BY <2>1, SettleShaped
  <2> HIDE DEF q
  <2>5. q.at[i] \notin Writes
    BY <2>2, <2>4 DEF Writes
  <2>6. QED BY <1>1, <1>4, <2>2, <2>3, <2>4, <2>5, WriteStep DEF Write
<1>5. QED BY <1>2, <1>3, <1>4

(* A call rejects by itself: a write among them may have taken effect.     *)
LEMMA CallFailsInv ==
  ASSUME Inv, NEW r \in Requests, NEW i \in Ids, CallFails(r, i)
  PROVE  Inv'
<1>1. Shaped(req[r]) /\ req[r].at[i] # "none"
  BY CalledShape DEF CallFails
<1>2. CASE UNCHANGED <<rows, effects>>
  BY <1>1, <1>2, RejectInv DEF CallFails
<1>3. CASE /\ req[r].at[i] \in Writes /\ ~WriteRejects(req[r], i)
           /\ Put(r, i, Written(req[r], i))
  <2> DEFINE q == Reject(req[r], i)
  <2>1. /\ Shaped(q) /\ q.op = req[r].op /\ q.ids = req[r].ids /\ q.pc = "error"
    BY <1>1, RejectShaped
  <2>2. q.at[i] = "none" /\ \A j \in Ids \ {i} : q.at[j] = req[r].at[j]
    <3>1. q = [req[r] EXCEPT !.pc = IF req[r].pc = "work" THEN "error" ELSE req[r].pc,
                             !.at = [req[r].at EXCEPT ![i] = "none"]]
      BY <1>3 DEF Reject, Writes
    <3>2. q.at = [req[r].at EXCEPT ![i] = "none"]
      BY <1>1, <3>1 DEF Shaped, Request
    <3>3. QED BY <1>1, <3>2 DEF Shaped, Request
  <2>3. Become(r, q)
    BY DEF CallFails
  <2> HIDE DEF q
  <2>4. q.at[i] \notin Writes
    BY <2>2 DEF Writes
  <2>5. QED BY <1>3, <2>1, <2>2, <2>3, <2>4, WriteStep DEF CallFails
<1>4. QED BY <1>2, <1>3 DEF CallFails

(* The process dies with the requests it has not answered.                 *)
LEMMA CrashInv ==
  ASSUME Inv, Crash
  PROVE  Inv'
<1>1. /\ UNCHANGED <<config, rows, audit, effects>>
      /\ req' \in [Requests -> Request]
      /\ \A r \in Requests :
           /\ req'[r].op = req[r].op /\ req'[r].ids = req[r].ids
           /\ \/ req'[r] = req[r]
              \/ req'[r].pc = "error" /\ req'[r].at = Quiet
  <2> DEFINE dead(q) == [q EXCEPT !.pc = "error", !.at = Quiet]
  <2>1. req' = [r \in Requests |-> IF req[r].pc \in {"new", "ok"} THEN req[r] ELSE dead(req[r])]
    BY DEF Crash
  <2>2. \A r \in Requests : req[r] \in Request
    BY DEF Inv, TypeOK
  <2>3. \A q \in Request :
          /\ dead(q) \in Request /\ dead(q).op = q.op /\ dead(q).ids = q.ids
          /\ dead(q).pc = "error" /\ dead(q).at = Quiet
    BY QuietType DEF Request, Pc
  <2>4. UNCHANGED <<config, rows, audit, effects>>
    BY DEF Crash
  <2> HIDE DEF dead
  <2>5. \A r \in Requests : req'[r] = req[r] \/ req'[r] = dead(req[r])
    BY <2>1
  <2>6. req' \in [Requests -> Request]
    BY <2>1, <2>2, <2>3
  <2>7. QED BY <2>2, <2>3, <2>4, <2>5, <2>6
<1>2. TypeOK'
  BY <1>1 DEF Inv, TypeOK
<1>3. AllShaped'
  BY <1>1, QuietType DEF Inv, AllShaped, Shaped, Deletes, Orm
<1>4. CreatedIsNew'
  BY <1>1, QuietType DEF Inv, CreatedIsNew, Writes
<1>5. AnsweredAreGone' /\ AnsweredAreClaimed'
  BY <1>1 DEF Inv, AnsweredAreGone, AnsweredAreClaimed, Gone, Deleting, Deletes, Removal
<1>6. RemovedStaysRemoved' /\ RemovedOnce' /\ Audited'
  BY <1>1 DEF Inv, RemovedStaysRemoved, RemovedOnce, Audited
<1>7. QED BY <1>2, <1>3, <1>4, <1>5, <1>6 DEF Inv

LEMMA InitInv == Init => Inv
<1> SUFFICES ASSUME Init PROVE Inv
  OBVIOUS
<1> DEFINE first == [pc |-> "new", op |-> "none", ids |-> {}, at |-> Quiet]
<1>1. first \in Request /\ \A r \in Requests : req[r] = first
  BY QuietType DEF Init, Request, Pc
<1>2. TypeOK
  BY <1>1 DEF Init, TypeOK
<1>3. AllShaped
  BY <1>1, QuietType DEF AllShaped, Shaped, Singles
<1>4. CreatedIsNew /\ AnsweredAreGone /\ AnsweredAreClaimed /\ Audited
  BY <1>1 DEF CreatedIsNew, AnsweredAreGone, AnsweredAreClaimed, Deleting, Deletes, Audited
<1>5. RemovedStaysRemoved /\ RemovedOnce
  BY DEF Init, RemovedStaysRemoved, RemovedOnce
<1>6. QED BY <1>2, <1>3, <1>4, <1>5 DEF Inv

LEMMA StutterInv == Inv /\ UNCHANGED vars => Inv'
BY DEF Inv, vars, TypeOK, AllShaped, Shaped, CreatedIsNew, AnsweredAreGone, Gone,
       AnsweredAreClaimed, Removal, RemovedStaysRemoved, RemovedOnce, Audited,
       Deleting, Deletes, Orm

LEMMA NextInv == Inv /\ [Next]_vars => Inv'
<1> SUFFICES ASSUME Inv, [Next]_vars PROVE Inv'
  OBVIOUS
<1>1. ASSUME NEW r \in Requests, Step(r) PROVE Inv'
  BY <1>1, StartInv, RefuseInv, PreparedInv, RecordAuditInv, RereadInv, FindInv,
     LoadInv, WriteInv, ReloadInv DEF Step
<1>2. ASSUME NEW r \in Requests, Fault(r) PROVE Inv'
  BY <1>2, AnswerFailsInv, CallFailsInv DEF Fault
<1>3. CASE Crash
  BY <1>3, CrashInv
<1>4. CASE UNCHANGED vars
  BY <1>4, StutterInv
<1>5. QED BY <1>1, <1>2, <1>3, <1>4 DEF Next

(* The invariant holds of every adapter, with faults and without.          *)
THEOREM Invariance == Spec => []Inv
BY InitInv, NextInv, PTL DEF Spec

-----------------------------------------------------------------------------
(* The properties.                                                         *)

(* Variables and requests keep their types through every operation.        *)
THEOREM TypeCorrect == Spec => []TypeOK
BY Invariance, PTL DEF Inv

(* An operation that answered success (create to runBulkAction of          *)
(* admin.service.ts) is in the audit log and awaits nothing any more.      *)
THEOREM SuccessIsComplete == Spec => []OkIsComplete
<1>1. Inv => OkIsComplete
  <2>1. ASSUME Inv, NEW r \in Requests, req[r].pc = "ok"
        PROVE  req[r].at = Quiet
    <3>1. req[r].at \in [Ids -> Stages] /\ \A i \in Ids : req[r].at[i] = "none"
      BY <2>1 DEF Inv, TypeOK, AllShaped, Shaped, Request
    <3>2. QED BY <3>1 DEF Quiet
  <2>2. QED BY <2>1 DEF Inv, OkIsComplete, Audited
<1>2. QED BY <1>1, Invariance, PTL

(* No update, action or bulk action of an adapter but TypeORM's brings a   *)
(* row back that was removed after it was read.                            *)
THEOREM RemovalsAreFinal == Spec => []RemovedStaysRemoved
BY Invariance, PTL DEF Inv

(* With Prisma, two successful hard deletes never both count one row.      *)
THEOREM DeletesAddUp == Spec => []RowsDeletedOnce
<1>1. Inv => RowsDeletedOnce
  <2>1. SUFFICES ASSUME Inv, config.adapter = "prisma", ~config.soft,
                        NEW q \in Requests, NEW r \in Requests,
                        req[q].pc = "ok", Deletes(req[q]), req[r].pc = "ok", Deletes(req[r]),
                        q # r, NEW i \in req[q].ids, i \in req[r].ids
                 PROVE  FALSE
    BY DEF RowsDeletedOnce
  <2>2. i \in Ids
    BY <2>1 DEF Inv, TypeOK, Request
  <2>3. \A p \in {q, r} : Deleting(req[p]) /\ req[p].at[i] = "none"
    BY <2>1, <2>2 DEF Inv, AllShaped, Shaped, Deleting
  <2>4. Removal(q, i) \in effects /\ Removal(r, i) \in effects
    BY <2>1, <2>3 DEF Inv, AnsweredAreClaimed
  <2>5. QED BY <2>1, <2>4 DEF Inv, RemovedOnce, Removal
<1>2. QED BY <1>1, Invariance, PTL

(* A delete or soft delete is recorded when its rows are gone or archived, *)
(* for every adapter but TypeORM.                                          *)
THEOREM DeletesPrecedeTheirEntries == Spec => RecordedDeletesAreGone
<1>1. Inv /\ [Next]_vars =>
        [\A e \in audit' \ audit :
           e.action \in {"remove", "bulkRemove"} /\ config.adapter # "typeorm" =>
             \A i \in e.ids :
               rows[i] \in {"absent"} \cup (IF config.soft THEN {"archived"} ELSE {})]_vars
  <2> SUFFICES ASSUME Inv, Next, NEW e \in audit' \ audit,
                      e.action \in {"remove", "bulkRemove"}, config.adapter # "typeorm",
                      NEW i \in e.ids
               PROVE  rows[i] \in Gone
    BY DEF Gone
  <2>1. PICK r \in Requests : RecordAudit(r) \/ AnswerFails(r)
    BY DEF Next, Step, Fault, Start, Refuse, Prepared, Reread, Find, Load, Write, Reload,
           CallFails, Crash
  <2>2. /\ req[r].pc = "audit"
        /\ e = [by |-> r, action |-> req[r].op, ids |-> req[r].ids]
    BY <2>1 DEF RecordAudit, AnswerFails, Recorded
  <2>3. Shaped(req[r]) /\ i \in req[r].ids /\ i \in Ids
    BY <2>2 DEF Inv, AllShaped, Shaped, Request
  <2>4. Deleting(req[r]) /\ req[r].at[i] = "none"
    BY <2>2, <2>3 DEF Shaped, Deleting, Deletes
  <2>5. QED BY <2>2, <2>3, <2>4 DEF Inv, AnsweredAreGone
<1>2. QED BY <1>1, Invariance, PTL DEF Spec, RecordedDeletesAreGone

-----------------------------------------------------------------------------
(* The review before a delete: DeleteReview.                               *)

Links(rs) == {l \in Linkers : \E r \in rs : <<r, l>> \in many}

One  == [r \in Roots |-> Linkers1(r)]
Many == [r \in Roots |-> LinkersM(r)]

(* A list taken root by root, as far as the roots in rs.                   *)
Shows(shown, rs, linked) ==
  /\ shown \subseteq UNION {linked[r] : r \in rs}
  /\ \A r \in rs : Cardinality(shown \cap linked[r]) >= Min({PageSize, Cardinality(linked[r])})

(* What the page has to do with the history.                               *)
Staged ==
  /\ stage = "closed" => ~changed /\ removal.pc = "none" /\ summary = NoSummary
  /\ removal.pc # "none" => stage \in {"shown", "left", "error"}
  /\ removal.pc = "none" => removal.todo = {}
  /\ removal.todo \subseteq asked
  /\ stage \in {"roots", "one", "many"} => todo \subseteq asked
  /\ stage = "related" => todo \subseteq summary.own

(* What only others do.                                                    *)
Untouched ==
  ~changed =>
    /\ \A l \in Linkers : state[l] # "gone"
    /\ \A r \in Roots : removal.pc = "none" \/ r \in removal.todo => state[r] = "there"

(* What has been read is what is there, as far as it has been read.        *)
Progress ==
  ~changed /\ removal.pc = "none" =>
    /\ stage = "roots" =>
         summary = [NoSummary EXCEPT !.own = Links(asked \ todo)]
    /\ stage \in {"related", "one", "many"} => ~store.soft
    /\ stage \in {"related", "one", "many", "shown"} => summary.own = Links(asked)
    /\ stage = "related" =>
         /\ summary.related = summary.own \ todo
         /\ summary.related # {} => summary.count = Cardinality(summary.own)
         /\ summary.blocked = {} /\ summary.disconnect = {}
    /\ stage \in {"one", "many", "shown"} /\ ~store.soft =>
         summary.related = summary.own /\ summary.count = Cardinality(summary.own)
    /\ stage = "one" => Shows(summary.blocked, asked \ todo, One) /\ summary.disconnect = {}
    /\ stage = "many" =>
         Shows(summary.blocked, asked, One) /\ Shows(summary.disconnect, asked \ todo, Many)
    /\ stage = "shown" /\ ~store.soft =>
         Shows(summary.blocked, asked, One) /\ Shows(summary.disconnect, asked, Many)
    /\ stage = "shown" /\ store.soft =>
         summary.related = {} /\ summary.blocked = {} /\ summary.disconnect = {}

(* The button was there because nobody visible links to what is deleted.   *)
Confirmed ==
  ~changed /\ removal.pc # "none" /\ ~store.soft =>
    \A r \in asked : Linkers1(r) = {}

ReviewInv ==
  /\ ReviewTypeOK
  /\ Staged
  /\ Untouched
  /\ Progress
  /\ Confirmed
  /\ RefusalsAreExplained

-----------------------------------------------------------------------------
(* Pages of finite sets.                                                   *)

LEMMA MinOfTwo ==
  ASSUME NEW a \in Nat, NEW b \in Nat
  PROVE  Min({a, b}) = IF b < a THEN b ELSE a
BY DEF Min

LEMMA LinkersFinite ==
  ASSUME NEW S \in SUBSET Linkers
  PROVE  IsFiniteSet(S) /\ Cardinality(S) \in Nat
BY FiniteAssumption, FS_Subset, FS_CardinalityType

(* A page is as long as it can be.                                         *)
LEMMA PageLength ==
  ASSUME NEW linked \in SUBSET Linkers, NEW items \in PagesOf(linked)
  PROVE  items \subseteq linked /\ Cardinality(items) = Min({PageSize, Cardinality(linked)})
<1>1. Cardinality(linked) \in Nat /\ PageSize \in Nat
  BY LinkersFinite, BoundAssumption
<1>2. QED BY <1>1, MinOfTwo DEF PagesOf, kSubset

(* The page of one more root.                                              *)
LEMMA ShowsMore ==
  ASSUME NEW linked \in [Roots -> SUBSET Linkers], NEW rs \in SUBSET Roots, NEW r \in Roots,
         NEW shown \in SUBSET Linkers, Shows(shown, rs, linked),
         NEW items \in PagesOf(linked[r])
  PROVE  Shows(shown \cup items, rs \cup {r}, linked)
<1>1. items \subseteq linked[r] /\ Cardinality(items) = Min({PageSize, Cardinality(linked[r])})
  BY PageLength
<1>2. shown \cup items \subseteq UNION {linked[x] : x \in rs \cup {r}}
  BY <1>1 DEF Shows
<1>3. ASSUME NEW x \in rs \cup {r}
      PROVE  Cardinality((shown \cup items) \cap linked[x]) >= Min({PageSize, Cardinality(linked[x])})
  <2> DEFINE now == (shown \cup items) \cap linked[x]
             before == IF x = r THEN items ELSE shown \cap linked[x]
  <2>1. /\ now \in SUBSET Linkers /\ before \in SUBSET now
        /\ Cardinality(linked[x]) \in Nat
    BY <1>1, LinkersFinite
  <2>2. Cardinality(before) >= Min({PageSize, Cardinality(linked[x])})
    <3>1. CASE x = r
      <4>1. Cardinality(linked[r]) \in Nat /\ PageSize \in Nat
        BY LinkersFinite, BoundAssumption
      <4>2. QED BY <1>1, <3>1, <4>1, MinOfTwo
    <3>2. CASE x # r
      BY <3>2 DEF Shows
    <3>3. QED BY <3>1, <3>2
  <2> HIDE DEF now, before
  <2>3. IsFiniteSet(now) /\ Cardinality(now) \in Nat /\ Cardinality(before) \in Nat
    BY <2>1, LinkersFinite
  <2>4. Cardinality(before) <= Cardinality(now)
    BY <2>1, <2>3, FS_Subset
  <2>5. Min({PageSize, Cardinality(linked[x])}) \in Nat
    BY <2>1, BoundAssumption, MinOfTwo
  <2>6. Cardinality(now) >= Min({PageSize, Cardinality(linked[x])})
    BY <2>2, <2>3, <2>4, <2>5
  <2>7. QED BY <2>6 DEF now
<1>4. QED BY <1>2, <1>3 DEF Shows

LEMMA ShowsNothing ==
  ASSUME NEW linked
  PROVE  Shows({}, {}, linked)
BY DEF Shows

(* An empty list that is complete says that there is nothing.              *)
LEMMA NothingShown ==
  ASSUME NEW linked \in [Roots -> SUBSET Linkers], NEW rs \in SUBSET Roots,
         Shows({}, rs, linked), NEW r \in rs
  PROVE  linked[r] = {}
<1>1. IsFiniteSet(linked[r]) /\ Cardinality(linked[r]) \in Nat
  BY LinkersFinite
<1>2. Cardinality({} \cap linked[r]) = 0
  <2>1. {} \cap linked[r] = {}
    OBVIOUS
  <2>2. QED BY <2>1, FS_EmptySet
<1>3. 0 >= Min({PageSize, Cardinality(linked[r])})
  BY <1>2 DEF Shows
<1>4. Cardinality(linked[r]) = 0
  BY <1>1, <1>3, MinOfTwo, BoundAssumption
<1>5. QED BY <1>1, <1>4, FS_EmptySet

LEMMA LinkedType ==
  One \in [Roots -> SUBSET Linkers] /\ Many \in [Roots -> SUBSET Linkers]
BY DEF One, Many, Linkers1, LinkersM

(* What the lists are of does not change while the tables do not.          *)
LEMMA SameLinks ==
  ASSUME UNCHANGED data
  PROVE  /\ One' = One /\ Many' = Many
         /\ \A rs : Links(rs)' = Links(rs)
         /\ \A r : Linkers1(r)' = Linkers1(r)
BY DEF data, One, Many, Linkers1, LinkersM, Links, Visible

-----------------------------------------------------------------------------
(* Every action keeps the invariant.                                       *)

LEMMA OpenInv ==
  ASSUME ReviewInv, NEW ids \in SUBSET Roots, Open(ids)
  PROVE  ReviewInv'
<1>1. ReviewTypeOK'
  BY DEF ReviewInv, ReviewTypeOK, Open, data
<1>2. /\ removal.pc = "none" /\ removal.todo = {} /\ summary = NoSummary /\ ~changed
      /\ UNCHANGED <<store, state, one, many, summary, removal>>
      /\ asked' = ids /\ todo' = ids /\ stage' = "roots" /\ changed' = FALSE
  BY DEF ReviewInv, Staged, Open, data
<1>3. Staged' /\ Untouched' /\ Confirmed' /\ RefusalsAreExplained'
  BY <1>2 DEF ReviewInv, Staged, Untouched, Confirmed, RefusalsAreExplained
<1>4. Progress'
  <2>1. Links(asked \ todo)' = {}
    BY <1>2 DEF Links
  <2>2. summary' = [NoSummary EXCEPT !.own = {}]
    BY <1>2 DEF NoSummary
  <2>3. QED BY <1>2, <2>1, <2>2 DEF Progress
<1>5. QED BY <1>1, <1>3, <1>4 DEF ReviewInv

(* What an answer leaves to do.                                            *)
LEMMA AnsweredCases ==
  ASSUME NEW x \in todo, NEW next, NEW nextTodo, Answered(x, next, nextTodo)
  PROVE  \/ todo = {x} /\ stage' = next /\ todo' = nextTodo
         \/ todo # {x} /\ stage' = stage /\ todo' = todo \ {x}
BY DEF Answered

(* The reads leave alone all but the page.                                 *)
LEMMA ReadFrame ==
  ASSUME ReviewInv, UNCHANGED <<store, data, asked, removal, others>>,
         stage \in {"roots", "related", "one", "many"}
  PROVE  /\ UNCHANGED <<store, state, one, many, asked, removal, changes, changed>>
         /\ One' = One /\ Many' = Many /\ \A rs : Links(rs)' = Links(rs)
         /\ removal.pc = "none"
         /\ Untouched' /\ Confirmed' /\ RefusalsAreExplained'
<1>1. UNCHANGED <<store, state, one, many, asked, removal, changes, changed>> /\ UNCHANGED data
  BY DEF data, others
<1>2. QED BY <1>1, SameLinks DEF ReviewInv, Staged, Untouched, Confirmed, RefusalsAreExplained,
                                 Linkers1, Visible

LEMMA ReadRootInv ==
  ASSUME ReviewInv, NEW r \in Roots, ReadRoot(r)
  PROVE  ReviewInv'
<1> DEFINE own == summary.own \cup {l \in Linkers : <<r, l>> \in many}
<1>1. /\ UNCHANGED <<store, state, one, many, asked, removal, changes, changed>>
      /\ One' = One /\ Many' = Many /\ \A rs : Links(rs)' = Links(rs)
      /\ removal.pc = "none"
      /\ Untouched' /\ Confirmed' /\ RefusalsAreExplained'
      /\ stage = "roots" /\ r \in todo
  BY ReadFrame DEF ReadRoot
<1>2. CASE ~NotGone(r)
  <2>1. stage' = "error" /\ todo' = {} /\ summary' = summary
    BY <1>2 DEF ReadRoot
  <2>2. ReviewTypeOK' /\ Staged' /\ Progress'
    BY <1>1, <2>1 DEF ReviewInv, ReviewTypeOK, Staged, Progress
  <2>3. QED BY <1>1, <2>2 DEF ReviewInv
<1>3. CASE NotGone(r)
  <2> DEFINE next == IF store.soft THEN "shown" ELSE IF own = {} THEN "one" ELSE "related"
             nextTodo == IF store.soft THEN {} ELSE IF own = {} THEN asked ELSE own
  <2>1. summary' = [summary EXCEPT !.own = own] /\ Answered(r, next, nextTodo)
    BY <1>3 DEF ReadRoot
  <2>2. \/ todo = {r} /\ stage' = next /\ todo' = nextTodo
        \/ todo # {r} /\ stage' = stage /\ todo' = todo \ {r}
    BY <1>1, <2>1, AnsweredCases
  <2>3. own \in SUBSET Linkers /\ summary.own \in SUBSET Linkers
    BY DEF ReviewInv, ReviewTypeOK
  <2>4. /\ summary'.own = own /\ summary'.related = summary.related
        /\ summary'.count = summary.count /\ summary'.blocked = summary.blocked
        /\ summary'.disconnect = summary.disconnect
    BY <2>1 DEF ReviewInv, ReviewTypeOK
  <2>5. ReviewTypeOK'
    BY <1>1, <2>1, <2>2, <2>3 DEF ReviewInv, ReviewTypeOK
  <2>6. Staged'
    BY <1>1, <2>2, <2>4 DEF ReviewInv, Staged, ReviewTypeOK
  <2>7. Progress'
    <3>1. SUFFICES ASSUME ~changed
                   PROVE  Progress'
      BY <1>1 DEF Progress
    <3>2. summary = [NoSummary EXCEPT !.own = Links(asked \ todo)]
      BY <1>1, <3>1 DEF ReviewInv, Progress
    <3>3. own = Links((asked \ todo) \cup {r})
      BY <3>2 DEF Links, NoSummary
    <3>4. (asked \ todo) \cup {r} = asked \ (todo \ {r})
      BY <1>1 DEF ReviewInv, Staged
    <3>5. summary' = [NoSummary EXCEPT !.own = own]
      BY <2>1, <3>2 DEF NoSummary
    <3>6. /\ summary'.related = {} /\ summary'.count = 0
          /\ summary'.blocked = {} /\ summary'.disconnect = {}
      BY <3>5 DEF NoSummary
    <3>7. CASE todo # {r}
      BY <1>1, <2>2, <3>3, <3>4, <3>5, <3>7 DEF Progress
    <3>8. CASE todo = {r}
      <4>1. own = Links(asked)
        BY <1>1, <3>3, <3>8 DEF ReviewInv, Staged
      <4>2. Shows({}, {}, One)
        BY ShowsNothing
      <4>3. Cardinality({}) = 0
        BY FS_EmptySet
      <4>4. asked \ asked = {}
        OBVIOUS
      <4>5. stage' = next /\ todo' = nextTodo
        BY <2>2, <3>8
      <4> HIDE DEF own
      <4>6. CASE store.soft
        BY <1>1, <2>4, <3>6, <4>1, <4>5, <4>6 DEF Progress
      <4>7. CASE ~store.soft /\ own = {}
        BY <1>1, <2>4, <3>6, <4>1, <4>2, <4>3, <4>4, <4>5, <4>7 DEF Progress
      <4>8. CASE ~store.soft /\ own # {}
        BY <1>1, <2>4, <3>6, <4>1, <4>5, <4>8 DEF Progress
      <4>9. QED BY <4>6, <4>7, <4>8
    <3>9. QED BY <3>7, <3>8
  <2>8. QED BY <1>1, <2>5, <2>6, <2>7 DEF ReviewInv
<1>4. QED BY <1>2, <1>3

LEMMA ReadRelatedInv ==
  ASSUME ReviewInv, NEW l \in Linkers, ReadRelated(l)
  PROVE  ReviewInv'
<1>1. /\ UNCHANGED <<store, state, one, many, asked, removal, changes, changed>>
      /\ One' = One /\ Many' = Many /\ \A rs : Links(rs)' = Links(rs)
      /\ removal.pc = "none"
      /\ Untouched' /\ Confirmed' /\ RefusalsAreExplained'
      /\ stage = "related" /\ l \in todo
  BY ReadFrame DEF ReadRelated
<1>2. \/ todo = {l} /\ stage' = "one" /\ todo' = asked
      \/ todo # {l} /\ stage' = stage /\ todo' = todo \ {l}
  BY <1>1, AnsweredCases DEF ReadRelated
<1>3. summary.own \in SUBSET Linkers /\ Cardinality(summary.own) \in Nat
  BY LinkersFinite DEF ReviewInv, ReviewTypeOK
<1> DEFINE related == IF NotGone(l) THEN summary.related \cup {l} ELSE summary.related
<1>4. /\ summary' = [summary EXCEPT !.related = related, !.count = Cardinality(summary.own)]
  BY DEF ReadRelated
<1>5. /\ summary'.own = summary.own /\ summary'.related = related
      /\ summary'.count = Cardinality(summary.own) /\ summary'.blocked = summary.blocked
      /\ summary'.disconnect = summary.disconnect
  BY <1>4 DEF ReviewInv, ReviewTypeOK
<1>6. ReviewTypeOK'
  BY <1>1, <1>2, <1>3, <1>4 DEF ReviewInv, ReviewTypeOK
<1>7. Staged'
  BY <1>1, <1>2, <1>5 DEF ReviewInv, Staged
<1>8. Progress'
  <2>1. SUFFICES ASSUME ~changed
                 PROVE  Progress'
    BY <1>1 DEF Progress
  <2>2. /\ ~store.soft /\ summary.own = Links(asked) /\ summary.related = summary.own \ todo
        /\ summary.blocked = {} /\ summary.disconnect = {}
    BY <1>1, <2>1 DEF ReviewInv, Progress
  <2>3. related = (summary.own \ todo) \cup {l} /\ todo \subseteq summary.own
    BY <1>1, <2>1, <2>2 DEF ReviewInv, Untouched, NotGone, Staged
  <2>4. related = summary.own \ (todo \ {l})
    BY <1>1, <2>3
  <2> HIDE DEF related
  <2>5. CASE todo # {l}
    BY <1>1, <1>2, <1>5, <2>2, <2>4, <2>5 DEF Progress
  <2>6. CASE todo = {l}
    <3>1. related = summary.own
      BY <2>4, <2>6
    <3>2. Shows({}, {}, One) /\ asked \ asked = {}
      BY ShowsNothing
    <3>3. QED BY <1>1, <1>2, <1>5, <2>2, <2>6, <3>1, <3>2 DEF Progress
  <2>7. QED BY <2>5, <2>6
<1>9. QED BY <1>1, <1>6, <1>7, <1>8 DEF ReviewInv

LEMMA ReadOneInv ==
  ASSUME ReviewInv, NEW r \in Roots, ReadOne(r)
  PROVE  ReviewInv'
<1>1. /\ UNCHANGED <<store, state, one, many, asked, removal, changes, changed>>
      /\ One' = One /\ Many' = Many /\ \A rs : Links(rs)' = Links(rs)
      /\ removal.pc = "none"
      /\ Untouched' /\ Confirmed' /\ RefusalsAreExplained'
      /\ stage = "one" /\ r \in todo
  BY ReadFrame DEF ReadOne
<1>2. \/ todo = {r} /\ stage' = "many" /\ todo' = asked
      \/ todo # {r} /\ stage' = stage /\ todo' = todo \ {r}
  BY <1>1, AnsweredCases DEF ReadOne
<1>3. PICK items \in PagesOf(One[r]) : summary' = [summary EXCEPT !.blocked = @ \cup items]
  BY DEF ReadOne, One, Linkers1
<1>4. One[r] \in SUBSET Linkers /\ items \subseteq One[r]
  BY <1>3, LinkedType, PageLength
<1>5. /\ summary'.own = summary.own /\ summary'.related = summary.related
      /\ summary'.count = summary.count /\ summary'.blocked = summary.blocked \cup items
      /\ summary'.disconnect = summary.disconnect
  BY <1>3 DEF ReviewInv, ReviewTypeOK
<1>6. ReviewTypeOK'
  BY <1>1, <1>2, <1>3, <1>4 DEF ReviewInv, ReviewTypeOK
<1>7. Staged'
  BY <1>1, <1>2, <1>5 DEF ReviewInv, Staged
<1>8. Progress'
  <2>1. SUFFICES ASSUME ~changed
                 PROVE  Progress'
    BY <1>1 DEF Progress
  <2>2. /\ ~store.soft /\ summary.own = Links(asked) /\ summary.related = summary.own
        /\ summary.count = Cardinality(summary.own)
        /\ Shows(summary.blocked, asked \ todo, One) /\ summary.disconnect = {}
    BY <1>1, <2>1 DEF ReviewInv, Progress
  <2>3. /\ (asked \ todo) \cup {r} = asked \ (todo \ {r})
        /\ asked \ todo \in SUBSET Roots /\ summary.blocked \in SUBSET Linkers
    BY <1>1 DEF ReviewInv, Staged, ReviewTypeOK
  <2>4. Shows(summary'.blocked, asked \ (todo \ {r}), One)
    <3>1. Shows(summary.blocked \cup items, (asked \ todo) \cup {r}, One)
      BY <1>3, <2>2, <2>3, LinkedType, ShowsMore
    <3>2. QED BY <1>5, <2>3, <3>1
  <2>5. CASE todo # {r}
    BY <1>1, <1>2, <1>5, <2>2, <2>4, <2>5 DEF Progress
  <2>6. CASE todo = {r}
    <3>1. asked \ (todo \ {r}) = asked /\ asked \ asked = {} /\ Shows({}, {}, Many)
      BY <2>6, ShowsNothing
    <3>2. QED BY <1>1, <1>2, <1>5, <2>2, <2>4, <2>6, <3>1 DEF Progress
  <2>7. QED BY <2>5, <2>6
<1>9. QED BY <1>1, <1>6, <1>7, <1>8 DEF ReviewInv

LEMMA ReadManyInv ==
  ASSUME ReviewInv, NEW r \in Roots, ReadMany(r)
  PROVE  ReviewInv'
<1>1. /\ UNCHANGED <<store, state, one, many, asked, removal, changes, changed>>
      /\ One' = One /\ Many' = Many /\ \A rs : Links(rs)' = Links(rs)
      /\ removal.pc = "none"
      /\ Untouched' /\ Confirmed' /\ RefusalsAreExplained'
      /\ stage = "many" /\ r \in todo
  BY ReadFrame DEF ReadMany
<1>2. \/ todo = {r} /\ stage' = "shown" /\ todo' = {}
      \/ todo # {r} /\ stage' = stage /\ todo' = todo \ {r}
  BY <1>1, AnsweredCases DEF ReadMany
<1>3. PICK items \in PagesOf(Many[r]) : summary' = [summary EXCEPT !.disconnect = @ \cup items]
  BY DEF ReadMany, Many, LinkersM
<1>4. Many[r] \in SUBSET Linkers /\ items \subseteq Many[r]
  BY <1>3, LinkedType, PageLength
<1>5. /\ summary'.own = summary.own /\ summary'.related = summary.related
      /\ summary'.count = summary.count /\ summary'.blocked = summary.blocked
      /\ summary'.disconnect = summary.disconnect \cup items
  BY <1>3 DEF ReviewInv, ReviewTypeOK
<1>6. ReviewTypeOK'
  BY <1>1, <1>2, <1>3, <1>4 DEF ReviewInv, ReviewTypeOK
<1>7. Staged'
  BY <1>1, <1>2, <1>5 DEF ReviewInv, Staged
<1>8. Progress'
  <2>1. SUFFICES ASSUME ~changed
                 PROVE  Progress'
    BY <1>1 DEF Progress
  <2>2. /\ ~store.soft /\ summary.own = Links(asked) /\ summary.related = summary.own
        /\ summary.count = Cardinality(summary.own)
        /\ Shows(summary.blocked, asked, One) /\ Shows(summary.disconnect, asked \ todo, Many)
    BY <1>1, <2>1 DEF ReviewInv, Progress
  <2>3. /\ (asked \ todo) \cup {r} = asked \ (todo \ {r})
        /\ asked \ todo \in SUBSET Roots /\ summary.disconnect \in SUBSET Linkers
    BY <1>1 DEF ReviewInv, Staged, ReviewTypeOK
  <2>4. Shows(summary'.disconnect, asked \ (todo \ {r}), Many)
    <3>1. Shows(summary.disconnect \cup items, (asked \ todo) \cup {r}, Many)
      BY <1>3, <2>2, <2>3, LinkedType, ShowsMore
    <3>2. QED BY <1>5, <2>3, <3>1
  <2>5. CASE todo # {r}
    BY <1>1, <1>2, <1>5, <2>2, <2>4, <2>5 DEF Progress
  <2>6. CASE todo = {r}
    <3>1. asked \ (todo \ {r}) = asked
      BY <2>6
    <3>2. QED BY <1>1, <1>2, <1>5, <2>2, <2>4, <2>6, <3>1 DEF Progress
  <2>7. QED BY <2>5, <2>6
<1>9. QED BY <1>1, <1>6, <1>7, <1>8 DEF ReviewInv

(* The button, when nothing is in the way: so far there is nothing.        *)
LEMMA QueryFailsInv ==
  ASSUME ReviewInv, QueryFails
  PROVE  ReviewInv'
<1>1. /\ UNCHANGED <<store, state, one, many, asked, removal, changes, changed>>
      /\ removal.pc = "none"
      /\ Untouched' /\ Confirmed' /\ RefusalsAreExplained'
  BY ReadFrame DEF QueryFails
<1>2. stage' = "error" /\ todo' = {} /\ summary' = summary
  BY DEF QueryFails
<1>3. ReviewTypeOK' /\ Staged' /\ Progress'
  BY <1>1, <1>2 DEF ReviewInv, ReviewTypeOK, Staged, Progress
<1>4. QED BY <1>1, <1>3 DEF ReviewInv

LEMMA ConfirmInv ==
  ASSUME ReviewInv, Confirm
  PROVE  ReviewInv'
<1>1. /\ stage = "shown" /\ summary.blocked = {} /\ removal.pc = "none"
      /\ removal' = [pc |-> "delete", todo |-> asked]
      /\ UNCHANGED <<store, state, one, many, asked, stage, todo, summary, changes, changed>>
  BY DEF Confirm, data, page, others
<1>2. ReviewTypeOK' /\ Staged' /\ Progress' /\ RefusalsAreExplained'
  BY <1>1 DEF ReviewInv, ReviewTypeOK, Staged, Progress, RefusalsAreExplained
<1>3. Untouched'
  BY <1>1 DEF ReviewInv, Untouched, ReviewTypeOK
<1>4. Confirmed'
  <2>1. SUFFICES ASSUME ~changed, ~store.soft, NEW r \in asked
                 PROVE  Linkers1(r) = {}
    BY <1>1 DEF Confirmed, Linkers1, Visible
  <2>2. Shows({}, asked, One) /\ asked \in SUBSET Roots
    BY <1>1, <2>1 DEF ReviewInv, Progress, ReviewTypeOK
  <2>3. One[r] = {}
    BY <2>2, LinkedType, NothingShown
  <2>4. QED BY <2>2, <2>3 DEF One
<1>5. QED BY <1>2, <1>3, <1>4 DEF ReviewInv

(* One of the deletes: refused only for a link that others have made, or   *)
(* one of an archived record.                                              *)
LEMMA DeleteRootInv ==
  ASSUME ReviewInv, NEW r \in Roots, DeleteRoot(r)
  PROVE  ReviewInv'
<1>1. /\ removal.pc \in {"delete", "refused"} /\ r \in removal.todo /\ r \in asked
      /\ removal' = [pc |-> IF Refused(r) THEN "refused" ELSE removal.pc, todo |-> removal.todo \ {r}]
      /\ UNCHANGED <<store, asked, stage, todo, summary, changes, changed, one>>
      /\ stage \in {"shown", "left", "error"}
  BY DEF ReviewInv, Staged, DeleteRoot, page, others, data, Archive, Remove
<1>2. /\ state' \in [Roots \cup Linkers -> {"there", "archived", "gone"}]
      /\ many' \subseteq many
      /\ \A x \in (Roots \cup Linkers) \ {r} : state'[x] = state[x]
  BY DEF ReviewInv, ReviewTypeOK, DeleteRoot, data, Archive, Remove
<1>3. \A l \in Linkers : state'[l] = state[l]
  BY <1>2, RootsAssumption
<1>4. ReviewTypeOK'
  BY <1>1, <1>2 DEF ReviewInv, ReviewTypeOK
<1>5. Staged' /\ Untouched' /\ Progress'
  BY <1>1, <1>2, <1>3 DEF ReviewInv, Staged, Untouched, Progress
<1>6. Confirmed'
  BY <1>1, <1>3 DEF ReviewInv, Confirmed, Linkers1, Visible
<1>7. RefusalsAreExplained'
  <2>1. SUFFICES ASSUME ~changed, removal'.pc = "refused"
                 PROVE  \E l \in Linkers : state[l] = "archived" /\ one[l] \in asked
    BY <1>1, <1>3 DEF RefusalsAreExplained
  <2>2. CASE removal.pc = "refused"
    BY <2>1, <2>2 DEF ReviewInv, RefusalsAreExplained
  <2>3. CASE removal.pc # "refused"
    <3>1. Refused(r)
      BY <1>1, <2>1, <2>3
    <3>2. NotGone(r)
      BY <1>1, <2>1 DEF ReviewInv, Untouched, NotGone
    <3>3. ~store.soft /\ Held(r)
      BY <3>1, <3>2 DEF Refused
    <3>4. PICK l \in Linkers : NotGone(l) /\ one[l] = r
      BY <3>3 DEF Held
    <3>5. Linkers1(r) = {}
      BY <1>1, <2>1, <3>3 DEF ReviewInv, Confirmed
    <3>6. state[l] \in {"there", "archived", "gone"} /\ state[l] # "gone" /\ state[l] # "there"
      BY <3>4, <3>5 DEF ReviewInv, ReviewTypeOK, NotGone, Linkers1, Visible
    <3>7. QED BY <1>1, <3>4, <3>6
  <2>4. QED BY <2>2, <2>3
<1>8. QED BY <1>4, <1>5, <1>6, <1>7 DEF ReviewInv

LEMMA AnswerInv ==
  ASSUME ReviewInv, Answer
  PROVE  ReviewInv'
<1>1. /\ UNCHANGED <<store, state, one, many, asked, todo, summary, changes, changed>>
      /\ removal.pc \in {"delete", "refused"} /\ stage' \in {"left", "error"}
      /\ removal'.todo = removal.todo
      /\ removal'.pc = removal.pc \/ removal'.pc = "ok"
      /\ removal' \in [pc : {"none", "delete", "ok", "refused"}, todo : SUBSET Roots]
  BY DEF ReviewInv, ReviewTypeOK, Answer, data, others
<1>2. ReviewTypeOK' /\ Staged' /\ Untouched' /\ Progress'
  BY <1>1 DEF ReviewInv, ReviewTypeOK, Staged, Untouched, Progress
<1>3. Confirmed' /\ RefusalsAreExplained'
  BY <1>1 DEF ReviewInv, Confirmed, Linkers1, Visible, RefusalsAreExplained
<1>4. QED BY <1>2, <1>3 DEF ReviewInv

(* Whatever others do, it is noted.                                        *)
LEMMA OthersInv ==
  ASSUME ReviewInv, Change,
         state' \in [Roots \cup Linkers -> {"there", "archived", "gone"}],
         one' \in [Linkers -> Roots \cup {NoRoot}], many' \subseteq Roots \X Linkers
  PROVE  ReviewInv'
<1>1. /\ UNCHANGED <<store, asked, stage, todo, summary, removal>>
      /\ changed' = TRUE /\ changes' \in 0..MaxChanges /\ stage # "closed"
  BY BoundAssumption DEF ReviewInv, ReviewTypeOK, Change, page
<1>2. ReviewTypeOK'
  BY <1>1 DEF ReviewInv, ReviewTypeOK
<1>3. Staged' /\ Untouched' /\ Progress' /\ Confirmed' /\ RefusalsAreExplained'
  BY <1>1 DEF ReviewInv, Staged, Untouched, Progress, Confirmed, RefusalsAreExplained
<1>4. QED BY <1>2, <1>3 DEF ReviewInv

LEMMA ReviewInitInv == ReviewInit => ReviewInv
<1> SUFFICES ASSUME ReviewInit PROVE ReviewInv
  OBVIOUS
<1>1. ReviewTypeOK
  <2>1. state \in [Roots \cup Linkers -> {"there", "archived", "gone"}]
    BY DEF ReviewInit
  <2>2. NoSummary \in [own : SUBSET Linkers, related : SUBSET Linkers, count : Nat,
                       blocked : SUBSET Linkers, disconnect : SUBSET Linkers]
    BY DEF NoSummary
  <2>3. changes \in 0..MaxChanges
    <3>1. changes = 0
      BY DEF ReviewInit
    <3>2. QED BY <3>1, BoundAssumption
  <2>4. removal \in [pc : {"none", "delete", "ok", "refused"}, todo : SUBSET Roots]
    BY DEF ReviewInit
  <2>5. QED BY <2>1, <2>2, <2>3, <2>4 DEF ReviewInit, ReviewTypeOK
<1>2. Staged /\ Untouched /\ Progress /\ Confirmed /\ RefusalsAreExplained
  BY DEF ReviewInit, Staged, Untouched, Progress, Confirmed, RefusalsAreExplained
<1>3. QED BY <1>1, <1>2 DEF ReviewInv

LEMMA ReviewStutterInv == ReviewInv /\ UNCHANGED reviewVars => ReviewInv'
<1> SUFFICES ASSUME ReviewInv, UNCHANGED reviewVars PROVE ReviewInv'
  OBVIOUS
<1>1. UNCHANGED <<store, state, one, many, asked, stage, todo, summary, removal, changes, changed>>
  BY DEF reviewVars
<1>2. One' = One /\ Many' = Many /\ \A rs : Links(rs)' = Links(rs)
  BY <1>1, SameLinks DEF data
<1>3. ReviewTypeOK' /\ Staged' /\ Untouched'
  BY <1>1 DEF ReviewInv, ReviewTypeOK, Staged, Untouched
<1>4. Progress'
  BY <1>1, <1>2 DEF ReviewInv, Progress
<1>5. Confirmed' /\ RefusalsAreExplained'
  BY <1>1 DEF ReviewInv, Confirmed, Linkers1, Visible, RefusalsAreExplained
<1>6. QED BY <1>3, <1>4, <1>5 DEF ReviewInv

LEMMA ReviewNextInv == ReviewInv /\ [ReviewNext]_reviewVars => ReviewInv'
<1> SUFFICES ASSUME ReviewInv, [ReviewNext]_reviewVars PROVE ReviewInv'
  OBVIOUS
<1>1. ASSUME NEW ids \in SUBSET Roots \ {{}}, Open(ids) PROVE ReviewInv'
  BY <1>1, OpenInv
<1>2. ASSUME NEW r \in Roots, ReadRoot(r) \/ ReadOne(r) \/ ReadMany(r) PROVE ReviewInv'
  BY <1>2, ReadRootInv, ReadOneInv, ReadManyInv
<1>3. ASSUME NEW l \in Linkers, ReadRelated(l) PROVE ReviewInv'
  BY <1>3, ReadRelatedInv
<1>4. CASE Confirm \/ QueryFails
  BY <1>4, ConfirmInv, QueryFailsInv
<1>5. ASSUME NEW r \in Roots, DeleteRoot(r) PROVE ReviewInv'
  BY <1>5, DeleteRootInv
<1>6. CASE Answer
  BY <1>6, AnswerInv
<1>7. ASSUME NEW l \in Linkers, NEW r \in Roots \cup {NoRoot}, Relink(l, r) PROVE ReviewInv'
  <2>1. one' \in [Linkers -> Roots \cup {NoRoot}]
    BY <1>7 DEF Relink, ReviewInv, ReviewTypeOK
  <2>2. QED BY <1>7, <2>1, OthersInv DEF Relink, ReviewInv, ReviewTypeOK
<1>8. ASSUME NEW l \in Linkers, NEW r \in Roots, Join(r, l) PROVE ReviewInv'
  <2>1. many' \subseteq Roots \X Linkers
    BY <1>8 DEF Join, ReviewInv, ReviewTypeOK
  <2>2. QED BY <1>8, <2>1, OthersInv DEF Join, ReviewInv, ReviewTypeOK
<1>9. ASSUME NEW l \in Linkers, ArchiveLinker(l) PROVE ReviewInv'
  BY <1>9, OthersInv DEF ArchiveLinker, Archive, ReviewInv, ReviewTypeOK
<1>10. ASSUME NEW x \in Roots \cup Linkers, RemoveOther(x) PROVE ReviewInv'
  BY <1>10, OthersInv DEF RemoveOther, Remove, ReviewInv, ReviewTypeOK
<1>11. CASE UNCHANGED reviewVars
  BY <1>11, ReviewStutterInv
<1>12. QED
  BY <1>1, <1>2, <1>3, <1>4, <1>5, <1>6, <1>7, <1>8, <1>9, <1>10, <1>11 DEF ReviewNext

(* What the page knows follows from what it has read.                      *)
THEOREM ReviewInvariance == ReviewSpec => []ReviewInv
BY ReviewInitInv, ReviewNextInv, PTL DEF ReviewSpec

-----------------------------------------------------------------------------
(* The properties.                                                         *)

(* Variables keep their types.                                             *)
THEOREM ReviewTypeCorrect == ReviewSpec => []ReviewTypeOK
BY ReviewInvariance, PTL DEF ReviewInv

(* The review that getDeleteSummary puts together from its queries is      *)
(* exact, up to a page for each record, unless others have changed         *)
(* something since it was asked for.                                       *)
THEOREM ReviewsAreExact == ReviewSpec => []QuietReviewIsExact
<1>1. ReviewInv => QuietReviewIsExact
  <2>1. SUFFICES ASSUME ReviewInv, stage = "shown", removal.pc = "none", ~changed
                 PROVE  IF store.soft
                        THEN summary.blocked \cup summary.disconnect \cup summary.related = {}
                        ELSE /\ Covers(summary.blocked, Linkers1)
                             /\ Covers(summary.disconnect, LinkersM)
                             /\ summary.related = {l \in Linkers : \E r \in asked : <<r, l>> \in many}
                             /\ summary.count = Cardinality(summary.related)
    BY DEF QuietReviewIsExact
  <2>2. CASE store.soft
    BY <2>1, <2>2 DEF ReviewInv, Progress
  <2>3. CASE ~store.soft
    <3>1. /\ Shows(summary.blocked, asked, One) /\ Shows(summary.disconnect, asked, Many)
          /\ summary.related = Links(asked) /\ summary.count = Cardinality(summary.related)
      BY <2>1, <2>3 DEF ReviewInv, Progress
    <3>2. \A r \in asked : One[r] = Linkers1(r) /\ Many[r] = LinkersM(r)
      <4>1. \A r \in Roots : One[r] = Linkers1(r) /\ Many[r] = LinkersM(r)
        BY DEF One, Many
      <4>2. asked \subseteq Roots
        BY <2>1 DEF ReviewInv, ReviewTypeOK
      <4>3. QED BY <4>1, <4>2
    <3>3. Covers(summary.blocked, Linkers1)
      BY <3>1, <3>2 DEF Shows, Covers
    <3>4. Covers(summary.disconnect, LinkersM)
      BY <3>1, <3>2 DEF Shows, Covers
    <3>5. QED BY <2>3, <3>1, <3>3, <3>4 DEF Links
  <2>4. QED BY <2>2, <2>3
<1>2. QED BY <1>1, ReviewInvariance, PTL

(* A delete behind DeleteConfirmPage that bulkRemove refuses is refused    *)
(* for what others did, or for an archived record that refers to it.       *)
THEOREM RefusalsHaveAReason == ReviewSpec => []RefusalsAreExplained
BY ReviewInvariance, PTL DEF ReviewInv
=============================================================================
