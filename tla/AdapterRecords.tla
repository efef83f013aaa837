---------------------------- MODULE AdapterRecords ----------------------------
(***************************************************************************)
(* What the four adapters do to the fields and the links of the records of *)
(* one resource, and what they list of them, request against request.  The *)
(* in-memory adapter acts at once, Prisma writes at once and lists in      *)
(* several queries; the two ORMs load, write and load again, and TypeORM   *)
(* reads the row again to see what to write, and changes many-to-many      *)
(* links in two queries of their own.                                      *)
(*                                                                         *)
(* A record has two scalar fields, the second a relation to an owner, a    *)
(* set of links to tags, and deletedAt.  The search text is found in some  *)
(* names, and in the labels of some owners.                                *)
(***************************************************************************)
EXTENDS Integers, SequencesExt, Lists

CONSTANTS
  Writers,     \* the creates, updates and deletes there are, at most
  Readers,     \* the listings there are, at most
  Tags,        \* the related records of a many-to-many field
  Payloads,    \* the data of creates and updates: the fields that are sent
  Queries,     \* the queries of listings
  First,       \* the records at the start
  PageSize,
  MaxId        \* bound of the ids, of the time, and of the records

VARIABLES
  adapter,  \* which one the resource has
  soft,     \* whether it has soft delete
  rows,     \* the records in the order of the table, newest first in memory
  hits,     \* the owners whose labels the search text is found in
  clock,    \* the next id: of the database's sequence, or of Date.now()
  write,    \* per writer, its request
  read      \* per reader, its request

vars == <<adapter, soft, rows, hits, clock, write, read>>

Adapters == {"memory", "prisma", "typeorm", "mikroorm"}
Orm      == adapter \in {"typeorm", "mikroorm"}

Values  == 1..2
Scalars == {"name", "owner"}
Fields  == Scalars \cup {"tags"}
Row     == [id : 1..MaxId, name : Values, owner : Values, tags : SUBSET Tags, deleted : BOOLEAN]

Data(d) ==
  /\ DOMAIN d \subseteq Fields
  /\ \A f \in DOMAIN d : IF f = "tags" THEN d[f] \subseteq Tags ELSE d[f] \in Values

Query == [state : {"active", "deleted", "all"}, tags : SUBSET Tags, search : BOOLEAN, page : Nat \ {0}]

ASSUME PayloadAssumption == \A d \in Payloads : Data(d)
ASSUME QueryAssumption   == Queries \subseteq Query
ASSUME FirstAssumption   == First \in Seq(Row) /\ \A i, k \in DOMAIN First : First[i].id = First[k].id => i = k
ASSUME SlotsAssumption   == Writers \cap Readers = {} /\ "rename" \notin Readers
ASSUME SizeAssumption    == {PageSize, MaxId} \subseteq Nat \ {0}

Idle == [pc |-> "idle"]

Write ==
  [ pc     : {"load", "write", "save", "sync", "link", "reload", "ok", "error"},
    do     : {"create", "update", "delete"},
    id     : 0..MaxId,
    data   : Payloads \cup {<<>>},
    loaded : SUBSET Row,     \* the entity, as findOneOrFail returned it
    stored : SUBSET Row,     \* the row, as repository.save found it
    result : SUBSET Row,     \* the entity that is returned
    quiet  : BOOLEAN,        \* history: no other request has written
    before : SUBSET Row ]    \* history: the records when it started, if so

Read ==
  [ pc    : {"hits", "rows", "ok"},
    query : Query,
    hits  : SUBSET Values,   \* the owners that were found first
    got   : SUBSET {"items", "total"},
    items : Seq(Row),
    total : Nat,
    quiet : BOOLEAN ]        \* history: nothing has been written since

TypeOK ==
  /\ adapter \in Adapters /\ soft \in BOOLEAN
  /\ rows \in Seq(Row)
  /\ hits \subseteq Values
  /\ clock \in 1..(MaxId + 1)
  /\ write \in [Writers -> Write \cup {Idle}]
  /\ read \in [Readers -> Read \cup {Idle}]

Init ==
  /\ adapter \in Adapters
  /\ soft \in BOOLEAN
  /\ rows = First
  /\ hits = {1}
  /\ clock = IF adapter = "memory" THEN Len(First) ELSE Len(First) + 1
  /\ write = [w \in Writers |-> Idle]
  /\ read = [r \in Readers |-> Idle]

WithId(id) == {i \in DOMAIN rows : rows[i].id = id}
RowsOf(id) == {rows[i] : i \in WithId(id)}
Earliest(s) == CHOOSE i \in s : \A k \in s : i <= k

(* The data over a record: the fields sent, and no other.                  *)
Merged(row, data) == [f \in DOMAIN row |-> IF f \in DOMAIN data THEN data[f] ELSE row[f]]

-----------------------------------------------------------------------------
(* Writing.  A write that takes effect makes the others overlap.           *)

Become(w, q) ==
  /\ write' = [write EXCEPT ![w] = q]
  /\ UNCHANGED <<adapter, soft, rows, hits, clock, read>>

Answered(q) == q # Idle /\ q.pc \in {"ok", "error"}

Noisy(slots, w) ==
  [s \in DOMAIN slots |->
     IF s = w \/ slots[s] = Idle THEN slots[s]
     ELSE IF "before" \in DOMAIN slots[s] THEN [slots[s] EXCEPT !.quiet = FALSE, !.before = {}]
     ELSE [slots[s] EXCEPT !.quiet = FALSE]]

Commit(w, next, q) ==
  /\ rows' = next
  /\ write' = [Noisy(write, w) EXCEPT ![w] = q]
  /\ read' = Noisy(read, w)
  /\ UNCHANGED <<adapter, soft, hits>>

Replace(i, row)  == [rows EXCEPT ![i] = row]
Without(id)      == Kept(rows, {row \in ToSet(rows) : row.id # id})
Changed(id, Op(_)) == [i \in DOMAIN rows |-> IF rows[i].id = id THEN Op(rows[i]) ELSE rows[i]]

Alone == \A w \in Writers : write[w] = Idle \/ Answered(write[w])

(* What the ORMs load first: the entity of an update or of a hard delete.  *)
Request(do, id, data) ==
  [pc |-> IF Orm /\ (do = "update" \/ (do = "delete" /\ ~soft)) THEN "load" ELSE "write",
   do |-> do, id |-> id, data |-> data, loaded |-> {}, stored |-> {}, result |-> {},
   quiet |-> Alone, before |-> IF Alone THEN ToSet(rows) ELSE {}]

Creating == Cardinality({w \in Writers : write[w] # Idle /\ write[w].pc = "write" /\ write[w].do = "create"})

StartCreate(w) ==
  /\ write[w] = Idle
  /\ Len(rows) + Creating < MaxId
  /\ adapter # "memory" => clock + Creating <= MaxId
  /\ \E data \in Payloads : Scalars \subseteq DOMAIN data /\ Become(w, Request("create", 0, data))

StartUpdate(w) ==
  /\ write[w] = Idle
  /\ \E id \in 1..MaxId, data \in Payloads :
       WithId(id) # {} /\ Become(w, Request("update", id, data))

StartDelete(w) ==
  /\ write[w] = Idle
  /\ \E id \in 1..MaxId : WithId(id) # {} /\ Become(w, Request("delete", id, <<>>))

(* A new record; TypeORM links it in another query.                        *)
NewRow(data, id) ==
  Merged([id |-> id, name |-> 1, owner |-> 1, tags |-> {}, deleted |-> FALSE],
         IF adapter = "typeorm" THEN [f \in DOMAIN data \cap Scalars |-> data[f]] ELSE data)

(* A record in memory goes first, and its id is the time, which does not   *)
(* advance by itself.                                                      *)
Create(w) ==
  LET q   == write[w]
      row == NewRow(q.data, clock)
  IN  /\ q.pc = "write" /\ q.do = "create"
      /\ Commit(w, IF adapter = "memory" THEN <<row>> \o rows ELSE Append(rows, row),
           [q EXCEPT !.id = clock, !.result = IF Orm THEN {} ELSE {row},
              !.pc = CASE adapter = "typeorm" -> "sync" [] adapter = "mikroorm" -> "reload" [] OTHER -> "ok"])
      /\ clock' = IF adapter = "memory" THEN clock ELSE clock + 1

(* findOneOrFail of an update; findOne of a delete, which ends for a row   *)
(* that has gone.                                                          *)
Load(w) ==
  LET q == write[w]
  IN  /\ q.pc = "load"
      /\ Become(w, IF WithId(q.id) # {} THEN [q EXCEPT !.pc = "write", !.loaded = RowsOf(q.id)]
                   ELSE [q EXCEPT !.pc = IF q.do = "delete" THEN "ok" ELSE "error"])

(* In memory, and in Prisma: the first record with the id, or a rejection. *)
UpdateAtOnce(w) ==
  LET q == write[w]
      i == Earliest(WithId(q.id))
  IN  /\ q.pc = "write" /\ q.do = "update" /\ ~Orm
      /\ IF WithId(q.id) = {} THEN Become(w, [q EXCEPT !.pc = "error"])
         ELSE /\ Commit(w, Replace(i, Merged(rows[i], q.data)),
                   [q EXCEPT !.pc = "ok", !.result = {Merged(rows[i], q.data)}])
              /\ UNCHANGED clock

(* A mutant: the whole entity is written back.                             *)
FlushEntity(w) ==
  LET q == write[w]
      old == CHOOSE row \in q.loaded : TRUE
  IN  /\ q.pc = "write" /\ q.do = "update" /\ adapter = "mikroorm"
      /\ Commit(w, Changed(q.id, LAMBDA row : Merged(old, q.data)), [q EXCEPT !.pc = "reload"])
      /\ UNCHANGED clock

(* A row, brought from what one row is to what another is: the fields and  *)
(* the links in which the two differ.                                      *)
Brought(row, from, to) ==
  [f \in DOMAIN row |->
     IF f = "tags" THEN (row.tags \ (from.tags \ to.tags)) \cup (to.tags \ from.tags)
     ELSE IF to[f] # from[f] THEN to[f] ELSE row[f]]

(* To link what is linked already is refused, or a row that has gone.      *)
Refused(id, links) == links # {} /\ \A row \in RowsOf(id) : links \cap row.tags # {}

(* em.flush of the two changed sets: the fields that differ from what was  *)
(* loaded, and the links that were not loaded or not sent.  A link that is *)
(* there already may be refused.                                           *)
Flush(w) ==
  LET q      == write[w]
      old    == CHOOSE row \in q.loaded : TRUE
      entity == Merged(old, q.data)
      links  == entity.tags \ old.tags
  IN  /\ q.pc = "write" /\ q.do = "update" /\ adapter = "mikroorm"
      /\ \/ /\ WithId(q.id) # {} \/ links = {}
            /\ Commit(w, Changed(q.id, LAMBDA row : Brought(row, old, entity)), [q EXCEPT !.pc = "reload"])
            /\ UNCHANGED clock
         \/ /\ Refused(q.id, links)
            /\ Become(w, [q EXCEPT !.pc = "error"])

(* repository.save of what was loaded and the fields that are sent reads   *)
(* the row again,                                                          *)
ReadStored(w) ==
  LET q == write[w]
  IN  /\ q.pc = "write" /\ q.do = "update" /\ adapter = "typeorm"
      /\ Become(w, [q EXCEPT !.pc = "save", !.stored = RowsOf(q.id)])

(* and brings it to that in a transaction, or inserts a row it did not     *)
(* find, which is refused if one is there by now.                          *)
Save(w) ==
  LET q      == write[w]
      entity == Merged(CHOOSE row \in q.loaded : TRUE, [f \in DOMAIN q.data \cap Scalars |-> q.data[f]])
      now    == CHOOSE row \in q.stored : TRUE
  IN  /\ q.pc = "save"
      /\ IF IF q.stored = {} THEN WithId(q.id) # {} ELSE Refused(q.id, entity.tags \ now.tags)
           THEN Become(w, [q EXCEPT !.pc = "error", !.stored = {}])
         ELSE /\ Commit(w, IF q.stored = {} THEN Append(rows, entity)
                           ELSE Changed(q.id, LAMBDA row : Brought(row, now, entity)),
                        [q EXCEPT !.pc = "sync", !.stored = {}])
              /\ UNCHANGED clock

(* A mutant: the links are compared with none, as those of a new record.   *)
NoneToRemove(q) == {}

(* The links that were loaded, none for a new record, against those sent.  *)
Linked(q)   == UNION {row.tags : row \in q.loaded}
ToRemove(q) == Linked(q) \ q.data.tags
ToAdd(q)    == q.data.tags \ Linked(q)

Relinked(id, add, remove) == Changed(id, LAMBDA row : [row EXCEPT !.tags = (@ \cup add) \ remove])

(* syncManyToManyRelations, where links are sent that are not those that   *)
(* were loaded: addAndRemove is a query that deletes links,                *)
Sync(w) ==
  LET q == write[w]
  IN  /\ q.pc = "sync"
      /\ IF "tags" \notin DOMAIN q.data \/ ToAdd(q) \cup ToRemove(q) = {}
           THEN Become(w, [q EXCEPT !.pc = "reload"])
         ELSE /\ Commit(w, Relinked(q.id, {}, ToRemove(q)), [q EXCEPT !.pc = "link"])
              /\ UNCHANGED clock

(* and one that inserts links.  Where it is refused, the fields and the    *)
(* links that were deleted stay as they are by then.                       *)
Link(w) ==
  LET q == write[w]
  IN  /\ q.pc = "link"
      /\ IF Refused(q.id, ToAdd(q)) THEN Become(w, [q EXCEPT !.pc = "error"])
         ELSE /\ Commit(w, Relinked(q.id, ToAdd(q), {}), [q EXCEPT !.pc = "reload"])
              /\ UNCHANGED clock

(* TypeORM rejects when the row has gone; MikroORM returns null.           *)
Reload(w) ==
  LET q == write[w]
  IN  /\ q.pc = "reload"
      /\ Become(w, [q EXCEPT !.result = RowsOf(q.id), !.loaded = {},
                     !.pc = IF adapter = "typeorm" /\ WithId(q.id) = {} THEN "error" ELSE "ok"])

(* Only Prisma minds that the row has gone.  In memory, a soft delete is   *)
(* of the first record with the id, a hard delete of all.                  *)
Delete(w) ==
  LET q    == write[w]
      gone == WithId(q.id) = {}
      done == [q EXCEPT !.pc = "ok"]
  IN  /\ q.pc = "write" /\ q.do = "delete"
      /\ IF gone THEN Become(w, IF adapter = "prisma" THEN [q EXCEPT !.pc = "error"] ELSE done)
         ELSE /\ Commit(w, CASE ~soft -> Without(q.id)
                             [] soft  -> [rows EXCEPT ![Earliest(WithId(q.id))].deleted = TRUE], done)
              /\ UNCHANGED clock

-----------------------------------------------------------------------------
(* Listing.                                                                *)

(* The records that a query is for.                                        *)
Matches(row, query, owners) ==
  /\ soft => CASE query.state = "active"  -> ~row.deleted
               [] query.state = "deleted" -> row.deleted
               [] OTHER                   -> TRUE
  /\ query.tags # {} => row.tags \cap query.tags # {}
  /\ query.search => row.name = 2 \/ row.owner \in owners

(* A mutant: soft delete is not considered.                                *)
MatchingOfAll(query, owners) ==
  Kept(rows, {row \in ToSet(rows) : Matches(row, [query EXCEPT !.state = "all"], owners)})

Matching(query, owners) == Kept(rows, {row \in ToSet(rows) : Matches(row, query, owners)})

Slice(s, first, last) == SubSeq(s, first, IF last < Len(s) THEN last ELSE Len(s))

(* The pages there may be: sorted by name, and in the order of the table   *)
(* only if that is in memory.                                              *)
PagesOf(query, owners) ==
  LET found  == Matching(query, owners)
      orders == {p \in [DOMAIN found -> DOMAIN found] :
                  /\ \A i, k \in DOMAIN found : i # k => p[i] # p[k]
                  /\ \A i, k \in DOMAIN found : i < k =>
                       \/ found[p[i]].name < found[p[k]].name
                       \/ found[p[i]].name = found[p[k]].name /\ (adapter = "memory" => p[i] < p[k])}
  IN  {Slice([i \in DOMAIN found |-> found[p[i]]],
             (query.page - 1) * PageSize + 1, query.page * PageSize) : p \in orders}

Answer(r, q) ==
  /\ read' = [read EXCEPT ![r] = q]
  /\ UNCHANGED <<adapter, soft, rows, hits, clock, write>>

(* Prisma and MikroORM read the owners first that the text is found in.    *)
StartList(r) ==
  /\ read[r] = Idle
  /\ \E query \in Queries :
       Answer(r, [pc |-> IF query.search /\ adapter \in {"prisma", "mikroorm"} THEN "hits" ELSE "rows",
                  query |-> query, hits |-> {}, got |-> {}, items |-> <<>>, total |-> 0, quiet |-> TRUE])

ReadHits(r) ==
  /\ read[r].pc = "hits"
  /\ Answer(r, [read[r] EXCEPT !.pc = "rows", !.hits = hits])

Owners(r) == IF adapter \in {"prisma", "mikroorm"} THEN read[r].hits ELSE hits

Settle(q) == IF q.got = {"items", "total"} THEN [q EXCEPT !.pc = "ok"] ELSE q

(* The rows and their number: at once in memory, one after the other in    *)
(* TypeORM, in any order in the others.                                    *)
ReadItems(r) ==
  LET q == read[r]
  IN  /\ q.pc = "rows" /\ "items" \notin q.got
      /\ \E items \in PagesOf(q.query, Owners(r)) :
           Answer(r, Settle(IF adapter = "memory"
             THEN [q EXCEPT !.items = items, !.total = Len(Matching(q.query, Owners(r))), !.got = {"items", "total"}]
             ELSE [q EXCEPT !.items = items, !.got = @ \cup {"items"}]))

ReadTotal(r) ==
  LET q == read[r]
  IN  /\ q.pc = "rows" /\ "total" \notin q.got
      /\ adapter # "memory" /\ (adapter = "typeorm" => "items" \in q.got)
      /\ Answer(r, Settle([q EXCEPT !.total = Len(Matching(q.query, Owners(r))), !.got = @ \cup {"total"}]))

-----------------------------------------------------------------------------

(* Date.now() advances.                                                    *)
Tick ==
  /\ adapter = "memory"
  /\ clock < MaxId
  /\ clock' = clock + 1
  /\ UNCHANGED <<adapter, soft, rows, hits, write, read>>

(* An owner gets another label, under a listing.                           *)
Rename ==
  /\ \E r \in Readers : read[r] # Idle /\ ~Answered(read[r]) /\ read[r].query.search
  /\ hits' = Values \ hits
  /\ read' = Noisy(read, "rename")
  /\ UNCHANGED <<adapter, soft, rows, clock, write>>

WriteStep(w) ==
  \/ Create(w) \/ Load(w) \/ UpdateAtOnce(w) \/ Flush(w) \/ ReadStored(w) \/ Save(w) \/ Sync(w) \/ Link(w)
  \/ Reload(w) \/ Delete(w)

Next ==
  \/ \E w \in Writers : StartCreate(w) \/ StartUpdate(w) \/ StartDelete(w) \/ WriteStep(w)
  \/ \E r \in Readers : StartList(r) \/ ReadHits(r) \/ ReadItems(r) \/ ReadTotal(r)
  \/ Tick \/ Rename

Spec == Init /\ [][Next]_vars

-----------------------------------------------------------------------------

(* A write that is answered well, and that no other overlapped, has done   *)
(* to the one record it names what was sent and nothing else, with links   *)
(* added and removed as needed, and returns that record; unless two        *)
(* records in memory share an id, created in one millisecond.              *)
QuietWriteIsExact ==
  \A w \in Writers :
    LET q == write[w]
    IN  q.pc = "ok" /\ q.quiet /\ (\A row \in RowsOf(q.id) : Cardinality(WithId(q.id)) = 1) =>
          CASE q.do = "update" ->
                 /\ q.result = {Merged(row, q.data) : row \in {b \in q.before : b.id = q.id}}
                 /\ ToSet(rows) = {b \in q.before : b.id # q.id} \cup q.result
            [] q.do = "create" -> Cardinality(q.result) = 1 /\ ToSet(rows) = q.before \cup q.result
                                  /\ \A row \in q.result : \A f \in DOMAIN q.data : row[f] = q.data[f]
            [] q.do = "delete" ->
                 {row \in ToSet(rows) : row.id # q.id} = {b \in q.before : b.id # q.id}

(* However requests overlap, a field of a record changes only by a request *)
(* in flight for that record: to what it sent, links only added that were  *)
(* sent and only removed that were not; or by its soft delete.  TypeORM    *)
(* alone also writes back what the request had loaded, fields and links.   *)
Towards(row, new, links) == new.tags \ row.tags \subseteq links /\ (row.tags \ new.tags) \cap links = {}

Accounted(f, row, new) ==
  \E w \in Writers :
    LET q == write[w]
    IN  /\ q # Idle /\ ~Answered(q) /\ q.id = row.id
        /\ \/ f \in Scalars \cap DOMAIN q.data /\ new[f] = q.data[f]
           \/ f = "deleted" /\ q.do = "delete" /\ new.deleted
           \/ f = "tags" /\ "tags" \in DOMAIN q.data /\ Towards(row, new, q.data.tags)
           \/ /\ adapter = "typeorm"
              /\ \E old \in q.loaded : IF f = "tags" THEN Towards(row, new, old.tags) ELSE new[f] = old[f]

OnlySentFieldsChange ==
  [][\A row \in ToSet(rows), new \in ToSet(rows') :
       row.id = new.id /\ Cardinality(WithId(row.id)) = 1 /\ Cardinality(WithId(row.id)') = 1 =>
         \A f \in DOMAIN row : new[f] # row[f] => Accounted(f, row, new)]_vars

(* A listing that nothing was written under is one page of what the table  *)
(* has for the query: the total is the number of all of them, the page is  *)
(* filled up, has none twice and is in order, and what comes before it     *)
(* fills the pages before it.                                              *)
Wanted(query) ==
  {i \in DOMAIN rows :
     /\ soft /\ query.state # "all" => rows[i].deleted = (query.state = "deleted")
     /\ query.tags = {} \/ \E t \in query.tags : t \in rows[i].tags
     /\ query.search => rows[i].name = 2 \/ rows[i].owner \in hits}

QuietListingIsExact ==
  \A r \in Readers :
    LET q      == read[r]
        wanted == Wanted(q.query)
        ahead  == (q.query.page - 1) * PageSize
    IN  q.pc = "ok" /\ q.quiet =>
          /\ q.total = Cardinality(wanted)
          /\ Len(q.items) = Min({PageSize, Max({0, q.total - ahead})})
          /\ \A i \in DOMAIN q.items :
               LET before == {k \in wanted : rows[k].name < q.items[i].name}
                   upto   == {k \in wanted : rows[k].name <= q.items[i].name}
               IN  /\ q.items[i] \in {rows[k] : k \in wanted}
                   /\ Cardinality(before) < ahead + i /\ ahead + i <= Cardinality(upto)
          /\ \A i, k \in DOMAIN q.items : q.items[i] = q.items[k] =>
               i = k \/ \E x, y \in wanted : x # y /\ rows[x] = rows[y]
=============================================================================
