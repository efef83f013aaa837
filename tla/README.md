# Specifications of nestjs-dj-admin

TLA+ models of the admin panel library in this repository: its server (a NestJS
module under `src/src/admin`), its extensions (`src/src/extensions`,
`src/src/extension-api`), its React frontend (`src/frontend/admin-app`) and the
parts of the example applications (`src/examples`) that implement its
interfaces. TLC checks the models on small instances; TLAPS proves the theorems
of the `*Proofs` modules for every value of the constants.

The whole program is single-threaded JavaScript around asynchronous calls.
Between two `await`s a handler runs alone; at each `await` any other request may
run, the call may reject, and the process may die. No transaction of the library
spans two calls. Nearly everything that can go wrong follows from this, and so
the models have one action per awaited call.

## Inventory

| Component | State | Operations | Properties that make it correct |
| --- | --- | --- | --- |
| `AdminAuthService`, session mode (`admin-auth.service.ts`) | session store (built-in `Map` or the host's), the cookie of each browser, `request.user` | `login`, `logout`, `requireUser`/`getCurrentUserAsync` | an ended session is never served; a request acts for the user who logged in; logins and logouts are recorded |
| `AdminAuthService`, external mode | `request.user`, "guards satisfied" mark | `resolveUser`, guards, `logout` of the host | nobody is served whom the host does not name; the page ends in the admin or at the host's login |
| `AdminAuditService` and audit stores | the entries, newest first, at most `maxEntries` | `record`, `list` | nothing of the newest `maxEntries` is lost; retention holds |
| `AdminService` | none of its own: the table, through the adapter, and the audit log | `create`, `update`, `changePassword`, `remove`, `bulkRemove`, `runAction`, `runBulkAction`, extension POSTs; `list`, `detail`, `lookup`, `getFilterOptions`, `getDeleteSummary` | answer, table and audit log agree, under interleaving and failure; the delete summary is what there is |
| Adapters (in-memory, TypeORM, MikroORM, Prisma) | the database | `findMany`, `findOne`, `create`, `update`, `delete`, `distinct` | a write does what was sent and no more; a removed row stays removed; four adapters list the same records |
| `AdminPermissionService` | none | predicates on user and schema | what a user is offered is what a user may do |
| `AdminRegistry`, `AdminExtensionRegistry` | resources, pages, nav items, widgets, panels, endpoints, filled at start-up | `register`, `initialize`, `resolveEndpoint` | unique keys, every reference resolves, links open what they name |
| BullMQ extension (`extensions/bullmq-queue`) | jobs in Redis, moved by workers | list, pause, resume, clean, empty, retry, remove, promote, related jobs | reported counts are of what was done; a job that stands still is found |
| Changelist (`ListPage.tsx`) | query, rows, total, selection, loads in flight | search, filter, order, page, select, select all, bulk action | rows, total and selection belong to the query that is set |
| Record pages (`EditPage.tsx`, `PasswordPage.tsx`, `DeleteConfirmPage.tsx`) | the form, busy buttons, requests in flight | load, save and its three ways on, actions, password, delete | the form is the record; a save changes what was edited |
| Relation pickers (`EditPage.tsx`, `ListPage.tsx`) | options, labels, lookups in flight | type, open, pick, hydrate | options are of the text, every value has its label |
| Queue pages (`BullMqQueuePage.tsx`) | tab, page, filter, rows, dialog | load, confirm, act | what is shown is what is selected; no dialog hangs |
| Shell (`App.tsx`, `LoginPage.tsx`, `DashboardPage.tsx`) | user, metadata, route | `loadAdmin`, login, logout, navigate | nothing is shown after a logout; loading ends |
| Schema providers, introspection, module, UI service | none that changes | pure translation, static files | not modelled |
| Example applications | host data, demo queues | handlers, stores | only where they implement the library's interfaces |

How they interact: the controller first awaits `requireUser`, then calls
`AdminService`, which asserts a permission synchronously, awaits the adapter,
awaits `AdminAuditService.record` and answers. `AdminAuthService` awaits the
session store and `record`. `record` awaits the audit store. The frontend sends
requests and applies answers in whatever order they arrive.

The hard behaviours: appends of many requests interleaving in the audit table;
logins, logouts and calls sharing one cookie; mutations that commit and then fail
to be recorded; `Promise.all` that rejects while its other calls go on; reads
used after an await; answers out of order in the pages, and pages that are left
while a request runs; jobs that move while an operator acts on them. PROJECT.json lists each as a hazard at its line.

## Plan

Written, in this order (most important first):

1. `NewestFirst`, `AuditLog`, `AuditStore`: every operation ends in an append,
   and it is the protocol with the most delicate interleavings.
2. `AdminSession`: the authentication of every request.
3. `AdminMutations`: the operations of `AdminService` over the four adapters.
4. `AdapterRecords`: below these, what adapters do to fields and links, and list.
5. `JobQueue`, `QueueExtension`: operators against workers; `QueuePages`: their
   pages in the browser.
6. `ListPage`, `LookupField`, `RecordPages`: the other pages. `RecordPages`
   composes `LookupField`.
7. `DeleteReview`: the summary, the confirmation and the delete, composed.
8. `Extensions`, `Navigation`, `AdminShell`: registries, permissions and routes
   as pure operators, on which the life of a browser tab is built.
9. Proofs: `AuditStore` and `AdminSession` first, then `AdminMutations`,
   `DeleteReview`, the pages (`QueuePages`, `ListPage`, `RecordPages` with
   `LookupField`), `QueueExtension` over `JobQueue`, `AdapterRecords`, and
   `AdminShell` with `Navigation` and `Extensions`.

Left: the refinement of the `Write` step of `AdminMutations` by `AdapterRecords`. The
modules use no `RECURSIVE` operator, so that they can be proved about.

## Modules

**`NewestFirst`**: entries, the order `ORDER BY "timestamp" DESC, "id" DESC`
(`Newer`), the window `list` returns (`Newest`) and the rest that `OFFSET
maxEntries` selects (`Overflow`). Ids are UUIDs in the code; only their order
counts, so they are numbers here.

**`AuditLog`** (abstract): a log whose only state is its window of the newest
`maxEntries` entries; storing an entry is one atomic step. It is what the database stores
implement. The built-in in-memory store is another matter: it keeps the order of arrival,
not of timestamps, and does so in one synchronous step, in which nothing can interleave.

**`AuditStore`**: `append` of the three database stores of the examples, one
action per query. `rows` is the table, `call[r]` the query the append of request
`r` awaits and the ids it has selected. `Record` is `AdminAuditService.record`,
which fixes id and timestamp before the `INSERT`; timestamps are arbitrary, since
appends overlap and several servers may share the table. `Abort` is a rejected
query or a dead process at any point. `inserted` and `leaked` are history
variables. `Log` is `AuditLog` under the mapping `window <- Newest(rows)`.

**`AdminSession`**: one slot per request in flight, `pc` naming the awaited
operation; `store` the session store, `cookies` the browsers. `Authenticated`
draws the id and fixes the expiry, `SetSession` stores the record and puts the
cookie on the response, `RecordAudit` ends a login or logout; `Lookup`,
`CheckSession`, `EvictExpired` are `getCurrentUserAsync`; `Fail` is a rejection,
with or without effect, at any of them; `Deliver`/`Lose` are the answers, in any
order; `Restart` loses the sessions of the in-memory store and keeps those of a
durable one. `owner` and `ended` are history: who drew an id, and which sessions have died. The choice of store is made in `Init`. A cookie lives in the browser
until it is replaced or cleared: the browser's own expiry of cookies only removes
behaviours. Drawn ids are never drawn again (`randomUUID`).

**`AdminMutations`**: per request an operation, its ids, and for each id the
stage of the call it awaits (`find`, `load`, `write`, `reload`). Adapter and soft
delete are chosen in `Init`. The differences between adapters that matter are in
four operators: `FirstCall` and `AfterWrite` (the ORMs load before an update and
re-read after a create or update), `WriteRejects` (Prisma reports missing rows to
deletes, all but the ORMs' statements to updates) and `Written` (a TypeORM `save`
re-inserts a row that has gone since it was loaded, which is that library's
documented upsert behaviour). `Reject` is `Promise.all`: the first rejection is
answered, the other calls go on. Handlers of actions and bulk actions are host
code and follow the example apps. A bulk request names each id once.
Not in it: field values, many-to-many links, the content of entries.

**`AdapterRecords`**: one resource with two scalar fields (the second a relation),
a set of links and `deletedAt`, over the adapter that `Init` chooses. A write goes
through as many queries as its adapter makes: memory and Prisma write at once; MikroORM
loads, writes in one `flush` the fields and links that differ from what was loaded
(`Flush`), and loads again; TypeORM loads, reads the row again inside `save`
(`ReadStored`), writes in what this differs from the loaded and merged entity, or inserts a
row it did not find (`Save`), removes links in one query (`Sync`), adds links in another
(`Link`), and loads again. `Brought` is what such a difference makes of the row it is
written to, which may have changed since; `Refused` says that adding a link fails when it
is there already or the row has gone, after which nothing that was written before is taken
back. That `save` diffs in this way is TypeORM's own doing, and its one transaction is one
step here.
A listing reads the owners whose label matches first (Prisma, MikroORM), then rows
and total, in any order; rows with equal sort keys come in any order, except in
memory. `quiet` and `before` are history: whether another write overlapped, and
the table at the start.

**`Lists`**: `Kept`, the filter of a list, numbers the places that stay by their rank,
where the code filters: the same list, in a form that can be reasoned about. The hard
deletes and the listings of `AdapterRecords` use it, the removal of jobs, and what a user
is shown of resources, pages and links. `Once` keeps the first of each name, as a `Map`
does that a name is set in twice.

**`JobQueue`**, **`QueueExtension`**: five job states as sequences, in the order of
BullMQ's `getJobs` (delayed jobs by the time they are due, so that a new one may come before
others; waiting jobs by their turn, which a retried, lifo or stalled job may take first; the
others oldest first), with what BullMQ accepts and sees (external: `Accepts`; `Reached`, the
jobs of a state that counts and `clean` see, none of the waiting ones while the queue is
paused) and what the workers do. Each endpoint is one
action per call of `BullMqQueueAdapter`: `ReadCounts` then `ReadPage` or, five
times, `ReadRelated`; `FindJob` then `ApplyToJob`; `SelectFailed` then `RetryNext`
for each job. An action may be requested on any job, in whatever state or gone, as a stale
page does. `moved`, `pushed`, `hidden` and `possible` are history: the jobs that moved under
a request, those that another was put before after they were counted, whether the queue was
paused as they were counted, and whether the job accepted the action when it was requested.

**`QueuePages`**: one tab of a browser on the overview, a queue or a job of it.
`view` is the state of the mounted page; a load captures the query of the render
that started it (`Effects`), and so does the load an action ends with. A page that
is left loses its state but not its requests (`Mount`, `LateEnd`, `RemovalEnds`).
A dialog is modal, as its overlay makes it to the mouse; it waits for its action and then
for the load that the action ends with (`closes`), and a failure of either releases it.

**`ListPage`**: `query` is the search, filter, order and page that are set, `input`
the text in the box, which `Debounce` copies. `Started`/`Shown` are the effects a
new query triggers, a load with the old page and another with page 1 included;
a load is the three requests for metadata, rows and labels. `selected` is the
selection, with `origins` as history: the queries it was made under.

**`LookupField`**: the four controls that show related records, with the timer of
180 ms (`TimerFires`), searches and lookups by id in flight, and the cache of
labels. A value may dangle: the server leaves ids it does not find out of its answer
(`Existing`), so that they never get a label. Which related records exist does not change
while a control is open.
**`RecordPages`** extends it by the form, the password page and the delete
confirmation: `load`, `submit` with its three ways on, `runAction`, and somebody
else who changes the record. `NormalizeValues` is what a save makes of the form. An action
keeps its buttons disabled until the load it ends with (`closes`) has come or failed.

**`DeleteReview`**: `getDeleteSummary` as its queries, in the order of its awaits
(`roots`, `related`, `one`, `many`); the button that appears if nothing is in the
way; `bulkRemove` record by record; others who link, unlink, archive and remove
meanwhile. Any query may reject, which ends the review (`QueryFails`); over Prisma the
listing of the linkers by a numeric foreign key always does, since the adapter compares
the number with the text of an id (`TextForNumber`). The tables of the host are those of its demo migrations: a foreign key
refuses the delete of what it refers to, a join table loses its rows with either
end. The in-memory adapter has neither.

**`Extensions`**: what a host registers, the extensions of the package as the
records they return, what `initialize` refuses (`Accepted`), route matching,
permissions, `_meta` (`Meta`) and the permission each route of the controller
checks (`Allows`). `Packaged` says which hosts `AdminShell` is about: those that register
the package's own extensions, or some that stay off the routes of the queues, and name
no resource like a route of the controller. **`Navigation`**: `parseRoute`, the links each page offers and
the requests each page and its buttons make, the lookups of the resources that its relation
fields refer to included. **`AdminShell`**: start of the server,
`loadAdmin`, login (or the host's), logout, with the session at the other end and
other tabs of the browser that share the cookie. A login may store its session and bring
its cookie with an answer that is an error (the audit append failed); a logout may be
answered with an error and leave session and cookie, which the page does not notice
(`LogoutAnswers`), or be lost (`LogoutFails`). `left` and `botched` are history: that this
page has logged out, and that a logout in error came while the admin started.

In all page modules `excused` (or `foreign`, `doubled`) is a history variable that
names why a page may be out of date: a load that failed, an older answer after a
newer one, a closing load of an action for a query that was left, somebody else's
change. The properties say that these are the only reasons. They are behaviours of
the code, and are listed under "What the models show".

`MC*` modules instantiate these for TLC.

## Runs

| Run | Shows | Bounds |
| --- | --- | --- |
| `audit_store` | type invariant; the newest entries are never pruned (`NewestRetained`); every row outside the window is about to be pruned or an append died (`OverflowAccounted`), hence retention at rest (`BoundedAtRest`), and each surplus row goes in the end (`SurplusIsPruned`); refinement of `AuditLog` | 3 requests, 4 entries, 2 timestamps, `maxEntries` 2 |
| `admin_session` | dead sessions are never served; requests and entries are for the owner of the session; success is recorded; a successful logout ends its session; a session that has ended never comes back (`NoResurrection`) | 2 users, 1 browser, 2 ids, 2 requests in flight, TTLs 1 and 2, clock to 2 |
| `unrecorded_login` | expected violation: a login that fails to be recorded leaves a live session | 1 of each |
| `admin_mutations` | a success is recorded and complete; recorded deletes are gone; removed rows stay removed; two Prisma deletes never claim one row; every operation ends | 2 requests, 2 ids, all adapters and both delete modes, faults and crashes |
| `unrecorded_delete` | expected violation, no faults: a bulk delete with a missing row removes the others unrecorded | the same, no faults |
| `adapter_writes` | a field changes only if a request sent it, or by the write-back of TypeORM (`OnlySentFieldsChange`); a write or a listing nobody overlapped is exact (`QuietWriteIsExact`, `QuietListingIsExact`) | 3 writers, 1 reader, 2 ids, 2 tags, 3 payloads, 2 queries, page size 1, all adapters |
| `queue_extension` | a job that does not move is found (`StableJobsAreFound`, but for the waiting jobs of a paused queue); listings hold what was asked for; counts are of what was done; an action that was possible when it was requested is refused only for a race | 2 jobs, 1 of them matching, 1 listing and 2 operators, 2 in flight, page size 1, limits 2, any state at the start |
| `queue_pages` | at rest the page shows what is selected (`ShownIsCurrent`); confirmations end | 3 tabs (completed, failed, delayed), 2 pages, 1 filter, 2 loads and 1 action in flight, 3 clicks |
| `list_page` | rows and total at rest are of the query; the selection is of the query; "all" is all; the search follows the text | 3 records of which 1 is archived, 2 filters, page size 1, 2 loads, 1 action, 3 clicks |
| `record_pages` | an untouched form shows the record; a save keeps what was not touched; busy ends, also when the load that an action ends with fails; options of the pickers are right, and labels of all values whose record exists | 2 related records and an id that dangles, 3 names, 2 lookups, 1 request, 3 clicks |
| `delete_review` | a review nobody disturbed, and none of whose queries rejected, is exact up to its page; a delete it let through is refused only for a change or an archived record | 2 roots, 2 linkers, page size 1, 2 changes, in memory, lenient (the ORMs) and Prisma with text and numbers for ids, both delete modes |
| `admin_shell` | what is offered is allowed (but for lookups of resources that are not listed), links open their page, nothing is shown after a logout (but for one answered with an error during a start), loading ends | 7 hosts (4 of them refused or clashing), 3 users, 3 sessions, 2 logouts, 2 outside events, both modes |

Why the bounds are enough. `audit_store`: two timestamps give ties and inversions,
four entries overflow a window of two twice, three appends let one insert and one
delete between the steps of a third. `admin_session`: the interference is between
a request and one other on the same cookie; two ids and two users let a login
replace another's session, and the clock passes both lifetimes. The requests of
another browser meet this one only in the store, under another id.
`admin_mutations`: every property relates one request to at most one other on one
row, and the second row makes bulk operations partial. `adapter_writes`: three
writers let two requests overlap and a third come between load and write; two ids
make a page of one record overflow, and let the clock of memory stand still for a
collision. `queue_extension`: a matching job and another one push each other across
a page of one; two operators race for a job; a panel of two meets its limit.
The pages: a wrong order needs two loads, and three clicks reach a second page,
change the query and act. `delete_review`: with a page of one, two linkers exceed it
as a hundred and one do in the code; one change may fall between any two queries and
a second undo it. `admin_shell`: the hosts have one fault each, and the good ones
every kind of page, link, widget and panel; two logouts overlap.

Deadlock checking is off in all runs because requests, clicks, entries and clock
are finite: when they are used up the model stops, and a server or a page with
nothing to do may stop as well.

Symmetry (users, browsers, ids, requests, writers, operators, records) is used in
`admin_session`, `adapter_writes`, `queue_extension` and `delete_review`, which
have no liveness property. Ids of audit entries are ordered and never symmetric.

## Fairness

`AuditStore`: every query that was sent is answered (weak fairness of the three
query actions of each request); new requests need not come, and need not stop. `SurplusIsPruned`
is therefore about each row, since the table as a whole may stay above `maxEntries` while
appends overlap without a pause; and it is stated up to `leaked`, since a dead append
prunes nothing. `AdminMutations`:
weak fairness of each continuation and each call, because the event loop runs what
is ready; starting a request, faults and crashes are not fair. The pages
(`QueuePages`, `ListPage`, `RecordPages`, `AdminShell`): weak fairness of the steps
that answer requests, because a `fetch` resolves or rejects in the end; a rejection
counts, so that liveness must survive it. `ListPage` also assumes that its timer
fires. What the operator does is never fair. The other modules have safety
properties only.

## Proofs

Each `*Proofs` module extends the module it is about; `AdminMutationsProofs` and
`QueueExtensionProofs` extend two. All but one follow one plan: an inductive invariant
`Inv`, one lemma for each action that it keeps `Inv` (`InitInv`, `NextInv`), the theorem
`Invariance == Spec => []Inv`, and the properties as its consequences. `AuditStoreProofs`
gives each invariant a theorem of its own. TLC has checked each `Inv` on the bounds of the
run before it was proved.

**`AuditStoreProofs`**, for any ids, times, requests and `MaxEntries`:
`TypeCorrect`, `NewestAreRetained`, `OverflowIsAccounted`, `TableBoundedAtRest`
and `StoreImplementsLog`. First come lemmas on `NewestFirst`: `Newer` is a strict
order; `Newest` and `Overflow` split a finite set; overflow only grows with the set;
the window has at most `MaxEntries` members, and removing overflow does not change it
(by well-founded induction over finite subsets, as the library's theorem on strict
subset ordering provides it). The inductive invariant adds to `NewestRetained` that
the rows were all inserted and that whatever an append has selected lies outside
the window of everything inserted so far. The selection was made from `rows` at
an earlier time: `NewestRetained` alone would not say why it may still be deleted
now. It may because overflow is monotone (`OverflowMonotone`): an entry that has
`MaxEntries` newer ones keeps them, since entries are only added to `inserted`.
The refinement follows: `Record`, `SelectOverflow`, `DeleteOverflow` and `Abort`
leave `Newest(rows)` alone and `Insert` is `Store`. Assumptions:
`MaxEntries \in Nat`, ids and times natural numbers, and nothing else.

**`AdminSessionProofs`**, for any users, browsers, ids, requests and lifetimes: the
type invariant and all five safety properties of `AdminSession`. None of the
properties is inductive alone. That a dead session is never served needs that it
*stays* dead (`LateIsDead`), also for a request that has read its record before;
that needs that nobody but the login that drew an id ever stores a record under
it, and that until then the id is in no cookie and in no other request
(`PendingIsPrivate`), which in turn needs that an id not yet drawn is known to
nobody (`UndrawnIsUnknown`). `LoggedOut` uses the same facts. That an ended session
never comes back (`EndedIsOver`) is kept beside: every record appears under an id that no
earlier session had, so that an ended id, which was drawn, is none that a login is about
to store (`StepFacts`); this does not depend on any browser still having the id.
`UserIsOwner` is `ActsForOwner` for every place a user is kept in.
Assumptions: the lifetimes are natural numbers and `None` is neither a user nor
an id; and, in the model itself, that ids are never drawn twice.

**`AdminMutationsProofs`**, for any finite set of ids and any requests, over every adapter
and delete mode, with faults and crashes: `SuccessIsComplete`, `RemovalsAreFinal`,
`DeletesAddUp` and `DeletesPrecedeTheirEntries`. The invariant relates each request to the
stages of its calls (`Shaped`: which operation may be at which stage over which adapter),
its success to its audit entry (`Audited`), and effects to the table: until its insert the
id that a create has drawn is new to everyone (`CreatedIsNew`); except over TypeORM, whose
`save` may bring a row back, a row whose removal was answered is gone until the delete has
been recorded (`AnsweredAreGone`), and is removed by one request only (`RemovedOnce`); a
hard delete over Prisma that has its answer is the one that removed the row
(`AnsweredAreClaimed`). Finite ids are what the code has: one request names as many as fit
in its body.

Its second part is about `DeleteReview`, for any records, links, page sizes and changes by
others (`ReviewInv`; its definitions are named `Review...` so that one module can extend
both): `ReviewsAreExact` and `RefusalsHaveAReason`. What has been read so far is right as long as
nobody interferes, stage by stage (`Progress`); of each root the dialog shows the linkers
of one page at least, or all of them (`Shows`); and a hard delete that was confirmed is of
roots that no visible record blocks, for as long as it runs (`Confirmed`). Assumptions:
finitely many linkers, and no record is both a root and a linker, as two resources never
share rows.

The pages share an argument, which the code never states: however many loads are in flight,
**the last one to have been sent puts things right, or all of them are excused**. A load that
ends excuses those that were sent before it, which may still bring what is out of date, and
leaves those sent after it as they are. So the last one stays the last, and when it ends
nothing but excused loads is left
(`LoadEnds` in `ListPageProofs` and `RecordPagesProofs`). A successful action that belongs to
the mounted page makes the page stale on purpose until its closing load is sent (`Pending`).
Each of the three page proofs starts with what it needs of `RemoveAt` and of changes in
place on its lists of requests in flight.

**`QueuePages`**, in the second part of `QueueExtensionProofs` (its definitions are named
`Page...`): `PagesAreCurrent`, from `Settling` (the view is current, or what will
make it so is under way) and `ActionsHaveTheirPage` (a mounted action belongs to the page and
queue that is mounted); `DialogsAreReleased`, that a dialog that waits does so for an action
of its own page that has not ended, or for the load it has ended with (`Closing`). Assumption: the tabs are job states.

**`ListPageProofs`**: `RowsEndCurrent`, `SelectionsFollowTheQuery`, `AllIsEveryMatch`. Rows and
total each have an account of their own, since one may arrive without the other, and the
two are restored by different loads. That a listing is determined by the query takes that a
finite set of records can be ordered in one way only; as a recursive definition could not be
reasoned about, `Ordered` takes the sequence by its property, and `CanBeOrdered` shows that
there is one (by the rank of each record). The selection is a set of answers to one query
(`Selection`), and what "select all" collects page by page is all of it (`PickIsWhole`).
Assumptions: finitely many records, numbered, and filters that are values of the field.

**`RecordPagesProofs`** is in two halves, for any number of lookups, loads and requests. The
control (`FieldInv`): the last search in flight is for what is typed, or no search is on its
way that could bring other options (`OptionsAccounted`); each selected value whose record exists has its
label or some lookup in flight will bring it (`LabelsAccounted`), for which a read-only
control must ask for its present value and nothing else. From these
`OptionsEndCurrent` and `LabelsEndComplete`. The page (`PageInv`): the argument of loads
above for the record (`FormAccounted`); a field that has not been touched is as it was
loaded (`UntouchedIsBase`), and is so in every request that was sent from the form
(`SentRight`); a mounted request comes from the page that is mounted
(`PostsHaveTheirPage`), without which an answer might empty another form. From these
`FormsEndCurrent` and `SavesKeepUntouched`. The page changes the control only by `SetValue`
and by mounting a new one, so that the halves meet in `SetValueInv` and `MountInv`.
Assumptions: texts are not `None` or `Failed`, and "done", which the host's action writes,
is a name.

**`QueueExtensionProofs`**, for any finite set of jobs, any requests and any sizes of pages
and limits: `ListingsFindStableJobs`, `ListingsAreSound`, `CountsAreOfWhatWasDone` and
`RefusalsComeFromRaces`. Every step of workers, host and other operators is a `Shift`: it
changes the state only of the jobs it names, and no other job moves away from the front of
its state, except those that another is put before (`RemovedShift`, `InsertedShift`,
`MovedAfterShift`). That is why a count that was read
before the jobs may be out of date and still lets no job slip through: a job that has neither
moved nor been put back stays within the first `count` places. What a request relies on (`Found`,
`ShownOnce`, `OpPossible`, `OpCounts`) speaks of the jobs not in `moved`, so a `Shift` by
anyone keeps it (`ReadKept`, `OpKept`); and a job is in one place of the queue at a time
(`OnePlace`), so that a related-jobs listing, which reads one state after the other, shows
it once. Assumptions: finitely many jobs, the filter matches jobs, page and panel sizes,
limits and pages are at least 1, and listings and actions are different requests.

**`AdapterRecordsProofs`**, for any payloads and queries, any number of writers and readers,
and tables and ids of any size: `FieldsAreAccounted`, `QuietWritesAreExact` and
`QuietListingsAreExact`. `Inv` says that the table and the requests keep their shapes and
that an entity is loaded for the record it is written to (`EntityIsLoaded`). Each change of
the table is a record added, records replaced in their places, or records left out
(`AddedRow`, `RowsInPlace`, `RowsLeft`), and each accounts for every field it changes. For a
request that no other has overlapped, `Stage` says what it has done at each of its steps: to
other records nothing; to its own what was sent, as far as it has come (`Written`: the
fields after `Save`, without the links that must go after `Sync`, with those that must come
after `Link`); and what it has loaded, and read again, is what the table has. Then what is
written as a difference is the whole (`BroughtProperties`: a row brought from itself to an
entity is that entity), although neither query looks at the row it changes. Of a create or update whose record shares its id with
another row in memory it claims nothing. For a listing that nothing was written under
(`ReadsInv`), each part that it has read is right already. That its page is right whichever
of the equal rows a database puts first rests on two lemmas: `Matching` takes each wanted row
from one place (`MatchingProperties`), and in a sorted list fewer than k rows are smaller
than the k-th and at least k are no greater (`SortedPlaces`). Assumptions: data and queries
have their types, page sizes are at least 1, the first records have different ids, and no
slot is a writer and a reader.

**`AdminShellProofs`**, for any hosts of the kind below, any users and permissions, and any
number of sessions and logouts: `TypeCorrect`, `SignedOutTabsShowNothing`, `OffersAreAllowed` and
`LinksOpenPages`. The second has an invariant about the tab (`Inv`): a load or a login never
runs behind the admin's screen (`LoadsAreNotIn`), and the load that outlives a logout can
no longer bring the user back, since the cookie is gone before its user is asked for, or its
user has been forgotten (`LeftStaysOut`). A logout that was answered with an error has left
the cookie, so that this fails of a load that has yet to ask for its user: these are the
ones that `botched` names. The last two are about what is computed from the
registrations, and need of the tab only that what it shows has its type and comes from a
host whose extensions were accepted (`ShownInv`).

Their argument runs along the lists. Filtering, joining and flattening are described by
their members and, where the first match counts, by their order (`KeptElements`,
`OnceElements`, `FlatElements`, `Following`); that the community modules' `FlattenSeq`,
which is a recursive function, has a value at all is shown by the least list on which it
would not. From these follows what each part of the queue extension consists of
(`QueueExtensionParts`), that the first endpoint to match a call of a queue page is one of
that extension and needs the permission of its kind (`EndpointAllowed`), and hence that a
user who may read queues may make every call of their pages, and one who may write those of
their buttons (`QueueCalls`).
Then every link that is offered opens the home page, the audit log, a page that the user
may read, or a page of a resource that he may read (`LinksGranted`), and each of these asks
only for what the same permission allows (`HomeAsks`, `PageAsks`, `ResourceAsks`); the
lookup of a related resource is allowed when the server lists that resource. The list
and the form of a resource offer to write only where writing is allowed. For
`LinksOpenPages`, the registry's refusals give one page to each slug (`OnePageOfASlug`) and
a page to each link (`LinkedPages`); without a clash the first page that matches a route is
the one whose route it is (`Opens`).

Assumptions: registrations and permissions have their types, and `PackageAssumption`. A
host registers the queue extension as the package builds it, or extensions whose pages are
embedded and do not lie at `audit-log`, whose panels show no queues and whose endpoints do
not lie below `queues`; no resource is named like a route of the controller. Nothing in the
registries checks this, and without it `OfferedIsAllowed` is false: an extension of the
host's own may shadow an endpoint of the queues by one with another permission, and a page
at `audit-log` is offered to readers whom the audit log refuses. Of the package's own
extensions each is of one kind or the other.

Only model-checked: liveness (`SurplusIsPruned`, `EveryOperationEnds`,
`ConfirmationEnds`, `SearchSettles`, `BusyEnds`, `LoadingEnds`), which is out of the
prover's reach, as are `ENABLED` and induction over data. Every safety property of a
run has a theorem. The type invariants of `AdminShell` and `AdapterRecords` are no property
of a run, where the deeper properties have the place: the first is a theorem
(`TypeCorrect`), the second is proved as part of `Inv`, but for the bound on ids.

## Divergences found

* `unrecorded_login`: `src/README.md:1341` lists login among the recorded events;
  `login` stores the session before it awaits the append (`admin-auth.service.ts:60-74`).
* `unrecorded_delete`: `src/README.md:1343` lists deletes among the recorded
  events; `bulkRemove` records one entry after all deletes succeeded
  (`admin.service.ts:290-315`).

## What the models show

None of this is ruled out by a text of the repository; the properties make each an
exception by name, so that TLC would show any other.

* Adapters: a TypeORM `save` puts back the columns others changed since it loaded
  the row, `deletedAt` included (it writes the difference between the entity it loaded and
  the row it reads again), and re-inserts a removed row; two updates of the
  links of one record leave the union or intersection of what was sent; adding a
  link that is there already fails after the fields were saved and the links that were not
  sent removed (`addAndRemove` is two queries, `typeorm.adapter.ts:390-394`). In memory two
  creates of one millisecond share an id. Overlapping bulk deletes both count the
  rows they share, except with Prisma.
* Queues: BullMQ does not count the waiting jobs of a paused queue as waiting, so that
  their tab says 0 and a listing by payload or of related jobs finds none of them
  (`index.ts:159-165`, `195-196`; the demo pauses a queue that has some); a job that another
  is put before between count and jobs falls out of a listing; a listing of related jobs,
  which goes state by state, may show a moving job twice or miss it; the endpoints check
  neither state nor existence of a job, so that a stale page is answered with an error; `retry-failed` stops at the first job that somebody else
  has retried; `empty` also resumes a paused queue. A panel on a payload field that
  is no filter always says that there are no related jobs
  (`createDetailPanels` accepts the field, the endpoint knows filters only).
* Queue pages: an action reloads the tab, page and filter of the render it was
  pressed in, and the page number is not taken back when jobs become fewer;
  Pause/Resume can be pressed twice; a removal answered late takes the operator to
  the queue wherever he is; every load resets filters that were typed but not
  applied.
* Changelist: the selection spans pages while its banner counts this page; an
  answer to "select all" that crosses with a new filter selects by the old one, and
  a bulk action leaves the selection as it was; rows of an older query stay
  when a newer load has failed.
* Record pages: a value whose record is gone keeps its raw id for a label, and a picker
  asks for it again after every search; a save sends all fields, so that it undoes what others changed; a
  save before the record has come sends the empty form; late answers change the
  hash of a page the operator has gone on to.
* Delete: over Prisma the review of a record to which others refer by a numeric foreign
  key ends in an error, so that it cannot be deleted from the admin (`admin.service.ts:836`
  passes the id as text, `prisma.adapter.ts:184-192` compares it as it is); in the demo, of
  a user, to whom orders refer. Archived records are not in the review though the database counts them,
  and of many linking records the first hundred are. A refused bulk delete has
  deleted the others.
* Shell: `logoutAdmin` does not look at the status of the answer
  (`auth.service.ts:40-44`): after an error the page says that nobody is signed in while
  session and cookie may live, and a reload shows the admin again; so does, without a reload, a
  load under way when the error answers a second press of "Log out" after a new login. A
  login that fails to be recorded is shown as an error and leaves a cookie that works.
  Whoever may read a resource is offered lists and forms that look up the resources its
  relations refer to, which the server refuses to those who may not read these
  (`admin.service.ts:443`): the list and a read-only field keep the raw id, the form does
  not catch the error (`EditPage.tsx:611`, `628`) and has no options. Pressing "Log out"
  twice may log out a login that came between, and leave the page loading; a resource may not be named like a page's route, `home` or
  `audit-log`, and nothing says so at start-up.

## Not modelled

Rendering, layout, wording, toasts, breadcrumbs and document titles; static files
and dependency injection; schema translation and validation of fields (pure, once
at start-up or per payload; a refusal is modelled); the construction of queries;
`distinct` and filter options; the visibility filter and paging of the audit list
and its page, which change no state; the audit events that handlers of extension
endpoints return; the order of guards within a request of external mode; migrations and demo data. The default read permission of
the audit log differs between `src/README.md` and the code; the models take the
permission as given.
