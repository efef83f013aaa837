----------------------------- MODULE Extensions -----------------------------
(***************************************************************************)
(* What the host application registers, what of it a user may see and      *)
(* call, and what the addresses of the browser open: the resource registry *)
(* (admin.registry.ts), the extensions that come with the package, the     *)
(* extension registry and its routes, the permission service, the routes   *)
(* of the controller, and the links and routes of the frontend.            *)
(*                                                                         *)
(* A route is the sequence of its segments, so a leading or trailing slash *)
(* makes no difference; Param stands for any parameter.  A permission is   *)
(* the pair of its words.  Order, layout and wording are left out.         *)
(***************************************************************************)
EXTENDS Naturals, Sequences, SequencesExt, Lists

Param == ":"
None  == <<>>

Routes  == Seq(STRING)
Slugs   == Seq(STRING)
Keys    == Seq(STRING)
Screens == {"embed", "overview", "detail", "job"}
Modes   == {"list", "edit", "view", "password", "delete"}

Page     == [slug : Slugs, route : Routes, screen : Screens, read : SUBSET Keys]
NavItem  == [key : Keys, kind : {"page", "href"}, slug : Slugs, read : SUBSET Keys]
Widget   == [key : Keys, kind : {"page-link", "route", "href"}, slug : Slugs,
             route : Routes, read : SUBSET Keys]
Panel    == [key : Keys, resource : STRING, queues : Seq(STRING), read : SUBSET Keys]
Endpoint == [key : Keys, method : {"GET", "POST"}, path : Routes, needs : SUBSET Keys]

Extension ==
  [ id : Keys, pages : Seq(Page), navItems : Seq(NavItem), widgets : Seq(Widget),
    panels : Seq(Panel), endpoints : Seq(Endpoint) ]

(* The part of AdminModuleOptions that matters here.                       *)
ModuleOptions ==
  [ resources  : Seq(STRING),                  \* names, in the order found
    relations  : SUBSET (STRING \X STRING),    \* a resource, and one its fields refer to
    extensions : Seq(Extension),
    audit      : [enabled : BOOLEAN, read : SUBSET Keys] ]

User == [superuser : BOOLEAN, permissions : SUBSET Keys]

-----------------------------------------------------------------------------
(* The extensions of the package.                                          *)

Empty ==
  [ id |-> None, pages |-> <<>>, navItems |-> <<>>, widgets |-> <<>>,
    panels |-> <<>>, endpoints |-> <<>> ]

(* A page in a frame; its link takes the permissions of the page unless it *)
(* has its own.                                                            *)
EmbedPageExtension(id, page, navRead) ==
  [Empty EXCEPT
    !.id       = id,
    !.pages    = << [page EXCEPT !.screen = "embed"] >>,
    !.navItems = << [key |-> Append(id, "nav"), kind |-> "page", slug |-> page.slug,
                     read |-> IF navRead = {} THEN page.read ELSE navRead] >>]

DashboardLinkWidgetExtension(id, kind, slug, route, read) ==
  [Empty EXCEPT
    !.id      = id,
    !.widgets = << [key |-> Append(id, "widget"), kind |-> kind, slug |-> slug,
                    route |-> route, read |-> read] >>]

QueuesRead  == {<<"queues", "read">>}
QueuesWrite == {<<"queues", "write">>}

QueueActions == <<"pause", "resume", "empty", "clean", "retry-failed">>
JobActions   == <<"retry", "remove", "promote">>

QueueActionEndpoint(action) ==
  [ key |-> <<"queues", action>>, method |-> "POST", needs |-> QueuesWrite,
    path |-> <<"queues", Param, "actions", action>> ]

JobActionEndpoint(action) ==
  [ key |-> <<"queues", "job", action>>, method |-> "POST", needs |-> QueuesWrite,
    path |-> <<"queues", Param, "jobs", Param, "actions", action>> ]

QueueReadEndpoint(name, path) ==
  [key |-> <<"queues", name>>, method |-> "GET", needs |-> QueuesRead, path |-> path]

QueueEndpoints ==
  << QueueReadEndpoint("list", <<"queues">>),
     QueueReadEndpoint("detail", <<"queues", Param>>),
     QueueReadEndpoint("jobs", <<"queues", Param, "jobs">>),
     QueueReadEndpoint("job-detail", <<"queues", Param, "jobs", Param>>),
     QueueReadEndpoint("related", <<"queues", Param, "related">>) >>
  \o [i \in DOMAIN QueueActions |-> QueueActionEndpoint(QueueActions[i])]
  \o [i \in DOMAIN JobActions |-> JobActionEndpoint(JobActions[i])]

(* A panel keeps the links to queues that exist; one without links is      *)
(* dropped.                                                                *)
QueuePanels(queues, recordPanels) ==
  LET Of(p)  == [key |-> <<"queues", "related", p.resource>>, resource |-> p.resource,
                 queues |-> Kept(p.queues, ToSet(queues)), read |-> QueuesRead]
      panels == [i \in DOMAIN recordPanels |-> Of(recordPanels[i])]
  IN Kept(panels, {p \in ToSet(panels) : p.queues # <<>>})

QueuePages(queues) ==
  LET Screen(slug, route, screen) ==
        [slug |-> slug, route |-> route, screen |-> screen, read |-> QueuesRead]
  IN << Screen(<<"queues-overview">>, <<"queues">>, "overview") >>
     \o [i \in DOMAIN queues |->
           Screen(<<"queue", queues[i]>>, <<"queues", queues[i]>>, "detail")]
     \o << Screen(<<"queue-job-detail">>, <<"queues", Param, "jobs", Param>>, "job") >>

QueueNavItems(queues) ==
  LET Link(key, slug) ==
        [key |-> key, kind |-> "page", slug |-> slug, read |-> QueuesRead]
  IN << Link(<<"queues", ":overview">>, <<"queues-overview">>) >>
     \o [i \in DOMAIN queues |-> Link(<<"queues", queues[i]>>, <<"queue", queues[i]>>)]

BullmqQueueExtension(queues, recordPanels) ==
  [ id |-> <<"bullmq-queues">>, pages |-> QueuePages(queues),
    navItems |-> QueueNavItems(queues), widgets |-> <<>>,
    panels |-> QueuePanels(queues, recordPanels), endpoints |-> QueueEndpoints ]

-----------------------------------------------------------------------------
(* The registries.                                                         *)

Every(options, part) ==
  FlattenSeq([i \in DOMAIN options.extensions |-> options.extensions[i][part]])

Distinct(list, field) ==
  \A i, j \in DOMAIN list : list[i][field] = list[j][field] => i = j

NamesKnownPages(list, kind, slugs) ==
  \A i \in DOMAIN list : list[i].kind = kind => list[i].slug \in slugs

(* The server starts only with extensions that have an id, name each thing *)
(* once and link to pages that exist.  Routes and resource names are not   *)
(* compared.                                                               *)
Accepted(options) ==
  LET pages == Every(options, "pages")
      slugs == {pages[i].slug : i \in DOMAIN pages}
  IN /\ \A i \in DOMAIN options.extensions : options.extensions[i].id # None
     /\ Distinct(pages, "slug")
     /\ \A part \in {"navItems", "widgets", "panels", "endpoints"} :
           Distinct(Every(options, part), "key")
     /\ NamesKnownPages(Every(options, "navItems"), "page", slugs)
     /\ NamesKnownPages(Every(options, "widgets"), "page-link", slugs)

(* A resource replaces the one of the same name, in its place.             *)
Resources(options) == Once(options.resources)

RouteMatches(pattern, path) ==
  /\ Len(pattern) = Len(path)
  /\ \A i \in DOMAIN pattern : pattern[i] \in {Param, path[i]}

ResolveEndpoint(options, method, path) ==
  LET endpoints == Every(options, "endpoints")
  IN Kept(endpoints, {e \in ToSet(endpoints) : e.method = method /\ RouteMatches(e.path, path)})

-----------------------------------------------------------------------------
(* What a user may see and call.                                           *)

(* No required permission means superusers only.                           *)
HasPermission(user, keys) == user.superuser \/ keys \cap user.permissions # {}

CanRead(user, resource)  == HasPermission(user, {<<resource, "read">>})
CanWrite(user, resource) == HasPermission(user, {<<resource, "write">>})

Visible(user, list) == Kept(list, {x \in ToSet(list) : HasPermission(user, x.read)})

CanReadAudit(options, user) ==
  options.audit.enabled /\ HasPermission(user, options.audit.read)

(* A mutant: pages are listed whatever the permissions.                    *)
MetaAllPages(options, user) ==
  [ resources |-> Kept(Resources(options), {r \in ToSet(Resources(options)) : CanRead(user, r)}),
    pages     |-> Every(options, "pages"),
    navItems  |-> Visible(user, Every(options, "navItems")),
    widgets   |-> Visible(user, Every(options, "widgets")),
    audit     |-> CanReadAudit(options, user) ]

Meta(options, user) ==
  [ resources |-> Kept(Resources(options), {r \in ToSet(Resources(options)) : CanRead(user, r)}),
    pages     |-> Visible(user, Every(options, "pages")),
    navItems  |-> Visible(user, Every(options, "navItems")),
    widgets   |-> Visible(user, Every(options, "widgets")),
    audit     |-> CanReadAudit(options, user) ]

Panels(options, user, resource) ==
  LET panels == Visible(user, Every(options, "panels"))
  IN Kept(panels, {p \in ToSet(panels) : p.resource = resource})

(* The routes of the controller: which requests of a user who is signed in *)
(* pass the permission checks.                                             *)
MayCallEndpoint(options, user, method, path) ==
  LET found == ResolveEndpoint(options, method, path)
  IN found # <<>> /\ HasPermission(user, Head(found).needs)

Allows(options, user, request) ==
  LET path == request.path
      name == IF Len(path) = 2 /\ path[1] \in {"_meta", "_lookup"} THEN path[2] ELSE path[1]
      writes == request.method # "GET" \/ path[Len(path)] = "_delete-summary"
  IN CASE path = <<"_meta">>        -> TRUE
       [] path = <<"_audit">>       -> CanReadAudit(options, user)
       [] path[1] = "_extensions"   ->
            MayCallEndpoint(options, user, request.method, Tail(path))
       [] OTHER ->
            /\ Contains(Resources(options), name)
            /\ IF writes THEN CanWrite(user, name) ELSE CanRead(user, name)

-----------------------------------------------------------------------------
(* Hosts that register what comes with the package, and give neither their *)
(* resources nor their pages and routes an address that the controller,    *)
(* the frontend or the queue extension keeps for itself.                   *)

Reserved == {"_meta", "_lookup", "_audit", "_extensions", "_delete-summary", "audit-log"}

IsQueueExtension(extension) ==
  LET pages  == extension.pages
      queues == [i \in 1..(Len(pages) - 2) |-> pages[i + 1].slug[2]]
  IN /\ Len(pages) >= 2
     /\ \A i \in 2..(Len(pages) - 1) : Len(pages[i].slug) = 2
     /\ extension = BullmqQueueExtension(queues, extension.panels)

StaysOffQueues(extension) ==
  /\ \A p \in ToSet(extension.pages) : p.screen = "embed" /\ p.route # <<"audit-log">>
  /\ \A p \in ToSet(extension.panels) : p.queues = <<>>
  /\ \A e \in ToSet(extension.endpoints) :
        e.path # None => e.path[1] \notin {"queues", Param}

Packaged(options) ==
  /\ ToSet(options.resources) \cap Reserved = {}
  /\ \A e \in ToSet(options.extensions) : IsQueueExtension(e) \/ StaysOffQueues(e)
=============================================================================
