----------------------------- MODULE Navigation -----------------------------
(***************************************************************************)
(* The addresses of the frontend: what an address opens (parseRoute of     *)
(* App.tsx), what the pages offer to follow or to press, and what each     *)
(* page asks of the server when it opens.  meta is what the server told    *)
(* this user; ":id" stands for the id of a record, ":job" for a job's.     *)
(***************************************************************************)
EXTENDS Extensions

Id  == ":id"
Job == ":job"

Get(path)  == [method |-> "GET", path |-> path]
Post(path) == [method |-> "POST", path |-> path]

Home  == [kind |-> "home"]
Audit == [kind |-> "audit"]

PageRoute(page, path) == [kind |-> "page", page |-> page, path |-> path]

ResourceRoute(resource, mode, id) ==
  [kind |-> "resource", resource |-> resource, mode |-> mode, id |-> id]

Segment(path, i) == IF i <= Len(path) THEN path[i] ELSE ""

(* The page of a resource that the rest of the address names.              *)
ResourcePage(resource, path) ==
  LET mode == Segment(path, 2)
      id   == Segment(path, 3)
  IN CASE mode = "delete" /\ id # "" -> ResourceRoute(resource, "delete", id)
       [] mode = "edit" /\ id # "" /\ Segment(path, 4) = "password" ->
            ResourceRoute(resource, "password", id)
       [] mode = "new"  -> ResourceRoute(resource, "edit", "")
       [] mode = "edit" /\ (id = "" \/ Segment(path, 4) # "password") ->
            ResourceRoute(resource, "edit", id)
       [] mode = "view" -> ResourceRoute(resource, "view", id)
       [] OTHER         -> ResourceRoute(resource, "list", "")

(* A mutant: a page is found by the beginning of the address.              *)
OpensByPrefix(meta, path) ==
  LET found == Kept(meta.pages, {p \in ToSet(meta.pages) :
                                   /\ Len(p.route) <= Len(path)
                                   /\ RouteMatches(p.route, SubSeq(path, 1, Len(p.route)))})
      named == Kept(meta.resources, {Segment(path, 1)})
  IN IF path \in {None, <<"home">>} THEN Home
     ELSE IF path = <<"audit-log">> THEN Audit
     ELSE IF found # <<>> THEN PageRoute(Head(found), path)
     ELSE IF named \o meta.resources # <<>>
       THEN ResourcePage(Head(named \o meta.resources), path)
     ELSE IF meta.pages # <<>> THEN PageRoute(Head(meta.pages), Head(meta.pages).route)
     ELSE Home

(* The first page whose route matches, else the resource of that name,     *)
(* else the first resource, else the first page.                           *)
ParseRoute(meta, path) ==
  LET found == Kept(meta.pages, {p \in ToSet(meta.pages) : RouteMatches(p.route, path)})
      named == Kept(meta.resources, {Segment(path, 1)})
  IN IF path \in {None, <<"home">>} THEN Home
     ELSE IF path = <<"audit-log">> THEN Audit
     ELSE IF found # <<>> THEN PageRoute(Head(found), path)
     ELSE IF named \o meta.resources # <<>>
       THEN ResourcePage(Head(named \o meta.resources), path)
     ELSE IF meta.pages # <<>> THEN PageRoute(Head(meta.pages), Head(meta.pages).route)
     ELSE Home

-----------------------------------------------------------------------------
(* Links.                                                                  *)

(* A link to a page that this user may not see leads home.                 *)
PageHref(meta, slug) ==
  LET found == Kept(meta.pages, {p \in ToSet(meta.pages) : p.slug = slug})
  IN IF found = <<>> THEN None ELSE Head(found).route

SidebarLinks(meta) ==
  {None}
  \cup {<<r>> : r \in ToSet(meta.resources)}
  \cup {PageHref(meta, n.slug) : n \in {x \in ToSet(meta.navItems) : x.kind = "page"}}
  \cup (IF meta.audit THEN {<<"audit-log">>} ELSE {})

(* The cards of the dashboard; a widget may also lead wherever the host    *)
(* says (kinds route and href).                                            *)
DashboardLinks(meta, user) ==
  {<<r, "new">> : r \in {x \in ToSet(meta.resources) : CanWrite(user, x)}}
  \cup {PageHref(meta, w.slug) : w \in {x \in ToSet(meta.widgets) : x.kind = "page-link"}}

(* The links of a resource's own pages.                                    *)
RecordLinks(resource, user) ==
  IF CanWrite(user, resource)
  THEN { <<resource, "new">>, <<resource, "edit", Id>>, <<resource, "delete", Id>>,
         <<resource, "edit", Id, "password">> }
  ELSE { <<resource, "view", Id>> }

QueueLinks(page) ==
  IF page.screen = "detail"
  THEN {Append(page.route, "jobs") \o <<Job>>, page.route}
  ELSE {}

OfferedLinks(meta, user) ==
  SidebarLinks(meta) \cup DashboardLinks(meta, user)
  \cup (UNION {RecordLinks(r, user) : r \in ToSet(meta.resources)})
  \cup (UNION {QueueLinks(p) : p \in ToSet(meta.pages)})

-----------------------------------------------------------------------------
(* Requests.                                                               *)

(* The dashboard counts every resource and reads the newest entries.       *)
DashboardRequests(meta) ==
  {Get(<<r>>) : r \in ToSet(meta.resources)}
  \cup (IF meta.audit THEN {Get(<<"_audit">>)} ELSE {})

QueueRequests(page, path) ==
  LET queue == <<"_extensions", "queues", Segment(path, 2)>>
  IN CASE page.screen = "overview" -> {Get(<<"_extensions", "queues">>)}
       [] page.screen = "detail"   -> {Get(queue), Get(Append(queue, "jobs"))}
       [] page.screen = "job"      -> {Get(queue), Get(queue \o <<"jobs", Segment(path, 4)>>)}
       [] OTHER                    -> {}

(* What the buttons of the queue pages send to who may manage queues.      *)
QueueButtons(page, path, user) ==
  LET queue == <<"_extensions", "queues", Segment(path, 2)>>
  IN IF page.screen \in {"detail", "job"} /\ HasPermission(user, QueuesWrite)
     THEN {Post(queue \o <<"actions", a>>) : a \in ToSet(QueueActions)}
          \cup {Post(queue \o <<"jobs", Job, "actions", a>>) : a \in ToSet(JobActions)}
     ELSE {}

(* The page of a record shows the panels of its resource.                  *)
PanelRequests(panels) ==
  UNION {{Get(<<"_extensions", "queues", q, "related">>) : q \in ToSet(p.queues)} :
         p \in ToSet(panels)}

(* A relation field shows and offers records of the resource it refers to: *)
(* in a list, its filters, a form and a view.                              *)
Lookup(resource) == Get(<<"_lookup", resource>>)

Related(options, resource) ==
  {relation[2] : relation \in {x \in options.relations : x[1] = resource}}

RecordRequests(route, panels, related) ==
  LET r       == route.resource
      lookups == {Lookup(to) : to \in related}
  IN CASE route.mode = "list"     -> {Get(<<"_meta", r>>), Get(<<r>>)} \cup lookups
       [] route.mode = "delete"   -> {Get(<<r, "_delete-summary">>)}
       [] route.mode = "password" -> {Get(<<r, route.id>>)}
       [] OTHER -> {Get(<<"_meta", r>>)} \cup lookups
                   \cup (IF route.id = "" THEN {}
                         ELSE {Get(<<r, route.id>>)} \cup PanelRequests(panels))

(* A page of a resource that may be changed has the buttons to do so.      *)
RecordButtons(route, user) ==
  LET r == route.resource
  IN IF CanWrite(user, r) /\ route.mode # "view"
     THEN {Post(<<r>>), Post(<<r, "_bulk-delete">>), Post(<<r, Id, "password">>),
           [method |-> "PATCH", path |-> <<r, Id>>], [method |-> "DELETE", path |-> <<r, Id>>]}
     ELSE {}

PageRequests(meta, options, user, route) ==
  CASE route.kind = "home"  -> DashboardRequests(meta)
    [] route.kind = "audit" -> {Get(<<"_audit">>)}
    [] route.kind = "page"  -> QueueRequests(route.page, route.path)
                               \cup QueueButtons(route.page, route.path, user)
    [] OTHER -> RecordRequests(route, Panels(options, user, route.resource),
                               Related(options, route.resource))
                \cup RecordButtons(route, user)

(* The lookups of a page for relations to resources that the server did    *)
(* not list for this user.                                                 *)
UnlistedLookups(meta, options, route) ==
  IF route.kind = "resource"
  THEN {Lookup(to) : to \in Related(options, route.resource) \ ToSet(meta.resources)}
  ELSE {}
=============================================================================
