----------------------------- MODULE AdminShell -----------------------------
(***************************************************************************)
(* The admin from its start to what a signed-in user sees in one browser   *)
(* tab: the server checks the extensions and starts; the tab asks for the  *)
(* configuration, for the user and for what the user may see, in that      *)
(* order (loadAdmin of App.tsx), shows the login page or leaves to the     *)
(* host's, and logs out.  Requests carry the cookie of the moment they are *)
(* sent, and are served and answered later.                                *)
(***************************************************************************)
EXTENDS Navigation, FiniteSets

CONSTANTS
  Hosts,       \* host applications
  Registered,  \* what each of them registers
  Users,       \* names of users
  Rights,      \* what each user may do
  MaxSessions, \* bound of the sessions opened
  MaxLogouts,  \* bound of the logouts in flight
  MaxEvents    \* bound of reloads, expiries, other tabs and failures

ASSUME HostsAssumption   == Registered \in [Hosts -> ModuleOptions]
ASSUME PackageAssumption == \A h \in Hosts : Packaged(Registered[h])
ASSUME RightsAssumption  == Rights \in [Users -> User]
ASSUME BoundAssumption   == {MaxSessions, MaxLogouts, MaxEvents} \subseteq Nat

Nobody == ""
ASSUME NobodyAssumption == Nobody \notin Users

VARIABLES
  host,     \* the host application
  auth,     \* AdminModuleOptions.auth: who signs in and whether logout exists
  server,   \* the server's process
  owner,    \* server: the user of each session, Nobody when it is over
  issued,   \* how many sessions were opened
  cookie,   \* the browser's session, 0 for none
  tab,      \* the state of App
  load,     \* the login or the loadAdmin in progress
  logouts,  \* the logouts in flight
  events,   \* bound: how much has happened outside
  doubled,  \* history: two logouts of this page were in flight at once
  left,     \* history: this page has logged out and nobody has signed in since
  botched   \* history: one of those logouts was answered with an error while the admin started

vars == <<host, auth, server, owner, issued, cookie, tab, load, logouts, events, doubled,
          left, botched>>

Sessions == 1..MaxSessions
Cookies  == 0..MaxSessions
AnyUser  == Users \cup {Nobody}
Idle     == [pc |-> "idle"]
Logins   == [session : Cookies, ok : BOOLEAN]   \* answers to a login
Logout   == [sent : Cookies, answer : {"none", "done", "error"}]
Tab ==
  [ state : {"loading", "in", "out"},   \* authState
    error : BOOLEAN,
    user  : AnyUser,
    meta  : AnyUser ]                   \* the user that meta was read for

options == Registered[host]

Fresh == [state |-> "loading", error |-> FALSE, user |-> Nobody, meta |-> Nobody]

TypeOK ==
  /\ host \in Hosts
  /\ auth \in [mode : {"session", "external"}, logout : BOOLEAN]
  /\ server \in {"starting", "up", "failed"}
  /\ owner \in [Sessions -> AnyUser]
  /\ {issued, cookie} \subseteq Cookies
  /\ tab \in Tab
  /\ load \in {Idle, [pc |-> "closed"]}
       \cup [pc : {"login"}, user : Users, reply : SUBSET Logins]
       \cup [pc : {"config"}]
       \cup [pc : {"me", "meta"}, sent : Cookies, reply : SUBSET AnyUser]
  /\ logouts \in Seq(Logout)
  /\ events \in 0..MaxEvents
  /\ {doubled, left, botched} \subseteq BOOLEAN

UserOf(session) == IF session = 0 THEN Nobody ELSE owner[session]

(* The answer that has come.                                               *)
Answer == CHOOSE answer \in load.reply : TRUE

(* What App renders.                                                       *)
Screen ==
  IF load.pc = "closed" THEN "closed"
  ELSE IF tab.error THEN "error"
  ELSE IF tab.state = "loading" THEN "loading"
  ELSE IF tab.state = "out" THEN IF auth.mode = "external" THEN "external" ELSE "login"
  ELSE IF Nobody \in {tab.user, tab.meta} THEN "loading"
  ELSE "admin"

Init ==
  /\ host \in Hosts
  /\ auth \in [mode : {"session"}, logout : {TRUE}] \cup [mode : {"external"}, logout : BOOLEAN]
  /\ server = "starting"
  /\ owner = [s \in Sessions |-> Nobody]
  /\ issued = 0 /\ cookie = 0
  /\ tab = Fresh
  /\ load = [pc |-> "closed"]
  /\ logouts = <<>>
  /\ events = 0
  /\ doubled = FALSE /\ left = FALSE /\ botched = FALSE

-----------------------------------------------------------------------------
(* The server starts, or refuses its extensions.                           *)
Start ==
  /\ server = "starting"
  /\ server' = IF Accepted(options) THEN "up" ELSE "failed"
  /\ UNCHANGED <<host, auth, owner, issued, cookie, tab, load, logouts, events, doubled, left, botched>>

(* The page is opened or reloaded.  Logouts in flight are lost to the page,*)
(* served or not.                                                          *)
Open ==
  /\ server = "up"
  /\ load.pc # "closed" => events < MaxEvents
  /\ events' = IF load.pc = "closed" THEN events ELSE events + 1
  /\ \E served \in SUBSET {logouts[i].sent : i \in DOMAIN logouts} :
       owner' = [s \in Sessions |-> IF s \in served THEN Nobody ELSE owner[s]]
  /\ tab' = Fresh
  /\ load' = [pc |-> "config"]
  /\ logouts' = <<>>
  /\ doubled' = FALSE /\ left' = FALSE /\ botched' = FALSE
  /\ UNCHANGED <<host, auth, server, issued, cookie>>

-----------------------------------------------------------------------------
(* loadAdmin.                                                              *)

Ask(pc) == load' = [pc |-> pc, sent |-> cookie, reply |-> {}]

ConfigAnswers ==
  /\ load.pc = "config"
  /\ Ask("me")
  /\ UNCHANGED <<host, auth, server, owner, issued, cookie, tab, logouts, events, doubled, left, botched>>

(* Both routes resolve the user of the cookie sent.                        *)
ServeLoad ==
  /\ load.pc \in {"me", "meta"} /\ load.reply = {}
  /\ load' = [load EXCEPT !.reply = {UserOf(load.sent)}]
  /\ UNCHANGED <<host, auth, server, owner, issued, cookie, tab, logouts, events, doubled, left, botched>>

MeAnswers ==
  /\ load.pc = "me" /\ load.reply # {}
  /\ IF Nobody \in load.reply
     THEN /\ tab' = [Fresh EXCEPT !.state = "out"]
          /\ load' = Idle
     ELSE /\ tab' = [tab EXCEPT !.user = Answer]
          /\ Ask("meta")
  /\ UNCHANGED <<host, auth, server, owner, issued, cookie, logouts, events, doubled, left, botched>>

(* A refusal is an error here, and the error screen stays.                 *)
MetaAnswers ==
  /\ load.pc = "meta" /\ load.reply # {}
  /\ tab' = IF Nobody \in load.reply
            THEN [tab EXCEPT !.error = TRUE]
            ELSE [tab EXCEPT !.meta = Answer, !.state = "in", !.error = FALSE]
  /\ load' = Idle
  /\ UNCHANGED <<host, auth, server, owner, issued, cookie, logouts, events, doubled, left, botched>>

(* A mutant: loadAdmin does not catch.                                     *)
LoadFailsUncaught ==
  /\ load.pc \in {"config", "me", "meta"}
  /\ events < MaxEvents
  /\ tab' = tab
  /\ load' = Idle
  /\ events' = events + 1
  /\ UNCHANGED <<host, auth, server, owner, issued, cookie, logouts, doubled, left, botched>>

(* A request fails: the server's error or the network.                     *)
LoadFails ==
  /\ load.pc \in {"config", "me", "meta"}
  /\ events < MaxEvents
  /\ tab' = [tab EXCEPT !.error = TRUE]
  /\ load' = Idle
  /\ events' = events + 1
  /\ UNCHANGED <<host, auth, server, owner, issued, cookie, logouts, doubled, left, botched>>

-----------------------------------------------------------------------------
(* LoginPage.                                                              *)

Submit(u) ==
  /\ Screen = "login" /\ load = Idle
  /\ load' = [pc |-> "login", user |-> u, reply |-> {}]
  /\ UNCHANGED <<host, auth, server, owner, issued, cookie, tab, logouts, events, doubled, left, botched>>

(* Refused, or signed in: the session is stored and the cookie put on the  *)
(* answer before the login is recorded, and when that fails the answer is  *)
(* an error that brings the cookie.                                        *)
ServeLogin ==
  /\ load.pc = "login" /\ load.reply = {}
  /\ \/ /\ load' = [load EXCEPT !.reply = {[session |-> 0, ok |-> FALSE]}]
        /\ UNCHANGED <<owner, issued, events>>
     \/ /\ issued < MaxSessions
        /\ issued' = issued + 1
        /\ owner' = [owner EXCEPT ![issued'] = load.user]
        /\ \E ok \in BOOLEAN :
             /\ load' = [load EXCEPT !.reply = {[session |-> issued', ok |-> ok]}]
             /\ ok \/ events < MaxEvents
             /\ events' = IF ok THEN events ELSE events + 1
  /\ UNCHANGED <<host, auth, server, cookie, tab, logouts, doubled, left, botched>>

(* The answer brings the cookie; without an error the page loads           *)
(* everything again.                                                       *)
LoginAnswers ==
  /\ load.pc = "login" /\ load.reply # {}
  /\ cookie' = IF Answer.session = 0 THEN cookie ELSE Answer.session
  /\ IF Answer.ok
     THEN load' = [pc |-> "config"] /\ left' = FALSE /\ botched' = FALSE
     ELSE load' = Idle /\ UNCHANGED <<left, botched>>
  /\ UNCHANGED <<host, auth, server, owner, issued, tab, logouts, events, doubled>>

(* External mode: the page leaves to the host's login, which sends the     *)
(* browser back.                                                           *)
LeaveToHost(u) ==
  /\ Screen = "external" /\ load = Idle
  /\ issued < MaxSessions
  /\ issued' = issued + 1
  /\ owner' = [owner EXCEPT ![issued'] = u]
  /\ cookie' = issued'
  /\ tab' = Fresh
  /\ load' = [pc |-> "config"]
  /\ logouts' = <<>>
  /\ doubled' = FALSE /\ left' = FALSE /\ botched' = FALSE
  /\ UNCHANGED <<host, auth, server, events>>

-----------------------------------------------------------------------------
(* Log out.  The button stays enabled while the request runs.              *)

ClickLogout ==
  /\ Screen = "admin" /\ auth.logout
  /\ Len(logouts) < MaxLogouts
  /\ logouts' = Append(logouts, [sent |-> cookie, answer |-> "none"])
  /\ doubled' = (doubled \/ logouts # <<>>)
  /\ UNCHANGED <<host, auth, server, owner, issued, cookie, tab, load, events, left, botched>>

(* The session is deleted and the cookie taken back on the answer, also    *)
(* if the record then fails.  When the user cannot be read or the session  *)
(* not deleted, the answer is an error that leaves the cookie, and the     *)
(* session may live on.                                                    *)
ServeLogout(i) ==
  /\ logouts[i].answer = "none"
  /\ \E answer \in {"done", "error"}, ended \in BOOLEAN :
       /\ IF answer = "done" THEN ended ELSE events < MaxEvents
       /\ events' = IF answer = "done" THEN events ELSE events + 1
       /\ logouts' = [logouts EXCEPT ![i].answer = answer]
       /\ owner' = [s \in Sessions |-> IF ended /\ s = logouts[i].sent THEN Nobody ELSE owner[s]]
  /\ UNCHANGED <<host, auth, server, issued, cookie, tab, load, doubled, left, botched>>

(* A mutant: the user stays.                                               *)
LogoutAnswersKeepingUser(i) ==
  /\ logouts[i].answer \in {"done", "error"}
  /\ logouts' = RemoveAt(logouts, i)
  /\ cookie' = IF logouts[i].answer = "done" THEN 0 ELSE cookie
  /\ tab' = [tab EXCEPT !.meta = Nobody, !.state = "out"]
  /\ left' = TRUE
  /\ botched' = (botched \/ (logouts[i].answer = "error" /\ load.pc \in {"config", "me"}))
  /\ UNCHANGED <<host, auth, server, owner, issued, load, events, doubled>>

(* The answer clears the cookie, whichever it is by now, unless it is an   *)
(* error.  The page does not look at its status: it forgets the user,      *)
(* whoever it is by now.                                                   *)
LogoutAnswers(i) ==
  /\ logouts[i].answer \in {"done", "error"}
  /\ logouts' = RemoveAt(logouts, i)
  /\ cookie' = IF logouts[i].answer = "done" THEN 0 ELSE cookie
  /\ tab' = [tab EXCEPT !.user = Nobody, !.meta = Nobody, !.state = "out"]
  /\ left' = TRUE
  /\ botched' = (botched \/ (logouts[i].answer = "error" /\ load.pc \in {"config", "me"}))
  /\ UNCHANGED <<host, auth, server, owner, issued, load, events, doubled>>

(* The network loses the request or the answer, and the page stays as it   *)
(* is.                                                                     *)
LogoutFails(i) ==
  /\ events < MaxEvents
  /\ events' = events + 1
  /\ logouts' = RemoveAt(logouts, i)
  /\ UNCHANGED <<host, auth, server, owner, issued, cookie, tab, load, doubled, left, botched>>

-----------------------------------------------------------------------------
(* A session ends by itself or with the server's memory; another tab of    *)
(* the browser signs in as somebody.                                       *)
Expire(s) ==
  /\ owner[s] # Nobody
  /\ events < MaxEvents
  /\ owner' = [owner EXCEPT ![s] = Nobody]
  /\ events' = events + 1
  /\ UNCHANGED <<host, auth, server, issued, cookie, tab, load, logouts, doubled, left, botched>>

OtherTab(u) ==
  /\ server = "up"
  /\ events < MaxEvents /\ issued < MaxSessions
  /\ issued' = issued + 1
  /\ owner' = [owner EXCEPT ![issued'] = u]
  /\ cookie' = issued'
  /\ left' = FALSE /\ botched' = FALSE
  /\ events' = events + 1
  /\ UNCHANGED <<host, auth, server, tab, load, logouts, doubled>>

LoadStep  == ConfigAnswers \/ ServeLoad \/ MeAnswers \/ MetaAnswers
LoginStep == ServeLogin \/ LoginAnswers

Next ==
  \/ Start \/ Open
  \/ LoadStep \/ LoadFails
  \/ LoginStep
  \/ ClickLogout
  \/ \E i \in DOMAIN logouts : ServeLogout(i) \/ LogoutAnswers(i) \/ LogoutFails(i)
  \/ \E u \in Users : Submit(u) \/ LeaveToHost(u) \/ OtherTab(u)
  \/ \E s \in Sessions : Expire(s)

(* Every request is answered or fails.                                     *)
Fairness == WF_vars(LoadStep) /\ WF_vars(LoginStep)

Spec == Init /\ [][Next]_vars /\ Fairness

-----------------------------------------------------------------------------
(* Properties.                                                             *)

Rightful == Screen = "admin" /\ tab.meta = tab.user /\ UserOf(cookie) = tab.user

(* Nothing is offered that the server then refuses: every link in the      *)
(* sidebar, on the dashboard and on the pages of a resource or a queue     *)
(* opens a page whose requests, those of its buttons included, pass the    *)
(* permission checks, while the session is still that of the user shown.   *)
(* The exception: the lookup of a relation is refused when the resource    *)
(* that it refers to is not listed in the sidebar either.                  *)
OfferedIsAllowed ==
  Rightful =>
    LET user == Rights[tab.user]
        meta == Meta(options, user)
    IN \A link \in OfferedLinks(meta, user) :
         LET route == ParseRoute(meta, link)
         IN \A request \in PageRequests(meta, options, user, route) :
               \/ Allows(options, user, request)
               \/ request \in UnlistedLookups(meta, options, route)

Clash(a, b) ==
  /\ Len(a) = Len(b)
  /\ \A i \in DOMAIN a : a[i] = b[i] \/ Param \in {a[i], b[i]}

Own(route) == route \in {None, <<"home">>, <<"audit-log">>}

(* A link opens what it names: a link to a page opens that page when the   *)
(* user may read it, a queue's jobs open as jobs, and a resource opens its *)
(* list, unless the address is also that of another page of this user or   *)
(* of the admin itself, which the registries do not check.                 *)
LinksOpenTheirPage ==
  Screen = "admin" =>
    LET user  == Rights[tab.meta]
        meta  == Meta(options, user)
        every == ToSet(Every(options, "pages"))
        Free(route, others) == ~Own(route) /\ \A q \in others : ~Clash(q.route, route)
        linked == {n.slug : n \in {x \in ToSet(meta.navItems) : x.kind = "page"}}
                  \cup {w.slug : w \in {x \in ToSet(meta.widgets) : x.kind = "page-link"}}
    IN /\ \A slug \in linked : \E p \in every :
            /\ p.slug = slug
            /\ HasPermission(user, p.read) /\ Free(p.route, ToSet(meta.pages) \ {p}) =>
                 ParseRoute(meta, PageHref(meta, slug)) = PageRoute(p, p.route)
       /\ \A p \in ToSet(meta.pages) : p.screen = "detail" =>
            LET job == Append(p.route, "jobs") \o <<Job>>
            IN (\A q \in ToSet(meta.pages) : q.screen = "job" \/ ~Clash(q.route, job)) =>
                 ParseRoute(meta, job).page.screen = "job"
       /\ \A r \in ToSet(meta.resources) : Free(<<r>>, ToSet(meta.pages)) =>
            ParseRoute(meta, <<r>>) = ResourceRoute(r, "list", "")

(* Once the page has logged out, and until somebody signs in, it shows     *)
(* nothing of the admin, whatever answers were still on their way.  The    *)
(* exception: the page does not tell an error from a logout, so one that   *)
(* comes while the admin starts again (of a second press of Log out, after *)
(* the user has signed in anew) forgets a user whose session lives, and    *)
(* the requests under way bring the admin back.                            *)
SignedOutShowsNothing == left /\ ~botched => Screen # "admin"

(* The loading screen ends, in the admin, a login or an error, unless Log  *)
(* out was pressed again before the first answer.                          *)
LoadingEnds == (Screen = "loading" /\ ~doubled) ~> (Screen # "loading" \/ doubled)
=============================================================================
