---------------------------- MODULE AdminSession ----------------------------
(***************************************************************************)
(* AdminAuthService in session mode: login, logout and the authentication  *)
(* of every other request, over a session store.                           *)
(*                                                                         *)
(* Each store operation, the host's authenticate callback and the audit    *)
(* append are awaited, so the requests of all tabs of all browsers         *)
(* interleave between them; an operation may reject, with or without       *)
(* having taken effect; the process may restart, which loses the sessions  *)
(* of the built-in in-memory store and keeps those of a durable one; and   *)
(* answers reach a browser in any order, or not at all.                    *)
(*                                                                         *)
(* The audit log is enabled.  A user is what authenticate resolved and     *)
(* normalizeUser accepted; its permissions travel with it in the session.  *)
(***************************************************************************)
EXTENDS Naturals

CONSTANTS
  Users,        \* the users authenticate may resolve
  Browsers,     \* cookie jars
  SessionIds,   \* the ids randomUUID may return
  Requests,     \* slots for requests in flight
  SessionTtl,   \* sessionTtlMs
  RememberTtl,  \* rememberMeMaxAgeMs
  MaxClock,     \* bound of the clock
  None          \* null: no cookie, no session, no user

ASSUME TtlAssumption   == SessionTtl \in Nat /\ RememberTtl \in Nat
ASSUME ClockAssumption == MaxClock \in Nat
ASSUME NoneAssumption  == None \notin Users \cup SessionIds

VARIABLES
  durable,  \* configuration: the store survives a restart of the process
  store,    \* sessionStore: the AdminSessionRecord of each id, or None
  cookies,  \* per browser, the session id its cookie carries, or None
  req,      \* per slot, the request in flight
  clock,    \* Date.now()
  audit,    \* the login and logout entries of the audit log
  owner,    \* history: per id, the user whose login drew it, or None
  ended     \* history: the ids whose session was stored and has died

vars == <<durable, store, cookies, req, clock, audit, owner, ended>>

Session == [user : Users, expires : Nat]

(* The operation a request awaits; "serve" is the handler that runs once   *)
(* requireUser has returned, "answer" a response on its way.               *)
Pc == {"authenticate", "set", "lookup", "check", "evict", "serve", "delete",
       "audit", "answer"}

Request ==
  [ pc      : Pc,
    kind    : {"login", "logout", "call"},
    browser : Browsers,
    sid     : SessionIds \cup {None},      \* the id it carries or has drawn
    found   : Session \cup {None},         \* what get returned, or set stores
    user    : Users \cup {None},           \* request.user
    header  : {"keep", "set", "clear"},    \* Set-Cookie of the response
    status  : {"ok", "unauthorized", "error"},
    late    : BOOLEAN ]                    \* history: sent on a dead session

Idle == [pc |-> "idle"]

TypeOK ==
  /\ durable \in BOOLEAN
  /\ store \in [SessionIds -> Session \cup {None}]
  /\ cookies \in [Browsers -> SessionIds \cup {None}]
  /\ req \in [Requests -> Request \cup {Idle}]
  /\ clock \in Nat
  /\ audit \subseteq [action : {"login", "logout"}, sid : SessionIds, user : Users]
  /\ owner \in [SessionIds -> Users \cup {None}]
  /\ ended \subseteq SessionIds

Expired(record) == record.expires <= clock

Dead(sid) == store[sid] = None \/ Expired(store[sid])

(* What was stored and is dead after the step has ended.                   *)
Remember == ended' = ended \cup {s \in SessionIds : store[s] # None /\ Dead(s)'}

Become(r, next) == req' = [req EXCEPT ![r] = next]

Answered(r, status) ==
  [req[r] EXCEPT !.pc = "answer", !.status = status, !.found = None]

Init ==
  /\ durable \in BOOLEAN
  /\ store = [s \in SessionIds |-> None]
  /\ cookies = [b \in Browsers |-> None]
  /\ req = [r \in Requests |-> Idle]
  /\ clock = 0
  /\ audit = {}
  /\ owner = [s \in SessionIds |-> None]
  /\ ended = {}

-----------------------------------------------------------------------------
(* Sending a request.                                                      *)

New(kind, b, pc, sid) ==
  [pc |-> pc, kind |-> kind, browser |-> b, sid |-> sid, found |-> None,
   user |-> None, header |-> "keep", status |-> "ok",
   late |-> sid # None /\ Dead(sid)]

SendLogin(r, b) ==
  /\ req[r] = Idle
  /\ Become(r, New("login", b, "authenticate", None))
  /\ UNCHANGED <<durable, store, cookies, clock, audit, owner, ended>>

(* Without a cookie there is nobody to look up: a call is refused, and a   *)
(* logout has nothing to delete and nobody to record.                      *)
SendWithoutCookie(r, b) ==
  /\ req[r] = Idle
  /\ cookies[b] = None
  /\ \/ Become(r, [New("call", b, "answer", None) EXCEPT !.status = "unauthorized"])
     \/ Become(r, [New("logout", b, "answer", None) EXCEPT !.header = "clear"])
  /\ UNCHANGED <<durable, store, cookies, clock, audit, owner, ended>>

SendWithCookie(r, b) ==
  /\ req[r] = Idle
  /\ cookies[b] # None
  /\ \E kind \in {"call", "logout"} : Become(r, New(kind, b, "lookup", cookies[b]))
  /\ UNCHANGED <<durable, store, cookies, clock, audit, owner, ended>>

-----------------------------------------------------------------------------
(* login                                                                   *)

Refused(r) ==
  /\ req[r].pc = "authenticate"
  /\ Become(r, Answered(r, "unauthorized"))
  /\ UNCHANGED <<durable, store, cookies, clock, audit, owner, ended>>

(* A mutant: a login keeps the session id the browser carries already.     *)
AuthenticatedKeepingId(r) ==
  /\ req[r].pc = "authenticate"
  /\ \E u \in Users, s \in SessionIds, ttl \in {SessionTtl, RememberTtl} :
       /\ s = cookies[req[r].browser] \/ owner[s] = None
       /\ owner' = [owner EXCEPT ![s] = u]
       /\ Become(r, [req[r] EXCEPT !.pc = "set", !.sid = s,
                                   !.found = [user |-> u, expires |-> clock + ttl]])
  /\ UNCHANGED <<durable, store, cookies, clock, audit, ended>>

(* The host resolves a user; the id is drawn and the expiry fixed before   *)
(* set is awaited.                                                         *)
Authenticated(r) ==
  /\ req[r].pc = "authenticate"
  /\ \E u \in Users, s \in SessionIds, ttl \in {SessionTtl, RememberTtl} :
       /\ owner[s] = None
       /\ owner' = [owner EXCEPT ![s] = u]
       /\ Become(r, [req[r] EXCEPT !.pc = "set", !.sid = s,
                                   !.found = [user |-> u, expires |-> clock + ttl]])
  /\ UNCHANGED <<durable, store, cookies, clock, audit, ended>>

SetSession(r) ==
  /\ req[r].pc = "set"
  /\ store' = [store EXCEPT ![req[r].sid] = req[r].found]
  /\ Become(r, [req[r] EXCEPT !.pc = "audit", !.header = "set",
                              !.user = req[r].found.user, !.found = None])
  /\ UNCHANGED <<durable, cookies, clock, audit, owner>>
  /\ Remember

-----------------------------------------------------------------------------
(* getCurrentUserAsync, for a call (requireUser) and for a logout          *)

(* What a call or a logout does once its user, or null, is known.          *)
Proceed(r, user) ==
  [req[r] EXCEPT !.user = user, !.found = None,
     !.pc = IF req[r].kind = "logout" THEN "delete"
            ELSE IF user # None THEN "serve" ELSE "answer",
     !.status = IF req[r].kind = "call" /\ user = None THEN "unauthorized" ELSE "ok"]

(* The store reads the record; the request gets it some time later.        *)
Lookup(r) ==
  /\ req[r].pc = "lookup"
  /\ Become(r, [req[r] EXCEPT !.pc = "check", !.found = store[req[r].sid]])
  /\ UNCHANGED <<durable, store, cookies, clock, audit, owner, ended>>

(* A mutant: any record the store returns is good.                         *)
CheckPresenceOnly(r) ==
  /\ req[r].pc = "check"
  /\ Become(r, Proceed(r, IF req[r].found = None THEN None ELSE req[r].found.user))
  /\ UNCHANGED <<durable, store, cookies, clock, audit, owner, ended>>

CheckSession(r) ==
  /\ req[r].pc = "check"
  /\ Become(r, IF req[r].found = None THEN Proceed(r, None)
               ELSE IF Expired(req[r].found) THEN [req[r] EXCEPT !.pc = "evict"]
               ELSE Proceed(r, req[r].found.user))
  /\ UNCHANGED <<durable, store, cookies, clock, audit, owner, ended>>

EvictExpired(r) ==
  /\ req[r].pc = "evict"
  /\ store' = [store EXCEPT ![req[r].sid] = None]
  /\ Become(r, Proceed(r, None))
  /\ UNCHANGED <<durable, cookies, clock, audit, owner>>
  /\ Remember

(* The handler of a call: what it does is modelled elsewhere.              *)
Serve(r) ==
  /\ req[r].pc = "serve"
  /\ Become(r, Answered(r, "ok"))
  /\ UNCHANGED <<durable, store, cookies, clock, audit, owner, ended>>

-----------------------------------------------------------------------------
(* logout, and the audit entry that ends a login or a logout               *)

(* Mutants: a logout that only clears the cookie; an append that is not    *)
(* awaited and gets lost.                                                  *)
ClearCookieOnly(r) ==
  /\ req[r].pc = "delete"
  /\ Become(r, [req[r] EXCEPT !.header = "clear",
                              !.pc = IF req[r].user # None THEN "audit" ELSE "answer"])
  /\ UNCHANGED <<durable, store, cookies, clock, audit, owner, ended>>

AnswerWithoutAudit(r) ==
  /\ req[r].pc = "audit"
  /\ Become(r, Answered(r, "ok"))
  /\ UNCHANGED <<durable, store, cookies, clock, audit, owner, ended>>

DeleteSession(r) ==
  /\ req[r].pc = "delete"
  /\ store' = [store EXCEPT ![req[r].sid] = None]
  /\ Become(r, [req[r] EXCEPT !.header = "clear",
                              !.pc = IF req[r].user # None THEN "audit" ELSE "answer"])
  /\ UNCHANGED <<durable, cookies, clock, audit, owner>>
  /\ Remember

Recorded(r) ==
  audit \cup {[action |-> req[r].kind, sid |-> req[r].sid, user |-> req[r].user]}

RecordAudit(r) ==
  /\ req[r].pc = "audit"
  /\ audit' = Recorded(r)
  /\ Become(r, Answered(r, "ok"))
  /\ UNCHANGED <<durable, store, cookies, clock, owner, ended>>

-----------------------------------------------------------------------------
(* What goes wrong, and the passing of time                                *)

(* The awaited operation rejects: the request answers an error, with the   *)
(* Set-Cookie header it already has.  A set, a delete or an append may     *)
(* have taken effect all the same.                                         *)
Fail(r) ==
  /\ req[r].pc \in {"authenticate", "set", "lookup", "evict", "delete", "audit"}
  /\ store' \in {store} \cup
        CASE req[r].pc = "set" -> {[store EXCEPT ![req[r].sid] = req[r].found]}
          [] req[r].pc \in {"evict", "delete"} -> {[store EXCEPT ![req[r].sid] = None]}
          [] OTHER -> {}
  /\ audit' \in {audit} \cup (IF req[r].pc = "audit" THEN {Recorded(r)} ELSE {})
  /\ Become(r, Answered(r, "error"))
  /\ UNCHANGED <<durable, cookies, clock, owner>>
  /\ Remember

(* The browser applies the Set-Cookie header of the answer.                *)
Deliver(r) ==
  /\ req[r].pc = "answer"
  /\ cookies' = [cookies EXCEPT ![req[r].browser] =
                   CASE req[r].header = "set"   -> req[r].sid
                     [] req[r].header = "clear" -> None
                     [] OTHER                   -> @]
  /\ Become(r, Idle)
  /\ UNCHANGED <<durable, store, clock, audit, owner, ended>>

(* The answer is lost, or nobody waits for it any more.                    *)
Lose(r) ==
  /\ req[r].pc = "answer"
  /\ Become(r, Idle)
  /\ UNCHANGED <<durable, store, cookies, clock, audit, owner, ended>>

(* The process restarts: requests in flight die with it, and so do the     *)
(* sessions of InMemoryAdminSessionStore.                                  *)
Restart ==
  /\ req' = [r \in Requests |-> Idle]
  /\ store' = IF durable THEN store ELSE [s \in SessionIds |-> None]
  /\ UNCHANGED <<durable, cookies, clock, audit, owner>>
  /\ Remember

Tick ==
  /\ clock < MaxClock
  /\ clock' = clock + 1
  /\ UNCHANGED <<durable, store, cookies, req, audit, owner>>
  /\ Remember

Send(r, b) == SendLogin(r, b) \/ SendWithoutCookie(r, b) \/ SendWithCookie(r, b)

(* A step of the request in slot r inside the server.                      *)
Process(r) ==
  \/ Refused(r) \/ Authenticated(r) \/ SetSession(r)
  \/ Lookup(r) \/ CheckSession(r) \/ EvictExpired(r) \/ Serve(r)
  \/ DeleteSession(r) \/ RecordAudit(r) \/ Fail(r)

Next ==
  \/ \E r \in Requests, b \in Browsers : Send(r, b)
  \/ \E r \in Requests : Process(r) \/ Deliver(r) \/ Lose(r)
  \/ Restart
  \/ Tick

Spec == Init /\ [][Next]_vars

-----------------------------------------------------------------------------

(* A request sent with the id of a session that was logged out, expired,   *)
(* evicted or lost in a restart before is never handled, whatever requests *)
(* were in flight with the same id, logins and logouts included.           *)
DeadSessionIsNeverServed ==
  \A r \in Requests : req[r].pc = "serve" => ~req[r].late

(* A request is handled, and an audit entry is written, for the user whose *)
(* login drew the session id: concurrent logins of one browser, stale      *)
(* cookies and late answers never mix users.                               *)
ActsForOwner ==
  /\ \A r \in Requests :
       req[r].pc \in {"serve", "audit"} => req[r].user = owner[req[r].sid]
  /\ \A e \in audit : e.user = owner[e.sid]

(* A login or a logout that answers success is in the audit log, except a  *)
(* logout that found no live session to end.                               *)
SuccessIsRecorded ==
  \A r \in Requests :
    req[r].pc = "answer" /\ req[r].status = "ok" /\ req[r].kind # "call" =>
      \/ \E e \in audit : e.action = req[r].kind /\ e.sid = req[r].sid
      \/ req[r].kind = "logout" /\ req[r].user = None

(* A logout that answers success has ended its session for good.           *)
LogoutEndsSession ==
  \A r \in Requests :
    req[r].pc = "answer" /\ req[r].status = "ok" /\ req[r].kind = "logout"
      => req[r].sid = None \/ store[req[r].sid] = None

(* A session that has ended, by logout, expiry, eviction or a restart, is  *)
(* over for good: no request that was in flight then, and no later login,  *)
(* makes its id valid again, whether a browser still has the id or not.    *)
NoResurrection == \A s \in ended : Dead(s)

(* What the documentation says of the audit log, "Recorded events include  *)
(* login and logout": whoever is being served has a recorded login.        *)
ServedLoginIsRecorded ==
  \A r \in Requests :
    req[r].pc = "serve" =>
      \E e \in audit : e.action = "login" /\ e.sid = req[r].sid
=============================================================================
