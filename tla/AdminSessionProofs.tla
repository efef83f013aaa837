------------------------- MODULE AdminSessionProofs -------------------------
(***************************************************************************)
(* Theorems about AdminSession, for any users, browsers, ids, requests and *)
(* lifetimes.  The safety properties of the module are proved from one     *)
(* inductive invariant, Inv.                                               *)
(***************************************************************************)
EXTENDS AdminSession, TLAPS

Active(r) == req[r] # Idle

(* What a request carries in each of its steps.                            *)
Shaped ==
  \A r \in Requests : Active(r) =>
    /\ req[r].pc \in {"authenticate", "set"} =>
         req[r].kind = "login" /\ req[r].header = "keep" /\ req[r].late = FALSE
    /\ req[r].pc = "set" => req[r].found \in Session
    /\ req[r].pc \notin {"authenticate", "answer"} => req[r].sid \in SessionIds
    /\ req[r].pc \in {"serve", "audit"} => req[r].user \in Users
    /\ req[r].pc \in {"lookup", "check", "evict"} => req[r].kind \in {"call", "logout"}
    /\ req[r].pc # "answer" => req[r].status = "ok"
    /\ req[r].pc = "serve" => req[r].kind = "call"
    /\ req[r].pc = "delete" => req[r].kind = "logout"
    /\ req[r].pc = "audit" => req[r].kind \in {"login", "logout"}

(* The id of a session that is about to be stored is known to nobody else. *)
PendingIsPrivate ==
  \A q \in Requests : Active(q) /\ req[q].pc = "set" =>
    /\ \A b \in Browsers : cookies[b] # req[q].sid
    /\ \A r \in Requests : Active(r) /\ r # q => req[r].sid # req[q].sid

(* An id that was never drawn is known to nobody at all.                   *)
UndrawnIsUnknown ==
  \A s \in SessionIds : owner[s] = None =>
    /\ \A b \in Browsers : cookies[b] # s
    /\ \A r \in Requests : Active(r) => req[r].sid # s

(* A session that was dead when a request was sent on it stays dead.       *)
LateIsDead ==
  \A r \in Requests : Active(r) /\ req[r].late = TRUE =>
    /\ req[r].sid \in SessionIds
    /\ Dead(req[r].sid)
    /\ req[r].pc # "serve"
    /\ req[r].pc = "check" => req[r].found = None \/ Expired(req[r].found)

(* Wherever a user is kept with an id, it is the one whose login drew it.  *)
UserIsOwner ==
  /\ \A s \in SessionIds : store[s] # None => store[s].user = owner[s]
  /\ \A r \in Requests : Active(r) =>
       /\ req[r].pc = "set" => req[r].found.user = owner[req[r].sid]
       /\ req[r].pc = "check" /\ req[r].found # None
            => req[r].found.user = owner[req[r].sid]
       /\ req[r].pc \in {"serve", "delete", "audit"} /\ req[r].user # None
            => req[r].user = owner[req[r].sid]
  /\ \A e \in audit : e.user = owner[e.sid]

(* A logout that has deleted its session and has not failed.               *)
LoggedOut ==
  \A r \in Requests :
    Active(r) /\ req[r].kind = "logout" /\ req[r].status = "ok" /\ req[r].pc \in {"audit", "answer"}
      => req[r].sid = None \/ store[req[r].sid] = None

Inv ==
  /\ TypeOK
  /\ Shaped
  /\ PendingIsPrivate
  /\ UndrawnIsUnknown
  /\ LateIsDead
  /\ UserIsOwner
  /\ LoggedOut
  /\ SuccessIsRecorded

(* A request that awaits something has all the fields of a request.        *)
LEMMA RunningType ==
  ASSUME TypeOK, NEW r \in Requests, req[r].pc \in Pc
  PROVE  req[r] \in Request /\ Active(r)
BY DEF TypeOK, Active, Idle, Pc

(* An answer is a request again.                                           *)
LEMMA AnsweredType ==
  ASSUME NEW r \in Requests, req[r] \in Request,
         NEW status \in {"ok", "unauthorized", "error"}
  PROVE  Answered(r, status) \in Request
BY DEF Answered, Request, Pc

(* So is what a call or a logout becomes once its user is known.           *)
LEMMA ProceedType ==
  ASSUME NEW r \in Requests, req[r] \in Request, NEW user \in Users \cup {None}
  PROVE  Proceed(r, user) \in Request
<1> DEFINE pc == IF req[r].kind = "logout" THEN "delete"
                 ELSE IF user # None THEN "serve" ELSE "answer"
           status == IF req[r].kind = "call" /\ user = None THEN "unauthorized" ELSE "ok"
<1>1. pc \in Pc /\ status \in {"ok", "unauthorized", "error"}
  BY DEF Pc
<1>2. Proceed(r, user) = [req[r] EXCEPT !.user = user, !.found = None, !.pc = pc, !.status = status]
  BY DEF Proceed
<1> HIDE DEF pc, status
<1>3. QED BY <1>1, <1>2 DEF Request

-----------------------------------------------------------------------------
(* Every action keeps the invariant.                                       *)

(* Sending a login: it carries no id yet.                                  *)
LEMMA SendLoginInv ==
  ASSUME Inv, NEW r \in Requests, NEW b \in Browsers, SendLogin(r, b)
  PROVE  Inv'
<1>1. TypeOK'
  BY DEF Inv, TypeOK, Request, Pc, SendLogin, Become, Active, New
<1>2. Shaped'
  BY DEF Inv, TypeOK, Shaped, SendLogin, Become, Active, New
<1>3. PendingIsPrivate'
  BY NoneAssumption DEF Inv, PendingIsPrivate, Shaped, SendLogin, Become,
         Active, New
<1>4. UndrawnIsUnknown'
  BY NoneAssumption DEF Inv, UndrawnIsUnknown, SendLogin, Become, Active, New
<1>5. LateIsDead'
  BY DEF Inv, TypeOK, LateIsDead, Dead, Expired, SendLogin, Become, Active,
         New
<1>6. UserIsOwner'
  BY DEF Inv, UserIsOwner, SendLogin, Become, Active, New
<1>7. LoggedOut'
  BY DEF Inv, LoggedOut, SendLogin, Become, Active, New
<1>8. SuccessIsRecorded'
  BY DEF Inv, SuccessIsRecorded, SendLogin, Become, Active, New
<1>9. QED BY <1>1, <1>2, <1>3, <1>4, <1>5, <1>6, <1>7, <1>8 DEF Inv

(* Sending anything else without a cookie: it is answered at once.         *)
LEMMA SendWithoutCookieInv ==
  ASSUME Inv, NEW r \in Requests, NEW b \in Browsers, SendWithoutCookie(r, b)
  PROVE  Inv'
<1>1. TypeOK'
  <2>1. New("call", b, "answer", None) \in Request /\ New("logout", b, "answer", None) \in Request
    BY DEF New, Request, Pc
  <2>2. QED BY <2>1 DEF Inv, TypeOK, SendWithoutCookie, Become, Request
<1>2. Shaped'
  BY DEF Inv, TypeOK, Shaped, SendWithoutCookie, Become, Active, New
<1>3. PendingIsPrivate'
  BY DEF Inv, TypeOK, PendingIsPrivate, SendWithoutCookie, Become, Active, New
<1>4. UndrawnIsUnknown'
  BY DEF Inv, TypeOK, UndrawnIsUnknown, SendWithoutCookie, Become, Active, New
<1>5. LateIsDead'
  <2>1. req'[r].late = FALSE
    <3>1. /\ New("call", b, "answer", None).late = FALSE
          /\ New("logout", b, "answer", None).late = FALSE
      BY DEF New
    <3>2. \/ req'[r] = [New("call", b, "answer", None) EXCEPT !.status = "unauthorized"]
          \/ req'[r] = [New("logout", b, "answer", None) EXCEPT !.header = "clear"]
      BY DEF Inv, TypeOK, SendWithoutCookie, Become
    <3>3. New("call", b, "answer", None) \in Request /\ New("logout", b, "answer", None) \in Request
      BY DEF New, Request, Pc
    <3>4. QED BY <3>1, <3>2, <3>3 DEF Request
  <2>2. \A q \in Requests : q # r => req'[q] = req[q]
    BY DEF Inv, TypeOK, SendWithoutCookie, Become
  <2>3. QED BY <2>1, <2>2 DEF Inv, LateIsDead, SendWithoutCookie, Active, Idle, Dead, Expired
<1>6. UserIsOwner'
  BY DEF Inv, TypeOK, UserIsOwner, SendWithoutCookie, Become, Active, New
<1>7. LoggedOut'
  BY DEF Inv, TypeOK, LoggedOut, SendWithoutCookie, Become, Active, New
<1>8. SuccessIsRecorded'
  BY DEF Inv, TypeOK, SuccessIsRecorded, SendWithoutCookie, Become, Active,
         New
<1>9. QED BY <1>1, <1>2, <1>3, <1>4, <1>5, <1>6, <1>7, <1>8 DEF Inv

(* Sending on a session: if it is dead, it is so from now on.              *)
LEMMA SendWithCookieInv ==
  ASSUME Inv, NEW r \in Requests, NEW b \in Browsers, SendWithCookie(r, b)
  PROVE  Inv'
<1>1. TypeOK'
  BY DEF Inv, TypeOK, Request, Pc, SendWithCookie, Become, Active, New
<1>2. Shaped'
  BY DEF Inv, TypeOK, Shaped, SendWithCookie, Become, Active, New
<1>3. PendingIsPrivate'
  BY DEF Inv, PendingIsPrivate, SendWithCookie, Become, Active, New
<1>4. UndrawnIsUnknown'
  BY DEF Inv, UndrawnIsUnknown, SendWithCookie, Become, Active, New
<1>5. LateIsDead'
  <2>1. /\ req'[r].late = Dead(cookies[b])
        /\ req'[r].sid = cookies[b]
        /\ req'[r].pc = "lookup"
        /\ cookies[b] \in SessionIds
    BY DEF Inv, TypeOK, SendWithCookie, Become, New, Dead
  <2>2. \A q \in Requests : q # r => req'[q] = req[q]
    BY DEF Inv, TypeOK, SendWithCookie, Become
  <2>3. QED BY <2>1, <2>2 DEF Inv, LateIsDead, SendWithCookie, Active, Idle, Dead, Expired
<1>6. UserIsOwner'
  BY DEF Inv, UserIsOwner, SendWithCookie, Become, Active, New
<1>7. LoggedOut'
  BY DEF Inv, LoggedOut, SendWithCookie, Become, Active, New
<1>8. SuccessIsRecorded'
  BY DEF Inv, SuccessIsRecorded, SendWithCookie, Become, Active, New
<1>9. QED BY <1>1, <1>2, <1>3, <1>4, <1>5, <1>6, <1>7, <1>8 DEF Inv

(* A login the host refuses has drawn no id.                               *)
LEMMA RefusedInv ==
  ASSUME Inv, NEW r \in Requests, Refused(r)
  PROVE  Inv'
<1>1. TypeOK'
  <2>1. req[r] \in Request
    BY RunningType DEF Inv, Refused, Pc
  <2>2. Answered(r, "unauthorized") \in Request
    BY <2>1, AnsweredType
  <2>3. QED BY <2>1, <2>2 DEF Inv, TypeOK, Refused, Become
<1>2. Shaped'
  BY DEF Inv, Shaped, Refused, Become, Active, Answered
<1>3. PendingIsPrivate'
  BY DEF Inv, PendingIsPrivate, Refused, Become, Active, Idle, Answered
<1>4. UndrawnIsUnknown'
  BY DEF Inv, UndrawnIsUnknown, Refused, Become, Active, Idle, Answered
<1>5. LateIsDead'
  BY DEF Inv, LateIsDead, Dead, Expired, Refused, Become, Active, Idle,
         Answered
<1>6. UserIsOwner'
  BY DEF Inv, UserIsOwner, Refused, Become, Active, Answered
<1>7. LoggedOut'
  BY DEF Inv, LoggedOut, Refused, Become, Active, Answered
<1>8. SuccessIsRecorded'
  BY DEF Inv, SuccessIsRecorded, Refused, Become, Active, Answered
<1>9. QED BY <1>1, <1>2, <1>3, <1>4, <1>5, <1>6, <1>7, <1>8 DEF Inv

(* The id a login draws is unknown to every cookie and every request.      *)
LEMMA AuthenticatedInv ==
  ASSUME Inv, NEW r \in Requests, Authenticated(r)
  PROVE  Inv'
<1>1. TypeOK'
  <2>1. req[r] \in Request
    BY RunningType DEF Inv, Authenticated, Pc
  <2>2. PICK u \in Users, s \in SessionIds, ttl \in {SessionTtl, RememberTtl} :
          /\ owner' = [owner EXCEPT ![s] = u]
          /\ req' = [req EXCEPT ![r] =
                [req[r] EXCEPT !.pc = "set", !.sid = s,
                               !.found = [user |-> u, expires |-> clock + ttl]]]
    BY DEF Authenticated, Become
  <2>3. [user |-> u, expires |-> clock + ttl] \in Session
    BY TtlAssumption DEF Inv, TypeOK, Session
  <2>4. [req[r] EXCEPT !.pc = "set", !.sid = s,
                       !.found = [user |-> u, expires |-> clock + ttl]] \in Request
    BY <2>1, <2>3 DEF Request, Pc
  <2>5. QED BY <2>2, <2>4 DEF Inv, TypeOK, Authenticated
<1>2. Shaped'
  <2>1. req[r] \in Request /\ Active(r)
    BY RunningType DEF Inv, Authenticated, Pc
  <2>2. PICK u \in Users, s \in SessionIds, ttl \in {SessionTtl, RememberTtl} :
          req' = [req EXCEPT ![r] =
            [req[r] EXCEPT !.pc = "set", !.sid = s,
                           !.found = [user |-> u, expires |-> clock + ttl]]]
    BY DEF Authenticated, Become
  <2>3. [user |-> u, expires |-> clock + ttl] \in Session
    BY TtlAssumption DEF Inv, TypeOK, Session
  <2>4. /\ req'[r].pc = "set" /\ req'[r].sid = s /\ req'[r].found \in Session
        /\ req'[r].kind = req[r].kind /\ req'[r].header = req[r].header
        /\ req'[r].late = req[r].late /\ req'[r].status = req[r].status
    BY <2>1, <2>2, <2>3 DEF Inv, TypeOK, Request
  <2>5. \A q \in Requests : q # r => req'[q] = req[q]
    BY <2>2 DEF Inv, TypeOK
  <2>6. QED BY <2>1, <2>4, <2>5 DEF Inv, Shaped, Authenticated, Active, Idle
<1>3. PendingIsPrivate'
  BY DEF Inv, PendingIsPrivate, UndrawnIsUnknown, Authenticated, Become,
         Active
<1>4. UndrawnIsUnknown'
  BY NoneAssumption DEF Inv, TypeOK, UndrawnIsUnknown, Authenticated, Become,
         Active
<1>5. LateIsDead'
  BY DEF Inv, LateIsDead, Shaped, Dead, Expired, Authenticated, Become,
         Active, Idle
<1>6. UserIsOwner'
  BY NoneAssumption DEF Inv, TypeOK, UserIsOwner, Shaped, Request, Session,
         Authenticated, Become, Active
<1>7. LoggedOut'
  BY DEF Inv, LoggedOut, Authenticated, Become, Active
<1>8. SuccessIsRecorded'
  BY DEF Inv, SuccessIsRecorded, Authenticated, Become, Active
<1>9. QED BY <1>1, <1>2, <1>3, <1>4, <1>5, <1>6, <1>7, <1>8 DEF Inv

(* A login stores its record under an id that nobody else has.             *)
LEMMA SetSessionInv ==
  ASSUME Inv, NEW r \in Requests, SetSession(r)
  PROVE  Inv'
<1>1. TypeOK'
  <2>1. req[r] \in Request
    BY RunningType DEF Inv, SetSession, Pc
  <2>2. req[r].found \in Session /\ req'[r] \in Request
    <3>1. req[r].found \in Session
      BY <2>1, RunningType DEF Inv, Shaped, SetSession, Pc
    <3>2. req[r].found.user \in Users
      BY <3>1 DEF Session
    <3>3. QED BY <2>1, <3>1, <3>2 DEF Inv, TypeOK, SetSession, Become, Request, Pc
  <2>3. QED BY <2>1, <2>2 DEF Inv, TypeOK, SetSession, Become, Remember
<1>2. Shaped'
  BY DEF Inv, Shaped, SetSession, Become, Active, Idle, Session
<1>3. PendingIsPrivate'
  BY DEF Inv, PendingIsPrivate, SetSession, Become, Active, Idle
<1>4. UndrawnIsUnknown'
  BY DEF Inv, UndrawnIsUnknown, SetSession, Become, Active, Idle
<1>5. LateIsDead'
  BY DEF Inv, LateIsDead, Shaped, PendingIsPrivate, Dead, Expired, SetSession,
         Become, Active, Idle
<1>6. UserIsOwner'
  <2>1. req[r] \in Request /\ Active(r)
    BY RunningType DEF Inv, SetSession, Pc
  <2>2. \A q \in Requests : q # r => req'[q] = req[q]
    BY DEF Inv, TypeOK, SetSession, Become
  <2>3. req[r].found \in Session /\ req[r].found.user = owner[req[r].sid]
    <3>1. req[r].found \in Session
      BY <2>1 DEF Inv, Shaped, SetSession
    <3>2. QED BY <2>1, <3>1 DEF Inv, UserIsOwner, SetSession
  <2>4. /\ req'[r].pc = "audit"
        /\ req'[r].user = req[r].found.user
        /\ req'[r].sid = req[r].sid
    BY <2>1 DEF Inv, TypeOK, SetSession, Become, Request
  <2>5. \A s \in SessionIds : store'[s] = IF s = req[r].sid THEN req[r].found ELSE store[s]
    BY DEF Inv, TypeOK, SetSession
  <2>6. QED BY <2>1, <2>2, <2>3, <2>4, <2>5 DEF Inv, UserIsOwner, SetSession, Active
<1>7. LoggedOut'
  BY DEF Inv, LoggedOut, Shaped, PendingIsPrivate, SetSession, Become, Active,
         Idle
<1>8. SuccessIsRecorded'
  BY DEF Inv, SuccessIsRecorded, SetSession, Become, Active
<1>9. QED BY <1>1, <1>2, <1>3, <1>4, <1>5, <1>6, <1>7, <1>8 DEF Inv

(* What get returns is dead if the session is.                             *)
LEMMA LookupInv ==
  ASSUME Inv, NEW r \in Requests, Lookup(r)
  PROVE  Inv'
<1>1. TypeOK'
  <2>1. req[r] \in Request
    BY RunningType DEF Inv, Lookup, Pc
  <2>2. [req[r] EXCEPT !.pc = "check", !.found = store[req[r].sid]] \in Request
    <3>1. req[r].sid \in SessionIds
      BY <2>1, RunningType DEF Inv, Shaped, Lookup, Pc
    <3>2. store[req[r].sid] \in Session \cup {None}
      BY <3>1 DEF Inv, TypeOK
    <3>3. QED BY <2>1, <3>2 DEF Request, Pc
  <2>3. QED BY <2>1, <2>2 DEF Inv, TypeOK, Lookup, Become
<1>2. Shaped'
  BY DEF Inv, Shaped, Lookup, Become, Active, Idle
<1>3. PendingIsPrivate'
  BY DEF Inv, PendingIsPrivate, Lookup, Become, Active, Idle
<1>4. UndrawnIsUnknown'
  BY DEF Inv, UndrawnIsUnknown, Lookup, Become, Active, Idle
<1>5. LateIsDead'
  BY DEF Inv, LateIsDead, Dead, Expired, Lookup, Become, Active, Idle
<1>6. UserIsOwner'
  BY DEF Inv, UserIsOwner, Shaped, Lookup, Become, Active, Idle
<1>7. LoggedOut'
  BY DEF Inv, LoggedOut, Lookup, Become, Active
<1>8. SuccessIsRecorded'
  BY DEF Inv, SuccessIsRecorded, Lookup, Become, Active
<1>9. QED BY <1>1, <1>2, <1>3, <1>4, <1>5, <1>6, <1>7, <1>8 DEF Inv

(* A dead record leads to a refusal, a live one to its owner.              *)
LEMMA CheckSessionInv ==
  ASSUME Inv, NEW r \in Requests, CheckSession(r)
  PROVE  Inv'
<1>1. TypeOK'
  <2>1. req[r] \in Request
    BY RunningType DEF Inv, CheckSession, Pc
  <2>2. req'[r] \in Request
    <3>1. CASE req[r].found = None
      <4>1. req' = [req EXCEPT ![r] = Proceed(r, None)]
        BY <3>1 DEF CheckSession, Become
      <4>2. QED BY <2>1, <4>1, ProceedType DEF Inv, TypeOK
    <3>2. CASE req[r].found # None /\ Expired(req[r].found)
      BY <2>1, <3>2 DEF Inv, TypeOK, CheckSession, Become, Request, Pc
    <3>3. CASE req[r].found # None /\ ~Expired(req[r].found)
      <4>1. req[r].found.user \in Users \cup {None}
        BY <2>1, <3>3 DEF Request, Session
      <4>2. req'[r] = Proceed(r, req[r].found.user)
        BY <3>3 DEF Inv, TypeOK, CheckSession, Become
      <4>3. QED BY <2>1, <4>1, <4>2, ProceedType
    <3>4. QED BY <3>1, <3>2, <3>3
  <2>3. QED BY <2>1, <2>2 DEF Inv, TypeOK, CheckSession, Become
<1>2. Shaped'
  <2>1. req[r] \in Request /\ Active(r)
    BY RunningType DEF Inv, CheckSession, Pc
  <2>2. \A q \in Requests : q # r => req'[q] = req[q]
    BY DEF Inv, TypeOK, CheckSession, Become
  <2>3. req[r].sid \in SessionIds /\ req[r].kind \in {"call", "logout"}
    BY <2>1 DEF Inv, Shaped, CheckSession
  <2>4. CASE req[r].found = None
    BY <2>1, <2>2, <2>3, <2>4 DEF Inv, TypeOK, Shaped, CheckSession, Become, Proceed, Active, Idle, Request
  <2>5. CASE req[r].found # None /\ Expired(req[r].found)
    BY <2>1, <2>2, <2>3, <2>5 DEF Inv, TypeOK, Shaped, CheckSession, Become, Active, Idle, Request
  <2>6. CASE req[r].found # None /\ ~Expired(req[r].found)
    <3>1. req[r].found.user \in Users
      BY <2>1, <2>6 DEF Request, Session
    <3>2. req' = [req EXCEPT ![r] = Proceed(r, req[r].found.user)]
      BY <2>6 DEF CheckSession, Become
    <3>3. /\ req'[r].user \in Users
          /\ req'[r].kind = req[r].kind /\ req'[r].sid = req[r].sid
          /\ req'[r].status = "ok"
          /\ req'[r].pc = IF req[r].kind = "logout" THEN "delete" ELSE "serve"
      <4>1. req[r].found.user # None
        BY <3>1, NoneAssumption
      <4>2. req'[r] = Proceed(r, req[r].found.user)
        BY <3>2 DEF Inv, TypeOK
      <4>3. Proceed(r, req[r].found.user) =
              [req[r] EXCEPT !.user = req[r].found.user, !.found = None,
                 !.pc = IF req[r].kind = "logout" THEN "delete" ELSE "serve",
                 !.status = "ok"]
        BY <2>3, <4>1 DEF Proceed
      <4>4. QED BY <2>1, <3>1, <4>2, <4>3 DEF Request
    <3>4. QED BY <2>2, <2>3, <3>3 DEF Inv, Shaped, Active, Idle
  <2>7. QED BY <2>4, <2>5, <2>6
<1>3. PendingIsPrivate'
  BY DEF Inv, PendingIsPrivate, CheckSession, Become, Active, Idle, Proceed
<1>4. UndrawnIsUnknown'
  BY DEF Inv, UndrawnIsUnknown, CheckSession, Become, Active, Idle, Proceed
<1>5. LateIsDead'
  BY DEF Inv, LateIsDead, Dead, Expired, CheckSession, Become, Active, Idle,
         Proceed
<1>6. UserIsOwner'
  BY DEF Inv, UserIsOwner, CheckSession, Become, Active, Idle, Proceed
<1>7. LoggedOut'
  BY DEF Inv, LoggedOut, CheckSession, Become, Active, Proceed
<1>8. SuccessIsRecorded'
  BY DEF Inv, SuccessIsRecorded, Shaped, CheckSession, Become, Active, Idle,
         Proceed
<1>9. QED BY <1>1, <1>2, <1>3, <1>4, <1>5, <1>6, <1>7, <1>8 DEF Inv

(* Evicting an expired session only takes a record away.                   *)
LEMMA EvictExpiredInv ==
  ASSUME Inv, NEW r \in Requests, EvictExpired(r)
  PROVE  Inv'
<1>1. TypeOK'
  <2>1. req[r] \in Request
    BY RunningType DEF Inv, EvictExpired, Pc
  <2>2. Proceed(r, None) \in Request
    BY <2>1, ProceedType
  <2>3. QED BY <2>1, <2>2 DEF Inv, TypeOK, EvictExpired, Become, Remember
<1>2. Shaped'
  BY DEF Inv, Shaped, EvictExpired, Become, Active, Idle, Proceed
<1>3. PendingIsPrivate'
  BY DEF Inv, PendingIsPrivate, EvictExpired, Become, Active, Idle, Proceed
<1>4. UndrawnIsUnknown'
  BY DEF Inv, UndrawnIsUnknown, EvictExpired, Become, Active, Idle, Proceed
<1>5. LateIsDead'
  BY DEF Inv, LateIsDead, Dead, Expired, EvictExpired, Become, Active, Idle,
         Proceed
<1>6. UserIsOwner'
  BY DEF Inv, UserIsOwner, EvictExpired, Become, Active, Proceed
<1>7. LoggedOut'
  BY DEF Inv, LoggedOut, EvictExpired, Become, Active, Proceed
<1>8. SuccessIsRecorded'
  BY DEF Inv, SuccessIsRecorded, Shaped, EvictExpired, Become, Active, Idle,
         Proceed
<1>9. QED BY <1>1, <1>2, <1>3, <1>4, <1>5, <1>6, <1>7, <1>8 DEF Inv

(* A call that was served is answered.                                     *)
LEMMA ServeInv ==
  ASSUME Inv, NEW r \in Requests, Serve(r)
  PROVE  Inv'
<1>1. TypeOK'
  <2>1. req[r] \in Request
    BY RunningType DEF Inv, Serve, Pc
  <2>2. Answered(r, "ok") \in Request
    BY <2>1, AnsweredType
  <2>3. QED BY <2>1, <2>2 DEF Inv, TypeOK, Serve, Become
<1>2. Shaped'
  BY DEF Inv, Shaped, Serve, Become, Active, Answered
<1>3. PendingIsPrivate'
  BY DEF Inv, PendingIsPrivate, Serve, Become, Active, Idle, Answered
<1>4. UndrawnIsUnknown'
  BY DEF Inv, UndrawnIsUnknown, Serve, Become, Active, Idle, Answered
<1>5. LateIsDead'
  BY DEF Inv, LateIsDead, Dead, Expired, Serve, Become, Active, Idle, Answered
<1>6. UserIsOwner'
  BY DEF Inv, UserIsOwner, Serve, Become, Active, Answered
<1>7. LoggedOut'
  BY DEF Inv, LoggedOut, Shaped, Serve, Become, Active, Idle, Answered
<1>8. SuccessIsRecorded'
  BY DEF Inv, SuccessIsRecorded, Shaped, Serve, Become, Active, Idle, Answered
<1>9. QED BY <1>1, <1>2, <1>3, <1>4, <1>5, <1>6, <1>7, <1>8 DEF Inv

(* A logout takes its record away, and nobody can put it back.             *)
LEMMA DeleteSessionInv ==
  ASSUME Inv, NEW r \in Requests, DeleteSession(r)
  PROVE  Inv'
<1>1. TypeOK'
  <2>1. req[r] \in Request
    BY RunningType DEF Inv, DeleteSession, Pc
  <2>2. req'[r] \in Request
    BY <2>1 DEF Inv, TypeOK, DeleteSession, Become, Request, Pc
  <2>3. QED BY <2>1, <2>2 DEF Inv, TypeOK, DeleteSession, Become, Remember
<1>2. Shaped'
  BY DEF Inv, TypeOK, Shaped, Request, DeleteSession, Become, Active, Idle
<1>3. PendingIsPrivate'
  BY DEF Inv, PendingIsPrivate, DeleteSession, Become, Active, Idle
<1>4. UndrawnIsUnknown'
  BY DEF Inv, UndrawnIsUnknown, DeleteSession, Become, Active, Idle
<1>5. LateIsDead'
  BY DEF Inv, LateIsDead, Dead, Expired, DeleteSession, Become, Active, Idle
<1>6. UserIsOwner'
  <2>1. req[r] \in Request /\ Active(r)
    BY RunningType DEF Inv, DeleteSession, Pc
  <2>2. \A q \in Requests : q # r => req'[q] = req[q]
    BY DEF Inv, TypeOK, DeleteSession, Become
  <2>3. req'[r] = [req[r] EXCEPT !.header = "clear",
                                 !.pc = IF req[r].user # None THEN "audit" ELSE "answer"]
    BY DEF Inv, TypeOK, DeleteSession, Become
  <2>4. /\ req'[r].pc \in {"audit", "answer"}
        /\ req'[r].user = req[r].user
        /\ req'[r].sid = req[r].sid
    BY <2>1, <2>3 DEF Request
  <2>5. \A s \in SessionIds : store'[s] # None => store'[s] = store[s]
    BY DEF Inv, TypeOK, DeleteSession
  <2>6. QED BY <2>1, <2>2, <2>4, <2>5 DEF Inv, UserIsOwner, DeleteSession, Active
<1>7. LoggedOut'
  BY DEF Inv, TypeOK, LoggedOut, Request, DeleteSession, Become, Active, Idle
<1>8. SuccessIsRecorded'
  BY DEF Inv, SuccessIsRecorded, Shaped, DeleteSession, Become, Active, Idle
<1>9. QED BY <1>1, <1>2, <1>3, <1>4, <1>5, <1>6, <1>7, <1>8 DEF Inv

(* The entry that is written names the owner of the session.               *)
LEMMA RecordAuditInv ==
  ASSUME Inv, NEW r \in Requests, RecordAudit(r)
  PROVE  Inv'
<1>1. TypeOK'
  <2>1. req[r] \in Request
    BY RunningType DEF Inv, RecordAudit, Pc
  <2>2. Answered(r, "ok") \in Request
    BY <2>1, AnsweredType
  <2>3. QED BY <2>1, <2>2 DEF Inv, TypeOK, Shaped, Active, Idle, RecordAudit, Recorded, Become, Request
<1>2. Shaped'
  BY DEF Inv, Shaped, RecordAudit, Become, Active, Answered, Recorded
<1>3. PendingIsPrivate'
  BY DEF Inv, PendingIsPrivate, RecordAudit, Become, Active, Idle, Answered,
         Recorded
<1>4. UndrawnIsUnknown'
  BY DEF Inv, UndrawnIsUnknown, RecordAudit, Become, Active, Idle, Answered,
         Recorded
<1>5. LateIsDead'
  BY DEF Inv, LateIsDead, Dead, Expired, RecordAudit, Become, Active, Idle,
         Answered, Recorded
<1>6. UserIsOwner'
  BY NoneAssumption DEF Inv, UserIsOwner, Shaped, RecordAudit, Become, Active,
         Idle, Answered, Recorded
<1>7. LoggedOut'
  <2>1. req[r] \in Request /\ Active(r)
    BY RunningType DEF Inv, RecordAudit, Pc
  <2>2. \A q \in Requests : q # r => req'[q] = req[q]
    BY DEF Inv, TypeOK, RecordAudit, Become
  <2>3. req'[r].kind = req[r].kind /\ req'[r].sid = req[r].sid
    BY <2>1 DEF Inv, TypeOK, RecordAudit, Become, Answered, Request
  <2>4. req[r].status = "ok"
    BY <2>1 DEF Inv, Shaped, RecordAudit
  <2>5. QED BY <2>1, <2>2, <2>3, <2>4 DEF Inv, LoggedOut, RecordAudit, Active
<1>8. SuccessIsRecorded'
  <2>1. req[r] \in Request /\ Active(r)
    BY RunningType DEF Inv, RecordAudit, Pc
  <2>2. \A q \in Requests : q # r => req'[q] = req[q]
    BY DEF Inv, TypeOK, RecordAudit, Become
  <2>3. req'[r].kind = req[r].kind /\ req'[r].sid = req[r].sid
    BY <2>1 DEF Inv, TypeOK, RecordAudit, Become, Answered, Request
  <2> DEFINE entry == [action |-> req[r].kind, sid |-> req[r].sid, user |-> req[r].user]
  <2>4. entry \in audit' /\ entry.action = req[r].kind /\ entry.sid = req[r].sid
    BY DEF RecordAudit, Recorded
  <2> HIDE DEF entry
  <2>5. audit \subseteq audit'
    BY DEF RecordAudit, Recorded
  <2>6. QED BY <2>2, <2>3, <2>4, <2>5 DEF Inv, SuccessIsRecorded
<1>9. QED BY <1>1, <1>2, <1>3, <1>4, <1>5, <1>6, <1>7, <1>8 DEF Inv

(* A rejected operation may have taken effect, and has no other.           *)
LEMMA FailInv ==
  ASSUME Inv, NEW r \in Requests, Fail(r)
  PROVE  Inv'
<1>1. TypeOK'
  <2>1. req[r] \in Request /\ Active(r)
    BY RunningType DEF Inv, Fail, Pc
  <2>2. Answered(r, "error") \in Request
    BY <2>1, AnsweredType
  <2>3. store' \in [SessionIds -> Session \cup {None}]
    BY <2>1 DEF Inv, TypeOK, Shaped, Fail
  <2>4. audit' \subseteq [action : {"login", "logout"}, sid : SessionIds, user : Users]
    BY <2>1 DEF Inv, TypeOK, Shaped, Fail, Recorded
  <2>5. QED BY <2>1, <2>2, <2>3, <2>4 DEF Inv, TypeOK, Fail, Become, Remember
<1>2. Shaped'
  BY DEF Inv, Shaped, Fail, Become, Active, Answered, Recorded
<1>3. PendingIsPrivate'
  BY DEF Inv, PendingIsPrivate, Fail, Become, Active, Idle, Answered, Recorded
<1>4. UndrawnIsUnknown'
  BY DEF Inv, UndrawnIsUnknown, Fail, Become, Active, Idle, Answered, Recorded
<1>5. LateIsDead'
  BY DEF Inv, TypeOK, LateIsDead, Shaped, PendingIsPrivate, Dead, Expired,
         Fail, Become, Active, Idle, Answered, Recorded
<1>6. UserIsOwner'
  BY NoneAssumption DEF Inv, TypeOK, UserIsOwner, Shaped, Fail, Become,
         Active, Idle, Answered, Recorded
<1>7. LoggedOut'
  BY DEF Inv, TypeOK, LoggedOut, PendingIsPrivate, Request, Fail, Become,
         Active, Idle, Answered, Recorded
<1>8. SuccessIsRecorded'
  BY DEF Inv, SuccessIsRecorded, Fail, Become, Active, Answered, Recorded
<1>9. QED BY <1>1, <1>2, <1>3, <1>4, <1>5, <1>6, <1>7, <1>8 DEF Inv

(* A cookie that is delivered is of a session that is already stored.      *)
LEMMA DeliverInv ==
  ASSUME Inv, NEW r \in Requests, Deliver(r)
  PROVE  Inv'
<1>1. TypeOK'
  BY DEF Inv, TypeOK, Request, Deliver, Become, Active, Idle
<1>2. Shaped'
  BY DEF Inv, Shaped, Deliver, Become, Active
<1>3. PendingIsPrivate'
  BY NoneAssumption DEF Inv, PendingIsPrivate, Shaped, Deliver, Become,
         Active, Idle
<1>4. UndrawnIsUnknown'
  BY NoneAssumption DEF Inv, UndrawnIsUnknown, Deliver, Become, Active, Idle
<1>5. LateIsDead'
  BY DEF Inv, LateIsDead, Dead, Expired, Deliver, Become, Active
<1>6. UserIsOwner'
  BY DEF Inv, UserIsOwner, Deliver, Become, Active
<1>7. LoggedOut'
  BY DEF Inv, LoggedOut, Deliver, Become, Active
<1>8. SuccessIsRecorded'
  BY DEF Inv, SuccessIsRecorded, Deliver, Become, Active, Idle
<1>9. QED BY <1>1, <1>2, <1>3, <1>4, <1>5, <1>6, <1>7, <1>8 DEF Inv

(* An answer that is lost changes nothing else.                            *)
LEMMA LoseInv ==
  ASSUME Inv, NEW r \in Requests, Lose(r)
  PROVE  Inv'
<1>1. TypeOK'
  BY DEF Inv, TypeOK, Lose, Become, Active
<1>2. Shaped'
  BY DEF Inv, Shaped, Lose, Become, Active
<1>3. PendingIsPrivate'
  BY DEF Inv, PendingIsPrivate, Lose, Become, Active
<1>4. UndrawnIsUnknown'
  BY DEF Inv, UndrawnIsUnknown, Lose, Become, Active
<1>5. LateIsDead'
  BY DEF Inv, LateIsDead, Dead, Expired, Lose, Become, Active
<1>6. UserIsOwner'
  BY DEF Inv, UserIsOwner, Lose, Become, Active
<1>7. LoggedOut'
  BY DEF Inv, LoggedOut, Lose, Become, Active
<1>8. SuccessIsRecorded'
  BY DEF Inv, SuccessIsRecorded, Lose, Become, Active, Idle
<1>9. QED BY <1>1, <1>2, <1>3, <1>4, <1>5, <1>6, <1>7, <1>8 DEF Inv

(* A restart leaves no request, and at most the records there were.        *)
LEMMA RestartInv ==
  ASSUME Inv, Restart
  PROVE  Inv'
<1>1. TypeOK'
  BY DEF Inv, TypeOK, Restart, Remember, Active
<1>2. Shaped'
  BY DEF Inv, Shaped, Restart, Active
<1>3. PendingIsPrivate'
  BY DEF Inv, PendingIsPrivate, Restart, Active
<1>4. UndrawnIsUnknown'
  BY DEF Inv, UndrawnIsUnknown, Restart, Active
<1>5. LateIsDead'
  BY DEF Inv, LateIsDead, Restart, Active
<1>6. UserIsOwner'
  BY DEF Inv, UserIsOwner, Restart, Active
<1>7. LoggedOut'
  BY DEF Inv, LoggedOut, Restart, Active
<1>8. SuccessIsRecorded'
  BY DEF Inv, SuccessIsRecorded, Restart, Active, Idle
<1>9. QED BY <1>1, <1>2, <1>3, <1>4, <1>5, <1>6, <1>7, <1>8 DEF Inv

(* Time only makes more sessions dead.                                     *)
LEMMA TickInv ==
  ASSUME Inv, Tick
  PROVE  Inv'
<1>1. TypeOK'
  BY DEF Inv, TypeOK, Tick, Remember, Active
<1>2. Shaped'
  BY DEF Inv, Shaped, Tick, Active
<1>3. PendingIsPrivate'
  BY DEF Inv, PendingIsPrivate, Tick, Active
<1>4. UndrawnIsUnknown'
  BY DEF Inv, UndrawnIsUnknown, Tick, Active
<1>5. LateIsDead'
  BY DEF Inv, TypeOK, LateIsDead, Dead, Expired, Request, Session, Tick,
         Active
<1>6. UserIsOwner'
  BY DEF Inv, UserIsOwner, Tick, Active
<1>7. LoggedOut'
  BY DEF Inv, LoggedOut, Tick, Active
<1>8. SuccessIsRecorded'
  BY DEF Inv, SuccessIsRecorded, Tick, Active
<1>9. QED BY <1>1, <1>2, <1>3, <1>4, <1>5, <1>6, <1>7, <1>8 DEF Inv

-----------------------------------------------------------------------------
(* The invariant holds at the start: every slot is idle, nothing is drawn. *)
LEMMA InitInv ==
  ASSUME Init
  PROVE  Inv
<1>1. TypeOK
  BY DEF Init, TypeOK
<1>2. \A r \in Requests : ~Active(r) /\ req[r].pc = "idle"
  BY DEF Init, Active, Idle
<1>3. Shaped /\ PendingIsPrivate /\ LateIsDead /\ LoggedOut
  BY <1>2 DEF Shaped, PendingIsPrivate, LateIsDead, LoggedOut
<1>4. UndrawnIsUnknown
  BY <1>2, NoneAssumption DEF Init, UndrawnIsUnknown
<1>5. UserIsOwner
  BY <1>2 DEF Init, UserIsOwner
<1>6. SuccessIsRecorded
  BY <1>2 DEF SuccessIsRecorded
<1>7. QED
  BY <1>1, <1>3, <1>4, <1>5, <1>6 DEF Inv

(* A step that changes nothing keeps the invariant.                        *)
LEMMA StutterInv ==
  ASSUME Inv, UNCHANGED vars
  PROVE  Inv'
BY DEF Inv, TypeOK, Shaped, PendingIsPrivate, UndrawnIsUnknown, LateIsDead, UserIsOwner,
       LoggedOut, SuccessIsRecorded, Active, Dead, Expired, vars

(* Every step keeps the invariant.                                         *)
LEMMA NextInv ==
  ASSUME Inv, [Next]_vars
  PROVE  Inv'
<1>1. CASE UNCHANGED vars
  BY <1>1, StutterInv
<1>2. ASSUME NEW r \in Requests, NEW b \in Browsers, Send(r, b)
      PROVE  Inv'
  BY <1>2, SendLoginInv, SendWithoutCookieInv, SendWithCookieInv DEF Send
<1>3. ASSUME NEW r \in Requests, Process(r)
      PROVE  Inv'
  BY <1>3, RefusedInv, AuthenticatedInv, SetSessionInv, LookupInv, CheckSessionInv,
     EvictExpiredInv, ServeInv, DeleteSessionInv, RecordAuditInv, FailInv DEF Process
<1>4. ASSUME NEW r \in Requests, Deliver(r) \/ Lose(r)
      PROVE  Inv'
  BY <1>4, DeliverInv, LoseInv
<1>5. CASE Restart
  BY <1>5, RestartInv
<1>6. CASE Tick
  BY <1>6, TickInv
<1>7. QED
  BY <1>1, <1>2, <1>3, <1>4, <1>5, <1>6 DEF Next

(* The inductive invariant holds in every state the server reaches.        *)
THEOREM Invariance == Spec => []Inv
<1>1. Init => Inv
  BY InitInv
<1>2. Inv /\ [Next]_vars => Inv'
  BY NextInv
<1>3. QED
  BY <1>1, <1>2, PTL DEF Spec

(* Every variable keeps its type; in particular no step stores a session   *)
(* without a user or writes an audit entry without one.                    *)
THEOREM TypeCorrect == Spec => []TypeOK
<1>1. Inv => TypeOK
  BY DEF Inv
<1>2. QED
  BY <1>1, Invariance, PTL

(* requireUser never lets a request through whose session had been logged  *)
(* out, had expired or was lost when the request was sent.                 *)
THEOREM DeadSessionsAreRefused == Spec => []DeadSessionIsNeverServed
<1>1. Inv => DeadSessionIsNeverServed
  <2> SUFFICES ASSUME Inv, NEW r \in Requests, req[r].pc = "serve"
               PROVE  ~req[r].late
    BY DEF DeadSessionIsNeverServed
  <2>1. req[r] \in Request /\ Active(r)
    BY RunningType DEF Inv, Pc
  <2>2. req[r].late # TRUE
    BY <2>1 DEF Inv, LateIsDead
  <2>3. req[r].late \in BOOLEAN
    BY <2>1 DEF Request
  <2>4. QED BY <2>2, <2>3
<1>2. QED
  BY <1>1, Invariance, PTL

(* A request is handled, and login and logout are recorded, for the user   *)
(* whose login drew the session id.                                        *)
THEOREM UsersAreNotMixed == Spec => []ActsForOwner
<1>1. Inv => ActsForOwner
  <2> SUFFICES ASSUME Inv
               PROVE  ActsForOwner
    OBVIOUS
  <2>1. ASSUME NEW r \in Requests, req[r].pc \in {"serve", "audit"}
        PROVE  req[r].user = owner[req[r].sid]
    <3>1. Active(r)
      BY <2>1, RunningType DEF Inv, Pc
    <3>2. req[r].user # None
      BY <2>1, <3>1, NoneAssumption DEF Inv, Shaped
    <3>3. QED BY <2>1, <3>1, <3>2 DEF Inv, UserIsOwner
  <2>2. QED BY <2>1 DEF Inv, UserIsOwner, ActsForOwner
<1>2. QED
  BY <1>1, Invariance, PTL

(* login and logout answer success only after their audit entry is in.     *)
THEOREM SuccessesAreRecorded == Spec => []SuccessIsRecorded
<1>1. Inv => SuccessIsRecorded
  BY DEF Inv
<1>2. QED
  BY <1>1, Invariance, PTL

(* When logout answers success its session is gone, whatever was in flight.*)
THEOREM LogoutsEndSessions == Spec => []LogoutEndsSession
<1>1. Inv => LogoutEndsSession
  <2> SUFFICES ASSUME Inv, NEW r \in Requests, req[r].pc = "answer",
                      req[r].status = "ok", req[r].kind = "logout"
               PROVE  req[r].sid = None \/ store[req[r].sid] = None
    BY DEF LogoutEndsSession
  <2>1. Active(r)
    BY RunningType DEF Inv, Pc
  <2>2. QED BY <2>1 DEF Inv, LoggedOut
<1>2. QED
  BY <1>1, Invariance, PTL

-----------------------------------------------------------------------------
(* A session that has ended is over.                                       *)

(* An id whose session ended was drawn and is dead, and it is not the id   *)
(* of any record that is about to be stored.                               *)
EndedIsOver ==
  /\ \A s \in ended : owner[s] # None /\ Dead(s)
  /\ \A q \in Requests : Active(q) /\ req[q].pc = "set" =>
       req[q].sid \notin ended /\ store[req[q].sid] = None

(* What every step does to the records, the logins that are about to store *)
(* one, the ids drawn, the clock and the history of ended sessions.        *)
StepFacts ==
  /\ \A s \in SessionIds :
       \/ store'[s] \in {store[s], None}
       \/ \E q \in Requests : req[q].pc = "set" /\ req[q].sid = s /\ req'[q].pc # "set"
  /\ \A q \in Requests : req'[q].pc = "set" =>
       \/ req[q].pc = "set" /\ req'[q].sid = req[q].sid
       \/ req'[q].sid \in SessionIds /\ owner[req'[q].sid] = None
  /\ \A s \in SessionIds : owner[s] # None => owner'[s] # None
  /\ clock' >= clock
  /\ ended' \subseteq ended \cup {s \in SessionIds : store[s] # None /\ Dead(s)'}

(* No answer and no request whose user is known is about to store a record.*)
LEMMA LeavesSet ==
  ASSUME NEW r \in Requests, req[r] \in Request
  PROVE  /\ \A status : Answered(r, status).pc # "set"
         /\ \A user : Proceed(r, user).pc # "set"
BY DEF Answered, Proceed, Request

LEMMA StepsHaveFacts ==
  ASSUME Inv, [Next]_vars
  PROVE  StepFacts
<1>1. \A r \in Requests : req[r] \in Request \cup {Idle}
  BY DEF Inv, TypeOK
<1>2. ASSUME NEW r \in Requests, NEW b \in Browsers, Send(r, b)
      PROVE  StepFacts
  <2>1. \A q \in Requests : req'[q].pc = "set" => req'[q] = req[q]
    <3>1. /\ New("call", b, "answer", None) \in Request
          /\ New("logout", b, "answer", None) \in Request
      BY DEF New, Request, Pc
    <3>2. req'[r].pc # "set"
      BY <1>2, <3>1 DEF Inv, TypeOK, Send, SendLogin, SendWithoutCookie, SendWithCookie,
         Become, New, Request
    <3>3. \A q \in Requests : q # r => req'[q] = req[q]
      BY <1>2 DEF Inv, TypeOK, Send, SendLogin, SendWithoutCookie, SendWithCookie, Become
    <3>4. QED BY <3>2, <3>3
  <2>2. UNCHANGED <<store, owner, clock, ended>>
    BY <1>2 DEF Send, SendLogin, SendWithoutCookie, SendWithCookie
  <2>3. QED BY <2>1, <2>2 DEF StepFacts, Inv, TypeOK
<1>3. ASSUME NEW r \in Requests, Authenticated(r)
      PROVE  StepFacts
  <2>1. req[r] \in Request
    BY <1>3, RunningType DEF Inv, Authenticated, Pc
  <2>2. PICK u \in Users, s \in SessionIds, ttl \in {SessionTtl, RememberTtl} :
          /\ owner[s] = None
          /\ owner' = [owner EXCEPT ![s] = u]
          /\ req' = [req EXCEPT ![r] =
                [req[r] EXCEPT !.pc = "set", !.sid = s,
                               !.found = [user |-> u, expires |-> clock + ttl]]]
    BY <1>3 DEF Authenticated, Become
  <2>3. req'[r].sid = s
    BY <2>1, <2>2 DEF Inv, TypeOK, Request
  <2>4. \A q \in Requests : q # r => req'[q] = req[q]
    BY <2>2 DEF Inv, TypeOK
  <2>5. UNCHANGED <<store, clock, ended>>
    BY <1>3 DEF Authenticated
  <2>6. \A i \in SessionIds : owner[i] # None => owner'[i] # None
    BY <2>2 DEF Inv, TypeOK
  <2>7. QED BY <2>2, <2>3, <2>4, <2>5, <2>6 DEF StepFacts, Inv, TypeOK
<1>4. ASSUME NEW r \in Requests,
             Refused(r) \/ Lookup(r) \/ CheckSession(r) \/ Serve(r) \/ RecordAudit(r)
      PROVE  StepFacts
  <2>1. req'[r].pc # "set"
    <3>1. req[r] \in Request
      BY <1>4, RunningType DEF Inv, Refused, Lookup, CheckSession, Serve, RecordAudit, Pc
    <3>2. CASE Refused(r) \/ Serve(r) \/ RecordAudit(r)
      BY <3>1, <3>2, LeavesSet DEF Inv, TypeOK, Refused, Serve, RecordAudit, Become
    <3>3. CASE Lookup(r)
      BY <3>1, <3>3 DEF Inv, TypeOK, Lookup, Become, Request
    <3>4. CASE CheckSession(r)
      <4>1. [req[r] EXCEPT !.pc = "evict"].pc # "set"
        BY <3>1 DEF Request
      <4>2. \/ \E user : req'[r] = Proceed(r, user)
            \/ req'[r] = [req[r] EXCEPT !.pc = "evict"]
        BY <3>4 DEF Inv, TypeOK, CheckSession, Become
      <4>3. QED BY <3>1, <4>1, <4>2, LeavesSet
    <3>5. QED BY <1>4, <3>2, <3>3, <3>4
  <2>2. \A q \in Requests : q # r => req'[q] = req[q]
    BY <1>4 DEF Inv, TypeOK, Refused, Lookup, CheckSession, Serve, RecordAudit, Become
  <2>3. UNCHANGED <<store, owner, clock, ended>>
    BY <1>4 DEF Refused, Lookup, CheckSession, Serve, RecordAudit
  <2>4. QED BY <2>1, <2>2, <2>3 DEF StepFacts, Inv, TypeOK
<1>5. ASSUME NEW r \in Requests,
             SetSession(r) \/ EvictExpired(r) \/ DeleteSession(r) \/ Fail(r)
      PROVE  StepFacts
  <2>1. req[r] \in Request
    BY <1>5, RunningType DEF Inv, SetSession, EvictExpired, DeleteSession, Fail, Pc
  <2>2. req'[r].pc # "set"
    <3>1. CASE SetSession(r) \/ DeleteSession(r)
      <4>1. CASE SetSession(r)
        BY <2>1, <4>1 DEF Inv, TypeOK, SetSession, Become, Request
      <4>2. CASE DeleteSession(r)
        BY <2>1, <4>2 DEF Inv, TypeOK, DeleteSession, Become, Request
      <4>3. QED BY <3>1, <4>1, <4>2
    <3>2. CASE EvictExpired(r)
      BY <2>1, <3>2, LeavesSet DEF Inv, TypeOK, EvictExpired, Become
    <3>3. CASE Fail(r)
      BY <2>1, <3>3, LeavesSet DEF Inv, TypeOK, Fail, Become
    <3>4. QED BY <1>5, <3>1, <3>2, <3>3
  <2>3. \A q \in Requests : q # r => req'[q] = req[q]
    BY <1>5 DEF Inv, TypeOK, SetSession, EvictExpired, DeleteSession, Fail, Become
  <2>4. \A s \in SessionIds :
          \/ store'[s] \in {store[s], None}
          \/ req[r].pc = "set" /\ req[r].sid = s
    <3>1. CASE SetSession(r) \/ EvictExpired(r) \/ DeleteSession(r)
      BY <3>1 DEF Inv, TypeOK, SetSession, EvictExpired, DeleteSession
    <3>2. CASE Fail(r)
      BY <3>2 DEF Inv, TypeOK, Fail
    <3>3. QED BY <1>5, <3>1, <3>2
  <2>5. UNCHANGED <<owner, clock>> /\ Remember
    BY <1>5 DEF SetSession, EvictExpired, DeleteSession, Fail
  <2>6. QED BY <2>2, <2>3, <2>4, <2>5 DEF StepFacts, Inv, TypeOK, Remember
<1>6. ASSUME NEW r \in Requests, Deliver(r) \/ Lose(r)
      PROVE  StepFacts
  <2>1. req'[r].pc # "set"
    BY <1>6 DEF Inv, TypeOK, Deliver, Lose, Become, Idle
  <2>2. \A q \in Requests : q # r => req'[q] = req[q]
    BY <1>6 DEF Inv, TypeOK, Deliver, Lose, Become
  <2>3. UNCHANGED <<store, owner, clock, ended>>
    BY <1>6 DEF Deliver, Lose
  <2>4. QED BY <2>1, <2>2, <2>3 DEF StepFacts, Inv, TypeOK
<1>7. CASE Restart
  <2>1. \A q \in Requests : req'[q].pc # "set"
    BY <1>7 DEF Restart, Idle
  <2>2. \A s \in SessionIds : store'[s] \in {store[s], None}
    BY <1>7 DEF Restart
  <2>3. QED BY <1>7, <2>1, <2>2 DEF StepFacts, Inv, TypeOK, Restart, Remember
<1>8. CASE Tick
  BY <1>8 DEF StepFacts, Inv, TypeOK, Tick, Remember
<1>9. CASE UNCHANGED vars
  BY <1>9 DEF StepFacts, Inv, TypeOK, vars
<1>10. QED
  BY <1>2, <1>3, <1>4, <1>5, <1>6, <1>7, <1>8, <1>9 DEF Next, Process

(* A record appears only under an id that was not drawn before, or that a  *)
(* login which drew it still holds alone; so no ended id comes back.       *)
LEMMA EndedNext ==
  ASSUME Inv, EndedIsOver, [Next]_vars
  PROVE  EndedIsOver'
<1>1. StepFacts /\ Inv'
  BY StepsHaveFacts, NextInv
<1>2. \A s \in SessionIds : store[s] # None => owner[s] # None
  BY NoneAssumption DEF Inv, TypeOK, UserIsOwner, Session
<1>3. \A q \in Requests : req[q].pc = "set" =>
        Active(q) /\ req[q].sid \in SessionIds /\ owner[req[q].sid] # None
  <2> SUFFICES ASSUME NEW q \in Requests, req[q].pc = "set"
               PROVE  Active(q) /\ req[q].sid \in SessionIds /\ owner[req[q].sid] # None
    OBVIOUS
  <2>1. Active(q)
    BY RunningType DEF Inv, Pc
  <2>2. req[q].found \in Session /\ req[q].sid \in SessionIds
    BY <2>1 DEF Inv, Shaped
  <2>3. req[q].found.user = owner[req[q].sid]
    BY <2>1 DEF Inv, UserIsOwner
  <2>4. QED BY <2>1, <2>2, <2>3, NoneAssumption DEF Session
<1>4. ASSUME NEW s \in SessionIds, store[s] = None, store'[s] # None
      PROVE  \E q \in Requests : req[q].pc = "set" /\ req[q].sid = s /\ req'[q].pc # "set"
  BY <1>1, <1>4 DEF StepFacts
<1>5. ASSUME NEW s \in ended'
      PROVE  owner'[s] # None /\ Dead(s)'
  <2>1. s \in SessionIds
    BY <1>1, <1>5 DEF Inv, TypeOK
  <2>2. CASE store[s] # None /\ Dead(s)'
    BY <1>1, <1>2, <2>1, <2>2 DEF StepFacts
  <2>3. CASE s \in ended
    <3>1. owner'[s] # None
      BY <1>1, <2>1, <2>3 DEF StepFacts, EndedIsOver
    <3>2. \A q \in Requests : req[q].pc = "set" => req[q].sid # s
      BY <1>3, <2>3 DEF EndedIsOver
    <3>3. store'[s] \in {store[s], None}
      BY <1>1, <2>1, <3>2 DEF StepFacts
    <3>4. clock \in Nat /\ clock' \in Nat /\ clock' >= clock
      BY <1>1 DEF StepFacts, Inv, TypeOK
    <3>5. store[s] # None => store[s].expires \in Nat
      BY <2>1 DEF Inv, TypeOK, Session
    <3>6. Dead(s)
      BY <2>3 DEF EndedIsOver
    <3>7. QED BY <3>1, <3>3, <3>4, <3>5, <3>6 DEF Dead, Expired
  <2>4. QED BY <1>1, <1>5, <2>2, <2>3 DEF StepFacts
<1>6. ASSUME NEW q \in Requests, req'[q].pc = "set"
      PROVE  req'[q].sid \notin ended' /\ store'[req'[q].sid] = None
  <2>1. CASE req[q].pc = "set" /\ req'[q].sid = req[q].sid
    <3> DEFINE s == req[q].sid
    <3>1. s \in SessionIds /\ s \notin ended /\ store[s] = None
      BY <1>3, <2>1 DEF EndedIsOver
    <3>2. s \notin ended'
      BY <1>1, <3>1 DEF StepFacts
    <3>3. \A p \in Requests : req[p].pc = "set" /\ req[p].sid = s => p = q
      BY <1>3, <2>1 DEF Inv, PendingIsPrivate
    <3>4. store'[s] = None
      BY <1>4, <1>6, <3>1, <3>3
    <3>5. QED BY <2>1, <3>2, <3>4
  <2>2. CASE req'[q].sid \in SessionIds /\ owner[req'[q].sid] = None
    <3> DEFINE s == req'[q].sid
    <3>1. s \notin ended /\ store[s] = None
      BY <1>2, <2>2 DEF EndedIsOver
    <3>2. s \notin ended'
      BY <1>1, <3>1 DEF StepFacts
    <3>3. \A p \in Requests : req[p].pc = "set" => req[p].sid # s
      BY <1>3, <2>2
    <3>4. store'[s] = None
      BY <1>4, <2>2, <3>1, <3>3
    <3>5. QED BY <3>2, <3>4
  <2>3. QED BY <1>1, <1>6, <2>1, <2>2 DEF StepFacts
<1>7. QED
  BY <1>5, <1>6 DEF EndedIsOver

(* A session that was logged out, expired, was evicted or was lost in a    *)
(* restart is dead for good: what login stores afterwards, and what was in *)
(* flight when it ended, never gives its id a record again.                *)
THEOREM SessionsStayDead == Spec => []NoResurrection
<1>1. Init => Inv /\ EndedIsOver
  <2> SUFFICES ASSUME Init
               PROVE  EndedIsOver
    BY InitInv
  <2>1. ended = {} /\ \A q \in Requests : ~Active(q)
    BY DEF Init, Active
  <2>2. QED BY <2>1 DEF EndedIsOver
<1>2. Inv /\ EndedIsOver /\ [Next]_vars => Inv' /\ EndedIsOver'
  BY NextInv, EndedNext
<1>3. EndedIsOver => NoResurrection
  BY DEF EndedIsOver, NoResurrection
<1>4. QED
  BY <1>1, <1>2, <1>3, PTL DEF Spec
=============================================================================
