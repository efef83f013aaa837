---------------------------- MODULE RecordPages ----------------------------
(***************************************************************************)
(* The pages of a record in the browser: its form (EditPage.tsx; new, edit *)
(* and view), its password (PasswordPage.tsx) and the confirmation of its  *)
(* delete (DeleteConfirmPage.tsx), for one operator.  The form has a text  *)
(* and a relation, which LookupField shows; on the list the latter is the  *)
(* relation filter.  Requests run on when their page is left, and what     *)
(* they end with, a change of the hash included, comes all the same.       *)
(***************************************************************************)
EXTENDS LookupField

CONSTANTS
  Names,     \* values of the text field, "" for none
  First,     \* what the record may be at the start
  MaxPosts,  \* bound of the requests in flight that change something
  MaxClicks  \* bound of what operators do

ASSUME NameAssumption == {"", "done"} \subseteq Names /\ First \subseteq [name : Names, rel : SUBSET Values]
ASSUME BoundAssumption == {MaxPosts, MaxClicks} \subseteq Nat

VARIABLES
  rec,     \* server: the record, or Gone
  multi,   \* whether the relation has several values
  offered, \* the pages that the operator may open
  where,   \* the page that is mounted
  form,    \* its state, value and picker apart
  loads,   \* the loads of the page in flight, in the order they started
  posts,   \* the requests in flight
  clicks   \* history: how much operators have done

pageVars == <<rec, multi, offered, where, form, loads, posts>>
vars == <<fieldVars, pageVars, clicks>>

Gone == [name |-> "", rel |-> {"gone"}]
Records == [name : Names, rel : SUBSET Values]
FieldNames == {"name", "rel"}
Places == {"list", "new", "edit", "view", "password", "delete"}
Intents == {"list", "continue", "add-another"}

Form ==
  [ name    : Names,
    screen  : {"loading", "ready", "blocked", "error"},  \* of a delete
    busy    : BOOLEAN,                  \* an action or the delete runs
    word    : {"blank", "differ", "same"},               \* password, passwordConfirm
    touched : SUBSET FieldNames,        \* history: fields changed since the load
    loaded  : BOOLEAN,                  \* history: the record is in the form
    base    : Records,                  \* history: as it was loaded
    excused : BOOLEAN ]                 \* history: it may be out of date

Load ==
  [ pc      : {"meta", "entity", "read"},
    rec     : Records,
    closes  : BOOLEAN,                  \* an action waits for it
    excused : BOOLEAN ]                 \* history: it may be out of date

Post ==
  [ do      : {"save", "action", "delete", "password"},
    intent  : Intents,
    from    : Places,
    data    : Records,
    mounted : BOOLEAN,
    status  : {"sent", "done", "refused"},
    form    : Form ]                    \* history: the form that was sent

TypeOK ==
  /\ FieldTypeOK
  /\ rec \in Records \cup {Gone}
  /\ multi \in BOOLEAN
  /\ offered \subseteq Places
  /\ where \in offered
  /\ form \in Form
  /\ loads \in Seq(Load)
  /\ posts \in Seq(Post)
  /\ clicks \in 0..MaxClicks

-----------------------------------------------------------------------------

EmptyRecord == [name |-> "", rel |-> {}]

NewForm ==
  [ name |-> "", screen |-> "loading", busy |-> FALSE, word |-> "blank", touched |-> {},
    loaded |-> FALSE, base |-> EmptyRecord, excused |-> FALSE ]

LoadThat(closes) == [pc |-> "meta", rec |-> EmptyRecord, closes |-> closes, excused |-> FALSE]
NewLoad == LoadThat(FALSE)

KindOn(place) ==
  CASE place = "list" -> "filter"
    [] place = "view" -> "readonly"
    [] OTHER -> IF multi THEN "multiselect" ELSE "field"

HasRecord == where \in {"edit", "view", "password", "delete"}

Leave(ps) == [i \in DOMAIN ps |-> [ps[i] EXCEPT !.mounted = FALSE]]

(* A hash that is set to another page mounts it; its load starts.          *)
Mount(place, ps) ==
  IF place = where THEN UNCHANGED <<where, form, loads, fieldVars>> /\ posts' = ps
  ELSE /\ where' = place
       /\ kind' = KindOn(place)
       /\ form' = NewForm
       /\ value' = {}
       /\ picker' = NewPicker
       /\ lookups' = <<>>
       /\ loads' = IF place = "list" THEN <<>> ELSE <<NewLoad>>
       /\ posts' = Leave(ps)

Init ==
  /\ rec \in First
  /\ multi \in BOOLEAN
  /\ multi \/ Cardinality(rec.rel) <= 1
  /\ offered \in {Places \ {"view"}, {"list", "view"}}
  /\ where \in offered
  /\ kind = KindOn(where)
  /\ form = NewForm
  /\ value = {}
  /\ picker = NewPicker
  /\ lookups = <<>>
  /\ loads = IF where = "list" THEN <<>> ELSE <<NewLoad>>
  /\ posts = <<>>
  /\ clicks = 0

(* Whoever may not write the resource is shown its records only.           *)
Navigate(place) ==
  /\ place \in offered \ {where}
  /\ Mount(place, posts)
  /\ UNCHANGED <<rec, multi, offered>>

-----------------------------------------------------------------------------
(* Loads: the metadata, then the record.                                   *)

(* The form of a new record is emptied, whatever has been typed.           *)
MetaArrives(i) ==
  /\ loads[i].pc = "meta"
  /\ IF where = "new"
       THEN /\ form' = [form EXCEPT !.name = "", !.touched = {}]
            /\ SetValue({}, picker)
            /\ loads' = RemoveAt(loads, i)
       ELSE loads' = [loads EXCEPT ![i].pc = "entity"] /\ UNCHANGED <<form, value, picker, lookups>>
  /\ UNCHANGED <<kind, rec, multi, offered, where, posts>>

RecordReads(i) ==
  /\ loads[i].pc = "entity"
  /\ rec # Gone
  /\ loads' = [loads EXCEPT ![i].pc = "read", ![i].rec = rec]
  /\ UNCHANGED <<fieldVars, rec, multi, offered, where, form, posts>>

Overtaken(i) ==
  RemoveAt([k \in DOMAIN loads |->
    IF k < i THEN [loads[k] EXCEPT !.excused = TRUE] ELSE loads[k]], i)

(* What arrives takes the place of whatever the form has; the summary of a *)
(* delete may find that it is blocked.  The buttons of actions are         *)
(* available again when the load of an action has ended.                   *)
RecordArrives(i) ==
  /\ loads[i].pc = "read"
  /\ IF where \in {"edit", "view"}
       THEN /\ form' = [form EXCEPT !.name = loads[i].rec.name, !.touched = {}, !.loaded = TRUE,
                          !.base = loads[i].rec, !.excused = loads[i].excused,
                          !.busy = @ /\ ~loads[i].closes]
            /\ SetValue(loads[i].rec.rel, picker)
       ELSE /\ \E screen \in (IF where = "delete" THEN {"ready", "blocked"} ELSE {"loading"}) :
                 form' = [form EXCEPT !.screen = screen]
            /\ UNCHANGED <<value, picker, lookups>>
  /\ loads' = Overtaken(i)
  /\ UNCHANGED <<kind, rec, multi, offered, where, posts>>

(* A mutant: buttons are released where an action succeeds or fails, and   *)
(* not finally.                                                            *)
FailedLoadStaysBusy(i) ==
  /\ form' = [form EXCEPT !.excused = TRUE,
                          !.screen = IF where = "delete" THEN "error" ELSE @]
  /\ loads' = Overtaken(i)
  /\ UNCHANGED <<fieldVars, rec, multi, offered, where, posts>>

(* The fields stay as they are; the buttons of actions are released.       *)
LoadFails(i) ==
  /\ form' = [form EXCEPT !.excused = TRUE,
                          !.busy = @ /\ ~loads[i].closes,
                          !.screen = IF where = "delete" THEN "error" ELSE @]
  /\ loads' = Overtaken(i)
  /\ UNCHANGED <<fieldVars, rec, multi, offered, where, posts>>

-----------------------------------------------------------------------------
(* What the operator does.                                                 *)

TypeName(name) ==
  /\ where \in {"new", "edit"}
  /\ name # form.name
  /\ form' = [form EXCEPT !.name = name, !.touched = @ \cup {"name"}]
  /\ UNCHANGED <<fieldVars, rec, multi, offered, where, loads, posts>>

UseField ==
  /\ where \in {"new", "edit", "list"}
  /\ FieldClick
  /\ form' = IF value' = value THEN form ELSE [form EXCEPT !.touched = @ \cup {"rel"}]
  /\ UNCHANGED <<rec, multi, offered, where, loads, posts>>

(* A mutant: values of a multiselect that are not strings are dropped.     *)
NormalizeStrings == [name |-> form.name, rel |-> IF "rel" \in form.touched THEN value ELSE {}]

(* The body of a save: all fields that may be changed.                     *)
NormalizeValues == [name |-> form.name, rel |-> value]

Send(do, intent, data) ==
  /\ Len(posts) < MaxPosts
  /\ posts' = Append(posts, [do |-> do, intent |-> intent, from |-> where, data |-> data,
                             mounted |-> TRUE, status |-> "sent", form |-> form])

(* The buttons of the form are never disabled.                             *)
Submit(intent) ==
  /\ where \in {"new", "edit"}
  /\ Send("save", intent, NormalizeValues)
  /\ UNCHANGED <<fieldVars, rec, multi, offered, where, form, loads>>

RunAction ==
  /\ where = "edit"
  /\ ~form.busy
  /\ Send("action", "list", EmptyRecord)
  /\ form' = [form EXCEPT !.busy = TRUE]
  /\ UNCHANGED <<fieldVars, rec, multi, offered, where, loads>>

ConfirmDelete ==
  /\ where = "delete"
  /\ form.screen = "ready"
  /\ ~form.busy
  /\ Send("delete", "list", EmptyRecord)
  /\ form' = [form EXCEPT !.busy = TRUE]
  /\ UNCHANGED <<fieldVars, rec, multi, offered, where, loads>>

TypePassword(word) ==
  /\ where = "password"
  /\ word # form.word
  /\ form' = [form EXCEPT !.word = word]
  /\ UNCHANGED <<fieldVars, rec, multi, offered, where, loads, posts>>

(* Nothing is sent unless both are there and the same.                     *)
ChangePassword ==
  /\ where = "password"
  /\ form.word = "same"
  /\ Send("password", "list", EmptyRecord)
  /\ UNCHANGED <<fieldVars, rec, multi, offered, where, form, loads>>

-----------------------------------------------------------------------------
(* The server.                                                             *)

(* JSON leaves out what is undefined: an empty text, or no value of a      *)
(* single relation, changes nothing; no values of a multiselect do.        *)
Saved(p) ==
  [ name |-> IF p.data.name = "" THEN rec.name ELSE p.data.name,
    rel  |-> IF p.data.rel = {} /\ ~multi THEN rec.rel ELSE p.data.rel ]

RecordAfter(p) ==
  CASE p.do = "save" -> IF p.from = "new" THEN p.data ELSE Saved(p)
    [] p.do = "action" -> [rec EXCEPT !.name = "done"]
    [] p.do = "delete" -> Gone
    [] OTHER -> rec

(* The record has changed otherwise than by the page that is mounted.      *)
Blame ==
  /\ form' = [form EXCEPT !.excused = TRUE]
  /\ loads' = [k \in DOMAIN loads |-> [loads[k] EXCEPT !.excused = @ \/ loads[k].pc = "read"]]

PostApplies(i) ==
  /\ posts[i].status = "sent"
  /\ \/ /\ rec # Gone \/ posts[i].from = "new"
        /\ rec' = RecordAfter(posts[i])
        /\ posts' = [posts EXCEPT ![i].status = "done"]
        /\ IF posts[i].mounted THEN UNCHANGED <<form, loads>> ELSE Blame
     \/ /\ posts' = [posts EXCEPT ![i].status = "refused"]
        /\ UNCHANGED <<rec, form, loads>>
  /\ UNCHANGED <<fieldVars, multi, offered, where>>

(* A mutant: Save and continue shows the form as it is.                    *)
ContinueWithoutLoad(i) ==
  /\ posts[i].status = "done"
  /\ posts[i].do = "save" /\ posts[i].intent = "continue" /\ posts[i].from = "edit"
  /\ posts[i].mounted
  /\ posts' = RemoveAt(posts, i)
  /\ form' = [form EXCEPT !.touched = {}]
  /\ UNCHANGED <<fieldVars, rec, multi, offered, where, loads>>

(* Save and continue on the edit page.                                     *)
ContinueEnds(i) ==
  /\ posts[i].status = "done"
  /\ posts[i].do = "save" /\ posts[i].intent = "continue" /\ posts[i].from = "edit"
  /\ posts' = RemoveAt(posts, i)
  /\ loads' = IF posts[i].mounted THEN Append(loads, NewLoad) ELSE loads
  /\ UNCHANGED <<fieldVars, rec, multi, offered, where, form>>

(* An action that has succeeded loads the record again, and waits for it.  *)
ActionEnds(i) ==
  /\ posts[i].status = "done"
  /\ posts[i].do = "action"
  /\ posts' = RemoveAt(posts, i)
  /\ loads' = IF posts[i].mounted THEN Append(loads, LoadThat(TRUE)) ELSE loads
  /\ UNCHANGED <<fieldVars, rec, multi, offered, where, form>>

(* The page that comes up when a request has succeeded.                    *)
PageAfter(p) ==
  CASE p.do = "password" \/ (p.do = "save" /\ p.intent = "continue") -> "edit"
    [] p.do = "save" /\ p.intent = "add-another" -> "new"
    [] OTHER -> "list"

(* The hash is set, whatever page has been opened meanwhile.  Save and add *)
(* another empties the form that it was sent from.                         *)
HashEnds(i) ==
  LET p == posts[i]
  IN  /\ p.status = "done"
      /\ p.do \in {"delete", "password"} \/ (p.do = "save" /\ ~(p.intent = "continue" /\ p.from = "edit"))
      /\ IF PageAfter(p) = "new" /\ where = "new" /\ p.mounted
           THEN /\ form' = [form EXCEPT !.name = "", !.touched = {}]
                /\ SetValue({}, picker)
                /\ posts' = RemoveAt(posts, i)
                /\ UNCHANGED <<kind, where, loads>>
           ELSE Mount(PageAfter(p), RemoveAt(posts, i))
      /\ UNCHANGED <<rec, multi, offered>>

(* The request fails, or its answer is lost.                               *)
PostFails(i) ==
  LET p    == posts[i]
      lost == p.status = "done"
  IN  /\ posts' = RemoveAt(posts, i)
      /\ form' = IF ~p.mounted THEN form
                 ELSE [form EXCEPT !.busy = IF p.do = "save" THEN @ ELSE FALSE,
                                   !.screen = IF p.do = "delete" THEN "error" ELSE @,
                                   !.excused = @ \/ lost]
      /\ loads' = [k \in DOMAIN loads |->
                     [loads[k] EXCEPT !.excused = @ \/ (lost /\ loads[k].pc = "read")]]
      /\ UNCHANGED <<fieldVars, rec, multi, offered, where>>

(* Somebody else changes the record.                                       *)
Others ==
  /\ rec # Gone
  /\ \E r \in Records : r.rel = rec.rel /\ r.name \notin {"", rec.name} /\ rec' = r
  /\ Blame
  /\ UNCHANGED <<fieldVars, multi, offered, where, posts>>

-----------------------------------------------------------------------------

Step ==
  /\ \/ \E i \in DOMAIN loads :
          MetaArrives(i) \/ RecordReads(i) \/ RecordArrives(i) \/ LoadFails(i)
     \/ \E i \in DOMAIN posts :
          PostApplies(i) \/ ContinueEnds(i) \/ ActionEnds(i) \/ HashEnds(i) \/ PostFails(i)
     \/ FieldStep /\ UNCHANGED pageVars
  /\ UNCHANGED clicks

Click ==
  \/ \E place \in Places : Navigate(place)
  \/ \E name \in Names : TypeName(name)
  \/ UseField
  \/ \E intent \in Intents : Submit(intent)
  \/ RunAction \/ ConfirmDelete \/ ChangePassword
  \/ \E word \in {"blank", "differ", "same"} : TypePassword(word)
  \/ Others

Operator == Click /\ clicks < MaxClicks /\ clicks' = clicks + 1

Next == Step \/ Operator

(* Requests are answered some time, and timers fire.                       *)
Spec == Init /\ [][Next]_vars /\ WF_vars(Step)

-----------------------------------------------------------------------------

AtRest == loads = <<>> /\ ~\E i \in DOMAIN posts : posts[i].mounted

(* When nothing is under way, a form whose fields have not been touched    *)
(* since shows the record as the server has it, also after a save that the *)
(* server has understood otherwise than the form; unless a load failed or  *)
(* was overtaken, an answer was lost, or somebody else changed the record. *)
FormIsRecord ==
  AtRest /\ where \in {"edit", "view"} /\ ~form.excused /\ form.touched = {} =>
    form.loaded /\ form.name = rec.name /\ value = rec.rel

(* A save sends every field, but it changes none that the operator has not *)
(* touched, unless the form was sent before the record was in it, or       *)
(* the record has changed since it was.                                    *)
SaveKeepsUntouched ==
  \A i \in DOMAIN posts :
    LET p == posts[i]
    IN  p.do = "save" /\ p.from = "edit" /\ p.status = "sent" /\ p.form.loaded /\ rec = p.form.base =>
          \A f \in FieldNames \ p.form.touched : Saved(p)[f] = rec[f]

(* The buttons of a page do not stay disabled: what an action or a delete  *)
(* has made wait is released when it fails, when the load that an action   *)
(* ends with is over, however that ends, or is gone with its page.         *)
BusyEnds == form.busy ~> ~form.busy
=============================================================================
