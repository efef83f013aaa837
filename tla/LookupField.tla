---------------------------- MODULE LookupField ----------------------------
(***************************************************************************)
(* The controls that show and pick related records, each with lookups of   *)
(* its own: RelationFieldInput (one value, or several) and                 *)
(* ReadonlyRelationField of EditPage.tsx, RelationFilterControl of         *)
(* ListPage.tsx.  A search starts 180 ms after the last key; labels of     *)
(* selected values are looked up by id.  Answers come in any order.        *)
(***************************************************************************)
EXTENDS Naturals, Sequences, FiniteSets, SequencesExt

CONSTANTS
  Values,      \* ids that name a related record
  Existing,    \* those of a record that exists: the others dangle
  Texts,       \* what is typed to search; "" finds all
  MaxLookups   \* bound of the lookups in flight

ASSUME LookupAssumption == "" \in Texts /\ MaxLookups \in Nat \ {0} /\ Existing \subseteq Values

None == "none"
Failed == "failed"   \* no options, after a search that failed

ASSUME TextsAssumption == Texts \cap {None, Failed} = {}

VARIABLES
  kind,     \* the control: which of the four
  value,    \* the selected values
  picker,   \* the state of the control
  lookups   \* its lookups in flight, in the order they started

fieldVars == <<kind, value, picker, lookups>>

Kinds == {"field", "multiselect", "filter", "readonly"}
Editable == kind # "readonly"
Picker ==
  [ open    : BOOLEAN,
    query   : Texts,
    waiting : BOOLEAN,                      \* the timer runs
    options : Texts \cup {None, Failed},    \* the search that the options answer
    cache   : SUBSET Values,                \* values whose labels are known
    excused : BOOLEAN,                      \* history: the options may be of another search
    blank   : BOOLEAN ]                     \* history: a lookup of labels has failed

(* A lookup of what is typed, or of the labels of ids.                     *)
SearchFor(text) == [text |-> text, ids |-> {}, late |-> FALSE]
LabelsOf(ids)   == [text |-> None, ids |-> ids, late |-> FALSE]
IsSearch(l)     == l.text # None

FieldTypeOK ==
  /\ kind \in Kinds
  /\ value \in SUBSET Values
  /\ picker \in Picker
  /\ lookups \in Seq([text : Texts \cup {None}, ids : SUBSET Values, late : BOOLEAN])

Closed(p) == [p EXCEPT !.open = FALSE, !.query = "", !.waiting = FALSE]

NewPicker ==
  [ open |-> FALSE, query |-> "", waiting |-> FALSE, options |-> None, cache |-> {},
    excused |-> FALSE, blank |-> FALSE ]

(* Values whose labels the control can show: a text finds one, if any.     *)
Found(options) == IF options \in {None, Failed} THEN {} ELSE
                  IF options = "" THEN Existing
                  ELSE {v \in Existing : v = CHOOSE w \in Existing : TRUE}

Labelled(p) == p.cache \cup (IF kind = "filter" THEN Found(p.options) ELSE {})

(* A read-only field cancels the lookup of the value before.               *)
Cancel(ls) == IF kind = "readonly" THEN <<>> ELSE ls

(* A mutant: labels are looked up for the first selected value only.       *)
LabelsOfFirst(p, v) ==
  IF p.cache # {} \/ v = {} THEN <<>> ELSE <<LabelsOf(v)>>

(* The lookup that an effect starts when the selected values, or the       *)
(* options, are new: of all selected values for a read-only field, which   *)
(* keeps no cache, else of those without a label.                          *)
Hydrating(p, v) ==
  LET missing == IF kind = "readonly" THEN v ELSE v \ Labelled(p)
  IN  IF missing = {} THEN <<>> ELSE <<LabelsOf(missing)>>

(* The values change, by hand or because the record has been loaded.       *)
SetValue(v, p) ==
  /\ value' = v
  /\ IF v = value THEN picker' = p /\ UNCHANGED lookups
     ELSE /\ picker' = IF kind = "readonly" THEN [p EXCEPT !.cache = {}] ELSE p
          /\ lookups' = Cancel(lookups) \o Hydrating(p, v)

-----------------------------------------------------------------------------
(* What the operator does.                                                 *)

(* Opening a filter searches at once; opening a field starts the timer.    *)
Search(text, p) ==
  IF kind = "filter" /\ text = ""
    THEN /\ picker' = [p EXCEPT !.query = text, !.waiting = FALSE]
         /\ lookups' = Append(lookups, SearchFor(""))
    ELSE /\ picker' = [p EXCEPT !.query = text, !.waiting = TRUE]
         /\ UNCHANGED lookups

OpenPicker ==
  /\ Editable
  /\ ~picker.open
  /\ Len(lookups) < MaxLookups
  /\ Search("", [picker EXCEPT !.open = TRUE])
  /\ UNCHANGED <<kind, value>>

ClosePicker ==
  /\ picker.open
  /\ picker' = Closed(picker)
  /\ UNCHANGED <<kind, value, lookups>>

TypeQuery(text) ==
  /\ picker.open
  /\ text # picker.query
  /\ Len(lookups) < MaxLookups
  /\ Search(text, picker)
  /\ UNCHANGED <<kind, value>>

(* An option of a multiselect is switched and the list stays; else it is   *)
(* taken for the value and the list closes.  A filter keeps its label.     *)
Choose(v) ==
  /\ picker.open
  /\ v \in Found(picker.options)
  /\ IF kind = "multiselect"
       THEN SetValue(IF v \in value THEN value \ {v} ELSE value \cup {v}, picker)
       ELSE SetValue({v}, IF kind = "filter" THEN [Closed(picker) EXCEPT !.cache = @ \cup {v}]
                          ELSE Closed(picker))
  /\ UNCHANGED kind

(* The option of no value; for a multiselect, the pill of a value.         *)
ClearValue ==
  /\ IF kind = "multiselect" THEN \E v \in value : SetValue(value \ {v}, picker)
     ELSE picker.open /\ SetValue({}, Closed(picker))
  /\ UNCHANGED kind

-----------------------------------------------------------------------------
(* What happens by itself.                                                 *)

(* A mutant: the timer that runs is not stopped by another key.            *)
TimerFiresAnyText ==
  /\ picker.waiting
  /\ Len(lookups) < MaxLookups
  /\ \E text \in Texts : lookups' = Append(lookups, SearchFor(text))
  /\ picker' = [picker EXCEPT !.waiting = FALSE]
  /\ UNCHANGED <<kind, value>>

TimerFires ==
  /\ picker.waiting
  /\ Len(lookups) < MaxLookups
  /\ lookups' = Append(lookups, SearchFor(picker.query))
  /\ picker' = [picker EXCEPT !.waiting = FALSE]
  /\ UNCHANGED <<kind, value>>

(* Lookup i is over; searches that started before it are late.             *)
Without(i) ==
  RemoveAt([k \in DOMAIN lookups |->
    IF k < i /\ IsSearch(lookups[i]) THEN [lookups[k] EXCEPT !.late = TRUE] ELSE lookups[k]], i)

SearchAnswers(i) ==
  LET text == lookups[i].text
      p    == [picker EXCEPT !.options = text, !.excused = lookups[i].late,
                 !.cache = IF kind = "filter" THEN @ \cup Found(text) ELSE @]
  IN  /\ IsSearch(lookups[i])
      /\ picker' = p
      /\ lookups' = Without(i) \o (IF kind = "filter" THEN <<>> ELSE Hydrating(p, value))
      /\ UNCHANGED <<kind, value>>

(* A filter drops its options when a search fails; a field keeps them.     *)
SearchFails(i) ==
  /\ IsSearch(lookups[i])
  /\ picker' = [picker EXCEPT !.excused = TRUE,
                              !.options = IF kind = "filter" THEN Failed ELSE @]
  /\ lookups' = Without(i)
  /\ UNCHANGED <<kind, value>>

(* The server leaves out what it does not find: a value that dangles keeps *)
(* its id for a label, and is asked for again by the next lookup.          *)
LabelsAnswer(i) ==
  LET items == lookups[i].ids \cap Existing
      known == IF kind = "readonly" THEN items ELSE picker.cache \cup items
  IN  /\ ~IsSearch(lookups[i])
      /\ picker' = [picker EXCEPT !.cache = known,
                                  !.blank = @ /\ ~(value \cap Existing \subseteq known)]
      /\ lookups' = Without(i)
      /\ UNCHANGED <<kind, value>>

LabelsFail(i) ==
  /\ ~IsSearch(lookups[i])
  /\ picker' = [picker EXCEPT !.blank = TRUE]
  /\ lookups' = Without(i)
  /\ UNCHANGED <<kind, value>>

FieldClick ==
  \/ OpenPicker \/ ClosePicker \/ ClearValue
  \/ \E text \in Texts : TypeQuery(text)
  \/ \E v \in Values : Choose(v)

FieldStep ==
  \/ TimerFires
  \/ \E i \in DOMAIN lookups :
       SearchAnswers(i) \/ SearchFails(i) \/ LabelsAnswer(i) \/ LabelsFail(i)

-----------------------------------------------------------------------------

(* When no lookup is under way, the options of an open control are those   *)
(* of the text that is typed; unless an earlier search answered after it,  *)
(* or it failed.                                                           *)
OptionsAreOfTheQuery ==
  picker.open /\ ~picker.waiting /\ lookups = <<>> /\ ~picker.excused =>
    picker.options = picker.query

(* When no lookup is under way, a control has the label of every value it  *)
(* shows whose record exists, whoever set the value, however fast the      *)
(* values followed one another, and whichever of them dangle; and a        *)
(* read-only field has labels of no other value.                           *)
LabelsAreOfTheValue ==
  lookups = <<>> /\ ~picker.blank =>
    /\ value \cap Existing \subseteq Labelled(picker)
    /\ kind = "readonly" => picker.cache \subseteq value
=============================================================================
