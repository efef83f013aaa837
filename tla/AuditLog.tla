------------------------------ MODULE AuditLog ------------------------------
(***************************************************************************)
(* What the audit log promises over a database store (append and list of   *)
(* the interface AdminAuditStore).  All a reader can observe is the        *)
(* window, the newest MaxEntries of the entries that were ever stored.     *)
(* A step stores one entry.  Nothing else changes what a reader sees: not  *)
(* the pruning of old rows, not an append that dies half way, not the      *)
(* order in which concurrent appends reach the store.                      *)
(***************************************************************************)
EXTENDS NewestFirst

VARIABLE window        \* the entries a reader of the log is shown

Init == window = {}

(* Entry e is stored: it enters the window unless MaxEntries newer entries *)
(* are there already, and it may push the oldest one out.                  *)
Store(e) == window' = Newest(window \cup {e})

Next == \E e \in Entry : Store(e)

Spec == Init /\ [][Next]_window
=============================================================================
