---------------------------- MODULE NewestFirst ----------------------------
(***************************************************************************)
(* The order every audit store keeps its entries in, and the part of a     *)
(* set of entries that survives retention: the first maxEntries of them.   *)
(***************************************************************************)
EXTENDS Naturals, FiniteSets

CONSTANTS MaxEntries,   \* auditLog.maxEntries, 500 by default
          Ids,          \* the ids randomUUID may return, ordered as strings are
          Times         \* the timestamps new Date() may return

ASSUME MaxEntriesAssumption == MaxEntries \in Nat
ASSUME IdsAssumption        == Ids \subseteq Nat
ASSUME TimesAssumption      == Times \subseteq Nat

(* An AdminAuditEntry, reduced to what the stores sort and delete by.      *)
Entry == [ts : Times, id : Ids]

(* ORDER BY timestamp DESC, id DESC puts a before b.                       *)
Newer(a, b) ==
  \/ a.ts > b.ts
  \/ a.ts = b.ts /\ a.id > b.id

(* The entries of S that come before e.                                    *)
Above(e, S) == {r \in S : Newer(r, e)}

(* The first MaxEntries of S: list({page: 1, pageSize: maxEntries}).       *)
Newest(S) == {e \in S : Cardinality(Above(e, S)) < MaxEntries}

(* A mutant: ORDER BY timestamp ASC, id ASC OFFSET maxEntries.             *)
OverflowAscending(S) ==
  {e \in S : Cardinality({r \in S : Newer(e, r)}) >= MaxEntries}

(* Everything after them: OFFSET maxEntries.                               *)
Overflow(S) == {e \in S : Cardinality(Above(e, S)) >= MaxEntries}
=============================================================================
