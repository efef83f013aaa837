---------------------------- MODULE MCRecordPages ----------------------------
(* RecordPages for TLC: a record with a text and a relation to two others, *)
(* and to one that dangles.                                                *)
EXTENDS RecordPages

MCFirst == [name : {"a"}, rel : {{"v3"}, {"v1", "v3"}}]
=============================================================================
