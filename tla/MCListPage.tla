----------------------------- MODULE MCListPage -----------------------------
(* ListPage for TLC: three records, one of them archived, one to a page.   *)
EXTENDS ListPage
=============================================================================
