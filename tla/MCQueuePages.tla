---------------------------- MODULE MCQueuePages ----------------------------
(* QueuePages for TLC: two tabs, two pages, one filter.                    *)
EXTENDS QueuePages
=============================================================================
