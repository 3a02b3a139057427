---------------------------- MODULE MCHistorySync ----------------------------
(* HistorySync with one edit, one direct push and one commit of the base.    *)
EXTENDS HistorySync
=============================================================================
