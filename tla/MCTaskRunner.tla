---------------------------- MODULE MCTaskRunner ----------------------------
(* TaskRunner on small instances for TLC. *)
EXTENDS TaskRunner, TLC

Tasks2 == 1..2
=============================================================================
