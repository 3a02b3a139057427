---------------------------- MODULE MCContentSync ----------------------------
(* ContentSync on small instances for TLC: the cfgs give the sets as model   *)
(* values.                                                                   *)
EXTENDS ContentSync, TLC
=============================================================================
