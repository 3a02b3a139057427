---------------------------- MODULE MCWorkerLease ----------------------------
(* WorkerLease with model values for the starts of the worker. *)
EXTENDS WorkerLease

CONSTANTS w1, w2
=============================================================================
