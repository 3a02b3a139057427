-------------------------- MODULE MCBranchRegistry --------------------------
(* BranchRegistry on two instances: one that several requests of a process *)
(* share, and one of another process (or of a save).                       *)
EXTENDS BranchRegistry

CONSTANTS a1, a2, b1, instanceA, instanceB

TwoProcesses == [c \in Caller |-> IF c = b1 THEN instanceB ELSE instanceA]
=============================================================================
