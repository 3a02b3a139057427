---------------------------- MODULE BranchRecord ----------------------------
(***************************************************************************)
(* What the directory of one branch promises whoever creates, saves or     *)
(* deletes the branch, without its locks, temporary names and versions:    *)
(* one record, changed by single steps.  It is absent or holds the updates *)
(* of one life of the branch.  The promise ends with the mutual exclusion  *)
(* it rests on: once that is gone, anything may become of the record.      *)
(***************************************************************************)
CONSTANTS Update, Absent

VARIABLES
  record,        \* Absent, or the updates the branch has taken
  intact      \* every holder of the branch's lock has had it alone

vars == <<record, intact>>

Init ==
  /\ record \in {Absent, {}}
  /\ intact = TRUE

Create ==
  /\ record = Absent
  /\ record' = {}
  /\ UNCHANGED intact

Save(u) ==
  /\ record # Absent
  /\ record' = record \union {u}
  /\ UNCHANGED intact

Delete ==
  /\ record # Absent
  /\ record' = Absent
  /\ UNCHANGED intact

(* Exclusion fails for good. *)
GiveUp ==
  /\ intact' = FALSE

Next ==
  \/ Create
  \/ \E u \in Update : Save(u)
  \/ Delete
  \/ GiveUp

Spec == Init /\ [][Next]_vars
=============================================================================
