----------------------------- MODULE TaskLedger -----------------------------
(***************************************************************************)
(* What the task queue promises whoever queues a task, without its five    *)
(* directories and its copies.  A task is open until an attempt finishes   *)
(* it, as completed or as failed.  A completed task stays completed until  *)
(* it is swept.  Nothing else than an explicit dismissal - an admin's      *)
(* delete or retry, the retention sweep, a damaged file - can make a task  *)
(* vanish, or put a failed one back in the queue.                          *)
(***************************************************************************)
CONSTANT Task            \* the identifiers the queue can give out

VARIABLES
  status,                \* what getTask answers for each task
  dismissed              \* tasks an admin, a sweep or damage gave up on

vars == <<status, dismissed>>

Init ==
  /\ status = [t \in Task |-> "absent"]
  /\ dismissed = {}

Open(t) ==
  /\ status[t] = "absent"
  /\ status' = [status EXCEPT ![t] = "open"]
  /\ UNCHANGED dismissed

Finish(t, outcome) ==
  /\ status[t] = "open"
  /\ status' = [status EXCEPT ![t] = outcome]
  /\ UNCHANGED dismissed

(* A dismissal takes a task's record away.  A failed task of which a crash *)
(* left a processing copy is open again once its record is gone; and under *)
(* a completed record whose write was reported as failed there may be a    *)
(* failed one.                                                             *)
Dismiss(t) ==
  /\ status[t] # "absent"
  /\ dismissed' = dismissed \union {t}
  /\ \/ UNCHANGED status
     \/ status' = [status EXCEPT ![t] = "gone"]
     \/ status[t] = "failed" /\ status' = [status EXCEPT ![t] = "open"]
     \/ status[t] = "completed" /\ status' = [status EXCEPT ![t] = "failed"]

(* The last copy of a task dismissed earlier disappears. *)
Drop(t) ==
  /\ status[t] = "open"
  /\ t \in dismissed
  /\ status' = [status EXCEPT ![t] = "gone"]
  /\ UNCHANGED dismissed

(* A task deleted from pending/ after the worker read it is claimed all    *)
(* the same.                                                               *)
Resurrect(t) ==
  /\ status[t] = "gone"
  /\ t \in dismissed
  /\ status' = [status EXCEPT ![t] = "open"]
  /\ UNCHANGED dismissed

Next ==
  \E t \in Task :
    \/ Open(t)
    \/ \E outcome \in {"completed", "failed"} : Finish(t, outcome)
    \/ Dismiss(t)
    \/ Drop(t)
    \/ Resurrect(t)

Spec == Init /\ [][Next]_vars
=============================================================================
