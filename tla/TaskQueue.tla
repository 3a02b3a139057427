----------------------------- MODULE TaskQueue ------------------------------
(***************************************************************************)
(* The file-based task queue (task-queue/task-queue.ts): one JSON file per *)
(* task in pending/, processing/, completed/, failed/ or corrupt/ of a     *)
(* directory shared over EFS.  A transition writes the destination file    *)
(* and then unlinks the source, as two separate steps, so between them (or *)
(* for good, after a crash or a failed unlink) a task is in two            *)
(* directories.  This module has the files and each single file step; who  *)
(* takes which step when is TaskRunner.                                    *)
(*                                                                         *)
(* A file is abstracted to its retryCount.  Task identifiers are naturals  *)
(* ordered as the (createdAt, id) pairs dequeueTask sorts by; they are     *)
(* given out in any order, as the clocks of several Lambda hosts are.      *)
(***************************************************************************)
EXTENDS Naturals, FiniteSets

CONSTANTS
  Task,            \* task identifiers
  MaxRetries,      \* a task's maxRetries
  NoFile,          \* "no such file"
  Unreadable       \* a file parseTaskJson answers null for

ASSUME TaskAssumption == Task \subseteq Nat
ASSUME MaxRetriesAssumption == MaxRetries \in Nat
ASSUME FileAssumption ==
  NoFile \notin Nat /\ Unreadable \notin Nat /\ NoFile # Unreadable

VARIABLES
  pending,         \* pending/{id}.json: a retryCount, NoFile or Unreadable
  processing,      \* processing/{id}.json
  completed,       \* the tasks with a file in completed/
  failed,          \* the tasks with a file in failed/
  corrupt,         \* the tasks with a file in corrupt/
  backoff,         \* pending files whose retryAfter is in the future
  aged,            \* processing files older than the recovery threshold
  used,            \* history: identifiers given out (crypto.randomUUID)
  dismissed        \* history: tasks an admin, a sweep or damage gave up on

queueVars == <<pending, processing, completed, failed, corrupt, backoff, aged,
               used, dismissed>>

Content == Nat \union {NoFile, Unreadable}

QueueTypeOK ==
  /\ pending \in [Task -> Content]
  /\ processing \in [Task -> Content]
  /\ completed \subseteq Task
  /\ failed \subseteq Task
  /\ corrupt \subseteq Task
  /\ backoff \subseteq Task
  /\ aged \subseteq Task
  /\ used \subseteq Task
  /\ dismissed \subseteq Task

QueueInit ==
  /\ pending = [t \in Task |-> NoFile]
  /\ processing = [t \in Task |-> NoFile]
  /\ completed = {}
  /\ failed = {}
  /\ corrupt = {}
  /\ backoff = {}
  /\ aged = {}
  /\ used = {}
  /\ dismissed = {}

-----------------------------------------------------------------------------
(* Queries.                                                                *)

Readable(dir, t) == dir[t] \in Nat

(* taskExistsIn(taskDir, id, ['completed', 'failed']) *)
Finished(t) == t \in completed \/ t \in failed

(* The files dequeueTask's scan of pending/ keeps. *)
Ready(t) == Readable(pending, t) /\ t \notin backoff

(* The processing files recoverOrphanedTasks' scan acts on. *)
Orphaned(t) == processing[t] # NoFile /\ t \in aged

Present(t) == pending[t] # NoFile \/ processing[t] # NoFile \/ Finished(t)

(* The order of the directories in getTask is the task's status. *)
Status(t) ==
  CASE t \notin used   -> "absent"
    [] t \in used /\ t \in completed -> "completed"
    [] t \in used /\ t \notin completed /\ t \in failed -> "failed"
    [] t \in used /\ ~Finished(t) /\ Present(t) -> "open"
    [] OTHER -> "gone"

-----------------------------------------------------------------------------
(* File steps.  Each writes or unlinks one file.                           *)

WritePending(t, retries) ==
  pending' = [pending EXCEPT ![t] = retries]

WriteProcessing(t, retries) ==
  /\ processing' = [processing EXCEPT ![t] = retries]
  /\ aged' = aged \ {t}

UnlinkPending(t) ==
  /\ pending' = [pending EXCEPT ![t] = NoFile]
  /\ backoff' = backoff \ {t}

UnlinkProcessing(t) ==
  /\ processing' = [processing EXCEPT ![t] = NoFile]
  /\ aged' = aged \ {t}

(* enqueueTask, and the new task of requeueFailedTask *)
EnqueueTask(t) ==
  /\ t \notin used
  /\ used' = used \union {t}
  /\ WritePending(t, 0)
  /\ UNCHANGED <<processing, completed, failed, corrupt, backoff, aged, dismissed>>

(* moveToCorrupt out of pending/ and out of processing/: a rename into     *)
(* corrupt/, or when that fails an unlink.                                 *)
QuarantinePending(t) ==
  /\ pending[t] = Unreadable
  /\ UnlinkPending(t)
  /\ corrupt' \in {corrupt \union {t}, corrupt}
  /\ UNCHANGED <<processing, completed, failed, aged, used, dismissed>>

QuarantineProcessing(t) ==
  /\ processing[t] = Unreadable
  /\ UnlinkProcessing(t)
  /\ corrupt' \in {corrupt \union {t}, corrupt}
  /\ UNCHANGED <<pending, completed, failed, backoff, used, dismissed>>

(* The first half of completeTask, failTask, retryTask and releaseTask, on *)
(* a readable processing file.                                             *)
WriteCompleted(t) ==
  /\ Readable(processing, t)
  /\ completed' = completed \union {t}
  /\ UNCHANGED <<pending, processing, failed, corrupt, backoff, aged, used, dismissed>>

WriteFailed(t) ==
  /\ Readable(processing, t)
  /\ failed' = failed \union {t}
  /\ UNCHANGED <<pending, processing, completed, corrupt, backoff, aged, used, dismissed>>

(* A fault RetryBudget excludes: the attempt is not counted. *)
WriteRetryUncounted(t) ==
  /\ Readable(processing, t)
  /\ WritePending(t, processing[t])
  /\ backoff' = backoff \union {t}
  /\ UNCHANGED <<processing, completed, failed, corrupt, aged, used, dismissed>>

WriteRetry(t) ==
  /\ Readable(processing, t)
  /\ WritePending(t, processing[t] + 1)
  /\ backoff' = backoff \union {t}
  /\ UNCHANGED <<processing, completed, failed, corrupt, aged, used, dismissed>>

(* releaseTask, and recoverOrphanedTasks on a readable file: the copy goes *)
(* back as it is, over whatever pending/ holds.  Its retryAfter, if any,   *)
(* passed before the task was dequeued.                                    *)
WriteBack(t) ==
  /\ Readable(processing, t)
  /\ WritePending(t, processing[t])
  /\ backoff' = backoff \ {t}
  /\ UNCHANGED <<processing, completed, failed, corrupt, aged, used, dismissed>>

(* The second half of each of them. *)
ClearProcessing(t) ==
  /\ UnlinkProcessing(t)
  /\ UNCHANGED <<pending, completed, failed, corrupt, backoff, used, dismissed>>

ClearPending(t) ==
  /\ UnlinkPending(t)
  /\ UNCHANGED <<processing, completed, failed, corrupt, aged, used, dismissed>>

-----------------------------------------------------------------------------
(* Steps of others than the worker's task loop.                            *)

(* deleteTaskHandler (api/admin.ts) *)
DeletePending(t) ==
  /\ pending[t] # NoFile
  /\ UnlinkPending(t)
  /\ dismissed' = dismissed \union {t}
  /\ UNCHANGED <<processing, completed, failed, corrupt, aged, used>>

DeleteFailed(t) ==
  /\ t \in failed
  /\ failed' = failed \ {t}
  /\ dismissed' = dismissed \union {t}
  /\ UNCHANGED <<pending, processing, completed, corrupt, backoff, aged, used>>

DeleteCorrupt(t) ==
  /\ t \in corrupt
  /\ corrupt' = corrupt \ {t}
  /\ UNCHANGED <<pending, processing, completed, failed, backoff, aged, used, dismissed>>

(* cleanupOldTasks, in the sync loop, on one file.  Its age is 30 days: by *)
(* then any leftover copy of the task has been through the recovery and    *)
(* the dequeue that drop it, which a worker runs every few seconds.        *)
CleanupOldTasks(t) ==
  /\ pending[t] = NoFile /\ processing[t] = NoFile
  /\ \/ t \in completed /\ completed' = completed \ {t} /\ UNCHANGED <<failed, corrupt>>
     \/ t \in failed /\ failed' = failed \ {t} /\ UNCHANGED <<completed, corrupt>>
     \/ t \in corrupt /\ corrupt' = corrupt \ {t} /\ UNCHANGED <<completed, failed>>
  /\ dismissed' = dismissed \union {t}
  /\ UNCHANGED <<pending, processing, backoff, aged, used>>

(* Time: a retryAfter passes; a processing file reaches the threshold. *)
BackoffElapses(t) ==
  /\ t \in backoff
  /\ backoff' = backoff \ {t}
  /\ UNCHANGED <<pending, processing, completed, failed, corrupt, aged, used, dismissed>>

ProcessingAges(t) ==
  /\ processing[t] # NoFile /\ t \notin aged
  /\ aged' = aged \union {t}
  /\ UNCHANGED <<pending, processing, completed, failed, corrupt, backoff, used, dismissed>>

(* The file system damages a task file (external). *)
DamagePending(t) ==
  /\ Readable(pending, t)
  /\ pending' = [pending EXCEPT ![t] = Unreadable]
  /\ dismissed' = dismissed \union {t}
  /\ UNCHANGED <<processing, completed, failed, corrupt, backoff, aged, used>>

DamageProcessing(t) ==
  /\ Readable(processing, t)
  /\ processing' = [processing EXCEPT ![t] = Unreadable]
  /\ dismissed' = dismissed \union {t}
  /\ UNCHANGED <<pending, completed, failed, corrupt, backoff, aged, used>>
=============================================================================
