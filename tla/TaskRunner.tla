----------------------------- MODULE TaskRunner -----------------------------
(***************************************************************************)
(* The worker's task loop (worker/task-runner.ts, processTaskQueue) over   *)
(* the files of TaskQueue, with the admin requests and the producers that  *)
(* touch the same directories from other hosts.                            *)
(*                                                                         *)
(* One worker at a time: the worker lock serialises consumers.  It may     *)
(* crash between any two file steps; a file step may fail, and a write     *)
(* whose reply is lost may have been applied although it is reported as    *)
(* failed (rename over NFS).  Every such disruption, and every attempt a   *)
(* shutdown hands back, is counted in disruptions, bounded by              *)
(* MaxDisruptions.                                                         *)
(***************************************************************************)
EXTENDS TaskQueue

CONSTANTS
  Admin,             \* admin requests in flight (retryTaskHandler)
  NoTask,            \* no task in hand
  MaxTasksPerCycle,  \* claims per processTaskQueue call
  MaxDisruptions,    \* bound: crashes, failed file steps, releases
  MaxDamage          \* bound: files the storage damages

ASSUME RunnerAssumption ==
  /\ NoTask \notin Task
  /\ MaxTasksPerCycle \in Nat \ {0}
  /\ MaxDisruptions \in Nat
  /\ MaxDamage \in Nat

VARIABLES
  phase,             \* where the worker is in processTaskQueue
  held,              \* the task that phase is about
  retries,           \* task.retryCount in memory, of the task being run
  todo,              \* processing files the recovery pass still has to do
  scan,              \* dequeueTask's sorted list, with what it read of each
  processed,         \* tasks run in this cycle
  admin,             \* per request: idle, or the failed task read or requeued
  disruptions,       \* crashes, failed file steps and releases so far
  damages,           \* files damaged so far
  runs,              \* history: attempts started, per task
  recorded           \* tasks whose outcome reached branch.json

workerVars == <<phase, held, retries, todo, scan, processed>>
historyVars == <<runs, recorded>>
vars == <<queueVars, workerVars, admin, disruptions, damages, historyVars>>

Phases ==
  {"down", "idle", "recovering", "recoverUnlink", "claiming", "selecting",
   "claimUnlink", "executing", "attemptFailed", "attemptRefused",
   "completeUnlink", "failUnlink", "retryUnlink", "releaseUnlink", "recording"}

AdminRequests ==
  [step : {"idle"}, task : {NoTask}] \union [step : {"read", "wrote"}, task : Task]

WorkerTypeOK ==
  /\ phase \in Phases
  /\ held \in Task \union {NoTask}
  /\ retries \in Nat
  /\ todo \subseteq Task
  /\ scan \in [Task -> Nat \union {NoFile}]
  /\ processed \in Nat

OthersTypeOK ==
  /\ admin \in [Admin -> AdminRequests]
  /\ disruptions \in Nat
  /\ damages \in Nat
  /\ runs \in [Task -> Nat]
  /\ recorded \subseteq Task

TypeOK == QueueTypeOK /\ WorkerTypeOK /\ OthersTypeOK

NothingScanned == [t \in Task |-> NoFile]
Scanned == {t \in Task : scan[t] # NoFile}
Oldest(t) == t \in Scanned /\ \A u \in Scanned : t <= u

Init ==
  /\ QueueInit
  /\ phase = "down"
  /\ held = NoTask
  /\ retries = 0
  /\ todo = {}
  /\ scan = NothingScanned
  /\ processed = 0
  /\ admin = [a \in Admin |-> [step |-> "idle", task |-> NoTask]]
  /\ disruptions = 0
  /\ damages = 0
  /\ runs = [t \in Task |-> 0]
  /\ recorded = {}

-----------------------------------------------------------------------------
(* Control: the worker moves on, keeping the task in hand or letting go.   *)

Disrupted ==
  /\ disruptions < MaxDisruptions
  /\ disruptions' = disruptions + 1

Goto(p) ==
  /\ phase' = p
  /\ UNCHANGED <<held, retries, todo, scan, processed>>

(* The cycle ends: processTaskQueue returns or rejects, and the loop waits *)
(* for its next turn.                                                      *)
EndCycle(p) ==
  /\ phase' = p
  /\ held' = NoTask
  /\ retries' = 0
  /\ todo' = {}
  /\ scan' = NothingScanned
  /\ processed' = 0

(* The attempt is dealt with; the loop looks for the next task. *)
NextTask ==
  /\ phase' = "claiming"
  /\ held' = NoTask
  /\ retries' = 0
  /\ scan' = NothingScanned
  /\ processed' = processed + 1
  /\ UNCHANGED todo

Others == <<admin, disruptions, damages, historyVars>>
OthersButDisruptions == <<admin, damages, historyVars>>

-----------------------------------------------------------------------------
(* Recovery, at boot and at the start of every cycle.                      *)

StartRecovery ==
  /\ phase' = "recovering"
  /\ todo' = {t \in Task : Orphaned(t)}
  /\ UNCHANGED <<held, retries, scan, processed>>

(* start(): the boot recovery. *)
StartWorker ==
  /\ phase = "down"
  /\ StartRecovery
  /\ UNCHANGED <<queueVars, Others>>

(* A fault EveryTaskSettles excludes: recovery at boot only. *)
BeginCycleNoRecovery ==
  /\ phase = "idle"
  /\ Goto("claiming")
  /\ UNCHANGED <<queueVars, Others>>

(* processTaskQueue, called by the poll loop *)
BeginCycle ==
  /\ phase = "idle"
  /\ StartRecovery
  /\ UNCHANGED <<queueVars, Others>>

RecoverCorrupt(t) ==
  /\ phase = "recovering" /\ t \in todo
  /\ QuarantineProcessing(t)
  /\ todo' = todo \ {t}
  /\ UNCHANGED <<phase, held, retries, scan, processed, Others>>

RecoverFinished(t) ==
  /\ phase = "recovering" /\ t \in todo
  /\ Readable(processing, t) /\ Finished(t)
  /\ ClearProcessing(t)
  /\ todo' = todo \ {t}
  /\ UNCHANGED <<phase, held, retries, scan, processed, Others>>

RecoverWrite(t) ==
  /\ phase = "recovering" /\ t \in todo
  /\ ~Finished(t)
  /\ WriteBack(t)
  /\ phase' = "recoverUnlink"
  /\ held' = t
  /\ todo' = todo \ {t}
  /\ UNCHANGED <<retries, scan, processed, Others>>

RecoverUnlink ==
  /\ phase = "recoverUnlink"
  /\ ClearProcessing(held)
  /\ phase' = "recovering"
  /\ held' = NoTask
  /\ UNCHANGED <<retries, todo, scan, processed, Others>>

(* A failed step of one file is logged and the pass goes on. *)
RecoverError ==
  /\ \/ phase = "recoverUnlink" /\ UNCHANGED todo
     \/ phase = "recovering" /\ \E t \in todo : todo' = todo \ {t}
  /\ phase' = "recovering"
  /\ held' = NoTask
  /\ Disrupted
  /\ UNCHANGED <<retries, scan, processed, queueVars, OthersButDisruptions>>

RecoverDone ==
  /\ phase = "recovering" /\ todo = {}
  /\ Goto("claiming")
  /\ UNCHANGED <<queueVars, Others>>

-----------------------------------------------------------------------------
(* dequeueTask.                                                            *)

MayClaim == phase = "claiming" /\ processed < MaxTasksPerCycle

DequeueCorrupt(t) ==
  /\ MayClaim
  /\ QuarantinePending(t)
  /\ UNCHANGED <<workerVars, Others>>

DequeueScan ==
  /\ MayClaim
  /\ \A t \in Task : pending[t] # Unreadable
  /\ phase' = "selecting"
  /\ scan' = [t \in Task |-> IF Ready(t) THEN pending[t] ELSE NoFile]
  /\ UNCHANGED <<held, retries, todo, processed, queueVars, Others>>

(* Already finished: the pending copy is a leftover. *)
DequeueFinished(t) ==
  /\ phase = "selecting" /\ Oldest(t)
  /\ Finished(t)
  /\ ClearPending(t)
  /\ scan' = [scan EXCEPT ![t] = NoFile]
  /\ UNCHANGED <<phase, held, retries, todo, processed, Others>>

(* Faults of DequeueWrite: what TypeOK excludes (the file is read again,   *)
(* and may be gone) and RunsAreUnfinished (no dedup).                      *)
DequeueWriteRereads(t) ==
  /\ phase = "selecting" /\ Oldest(t)
  /\ ~Finished(t)
  /\ WriteProcessing(t, scan[t])
  /\ phase' = "claimUnlink"
  /\ held' = t
  /\ retries' = pending[t]
  /\ scan' = [scan EXCEPT ![t] = NoFile]
  /\ UNCHANGED <<todo, processed, Others>>
  /\ UNCHANGED <<pending, completed, failed, corrupt, backoff, used, dismissed>>

DequeueWriteNoDedup(t) ==
  /\ phase = "selecting" /\ Oldest(t)
  /\ WriteProcessing(t, scan[t])
  /\ phase' = "claimUnlink"
  /\ held' = t
  /\ retries' = scan[t]
  /\ scan' = [scan EXCEPT ![t] = NoFile]
  /\ UNCHANGED <<todo, processed, Others>>
  /\ UNCHANGED <<pending, completed, failed, corrupt, backoff, used, dismissed>>

(* The processing copy is written from what the scan read. *)
DequeueWrite(t) ==
  /\ phase = "selecting" /\ Oldest(t)
  /\ ~Finished(t)
  /\ WriteProcessing(t, scan[t])
  /\ phase' = "claimUnlink"
  /\ held' = t
  /\ retries' = scan[t]
  /\ scan' = [scan EXCEPT ![t] = NoFile]
  /\ UNCHANGED <<todo, processed, Others>>
  /\ UNCHANGED <<pending, completed, failed, corrupt, backoff, used, dismissed>>

DequeueUnlink ==
  /\ phase = "claimUnlink"
  /\ pending[held] # NoFile
  /\ ClearPending(held)
  /\ phase' = "executing"
  /\ runs' = [runs EXCEPT ![held] = @ + 1]
  /\ UNCHANGED <<held, retries, todo, scan, processed>>
  /\ UNCHANGED <<admin, disruptions, damages, recorded>>

(* An admin deleted the pending file since the scan: the unlink's ENOENT   *)
(* makes dequeueTask try the next file, leaving its own processing copy.   *)
DequeueMissed ==
  /\ phase = "claimUnlink"
  /\ pending[held] = NoFile
  /\ phase' = "selecting"
  /\ held' = NoTask
  /\ retries' = 0
  /\ UNCHANGED <<todo, scan, processed, queueVars, Others>>

(* Nothing is ready, or the cycle's share is done. *)
DequeueNone ==
  /\ \/ phase = "selecting" /\ Scanned = {}
     \/ phase = "claiming" /\ processed = MaxTasksPerCycle
  /\ EndCycle("idle")
  /\ UNCHANGED <<queueVars, Others>>

(* The write or the unlink of dequeueTask fails: the cycle rejects. *)
DequeueError ==
  /\ phase \in {"selecting", "claimUnlink"}
  /\ EndCycle("idle")
  /\ Disrupted
  /\ UNCHANGED <<queueVars, OthersButDisruptions>>

-----------------------------------------------------------------------------
(* The attempt and what becomes of the task.  Each of completeTask,        *)
(* failTask, retryTask and releaseTask reads the processing file again,    *)
(* and only unlinks it when it cannot be parsed.                           *)

(* executeTaskWithTimeout rejects, by the timeout or by an error, which    *)
(* isPermanentTaskFailure may call permanent.                              *)
AttemptFails ==
  /\ phase = "executing"
  /\ Goto("attemptFailed") \/ Goto("attemptRefused")
  /\ UNCHANGED <<queueVars, Others>>

(* A fault RecordedIsFinished excludes: the branch is told before the      *)
(* queue has the outcome.                                                  *)
CompleteTaskUnwritten ==
  /\ phase = "executing"
  /\ Goto("recording")
  /\ UNCHANGED <<queueVars, Others>>

CompleteTask ==
  /\ phase = "executing"
  /\ \/ WriteCompleted(held) /\ Goto("completeUnlink")
     \/ ~Readable(processing, held) /\ ClearProcessing(held) /\ Goto("recording")
  /\ UNCHANGED Others

(* completeTask's write throws inside the try: a failed attempt, whether   *)
(* or not the write was applied.                                           *)
CompleteError ==
  /\ phase = "executing"
  /\ WriteCompleted(held) \/ UNCHANGED queueVars
  /\ Goto("attemptFailed")
  /\ Disrupted
  /\ UNCHANGED OthersButDisruptions

MayRetry == phase = "attemptFailed" /\ retries < MaxRetries
GivesUp == phase \in {"attemptFailed", "attemptRefused"} /\ ~MayRetry

(* A fault ImplementsLedger excludes: unlink, then write. *)
RetryTaskUnlinksFirst ==
  /\ MayRetry
  /\ ClearProcessing(held)
  /\ Goto("retryUnlink")
  /\ UNCHANGED Others

(* A transient failure, or a submit that waits for the next sync. *)
RetryTask ==
  /\ MayRetry
  /\ \/ WriteRetry(held) /\ Goto("retryUnlink")
     \/ ~Readable(processing, held) /\ ClearProcessing(held) /\ NextTask
  /\ UNCHANGED Others

(* A permanent failure, or no retry left. *)
FailTask ==
  /\ GivesUp
  /\ \/ WriteFailed(held) /\ Goto("failUnlink")
     \/ ~Readable(processing, held) /\ ClearProcessing(held) /\ Goto("recording")
  /\ UNCHANGED Others

(* A stop cut the attempt off, or the gateway is going away. *)
ReleaseTask ==
  /\ phase = "executing"
  /\ \/ WriteBack(held) /\ Goto("releaseUnlink")
     \/ ~Readable(processing, held) /\ ClearProcessing(held) /\ EndCycle("idle")
  /\ Disrupted
  /\ UNCHANGED OthersButDisruptions

(* A write of the error path throws: the cycle rejects, and the processing *)
(* file stays, whether or not the write was applied.                       *)
ErrorPathError ==
  /\ phase \in {"attemptFailed", "attemptRefused"}
  /\ \/ UNCHANGED queueVars
     \/ GivesUp /\ WriteFailed(held)
     \/ MayRetry /\ WriteRetry(held)
  /\ EndCycle("idle")
  /\ Disrupted
  /\ UNCHANGED OthersButDisruptions

(* The unlink that ends each of them; a failed one is swallowed. *)
AfterUnlink ==
  \/ phase \in {"completeUnlink", "failUnlink"} /\ Goto("recording")
  \/ phase = "retryUnlink" /\ NextTask
  \/ phase = "releaseUnlink" /\ EndCycle("idle")

UnlinkDone ==
  /\ AfterUnlink
  /\ ClearProcessing(held)
  /\ UNCHANGED Others

UnlinkSwallowed ==
  /\ AfterUnlink
  /\ Disrupted
  /\ UNCHANGED <<queueVars, OthersButDisruptions>>

(* updateBranchMetadata or updateBranchMetadataOnFailure *)
RecordOutcome ==
  /\ phase = "recording"
  /\ recorded' = recorded \union {held}
  /\ NextTask
  /\ UNCHANGED <<queueVars, admin, disruptions, damages, runs>>

(* Either logs a branch.json it cannot write, and the loop goes on. *)
RecordError ==
  /\ phase = "recording"
  /\ NextTask
  /\ Disrupted
  /\ UNCHANGED <<queueVars, OthersButDisruptions>>

-----------------------------------------------------------------------------
(* The worker ends: a crash anywhere, a stop between two tasks.            *)

Crash ==
  /\ phase # "down"
  /\ EndCycle("down")
  /\ Disrupted
  /\ UNCHANGED <<queueVars, OthersButDisruptions>>

-----------------------------------------------------------------------------
(* The other hosts.                                                        *)

Enqueue(t) ==
  /\ EnqueueTask(t)
  /\ UNCHANGED <<workerVars, Others>>

(* requeueFailedTask: read failed/, write the new pending, unlink failed/. *)
RequeueRead(a, t) ==
  /\ admin[a].step = "idle"
  /\ t \in failed
  /\ admin' = [admin EXCEPT ![a] = [step |-> "read", task |-> t]]
  /\ UNCHANGED <<queueVars, workerVars, disruptions, damages, historyVars>>

RequeueWrite(a, new) ==
  /\ admin[a].step = "read"
  /\ EnqueueTask(new)
  /\ admin' = [admin EXCEPT ![a] = [step |-> "wrote", task |-> admin[a].task]]
  /\ UNCHANGED <<workerVars, disruptions, damages, historyVars>>

RequeueUnlink(a) ==
  LET t == admin[a].task IN
  /\ admin[a].step = "wrote"
  /\ failed' = failed \ {t}
  /\ dismissed' = dismissed \union {t}
  /\ admin' = [admin EXCEPT ![a] = [step |-> "idle", task |-> NoTask]]
  /\ UNCHANGED <<pending, processing, completed, corrupt, backoff, aged, used>>
  /\ UNCHANGED <<workerVars, disruptions, damages, historyVars>>

(* The Lambda dies, or the unlink fails and is swallowed. *)
RequeueAbandoned(a) ==
  /\ admin[a].step # "idle"
  /\ admin' = [admin EXCEPT ![a] = [step |-> "idle", task |-> NoTask]]
  /\ UNCHANGED <<queueVars, workerVars, disruptions, damages, historyVars>>

AdminDelete(t) ==
  /\ DeletePending(t) \/ DeleteFailed(t) \/ DeleteCorrupt(t)
  /\ UNCHANGED <<workerVars, Others>>

(* The sync loop's sweep, in the worker process. *)
Cleanup(t) ==
  /\ phase # "down"
  /\ CleanupOldTasks(t)
  /\ UNCHANGED <<workerVars, Others>>

(* taskTimeoutMs ends every attempt in half the recovery age, so no file   *)
(* ages while the worker is running the task.                              *)
Ageing(t) ==
  /\ held # t
  /\ ProcessingAges(t)
  /\ UNCHANGED <<workerVars, Others>>

BackoffOver(t) ==
  /\ BackoffElapses(t)
  /\ UNCHANGED <<workerVars, Others>>

Damage(t) ==
  /\ damages < MaxDamage
  /\ damages' = damages + 1
  /\ DamagePending(t) \/ DamageProcessing(t)
  /\ UNCHANGED <<workerVars, admin, disruptions, historyVars>>

-----------------------------------------------------------------------------
Recovery ==
  \/ StartWorker \/ BeginCycle
  \/ \E t \in Task : RecoverCorrupt(t) \/ RecoverFinished(t) \/ RecoverWrite(t)
  \/ RecoverUnlink \/ RecoverDone

Dequeue ==
  \/ \E t \in Task : DequeueCorrupt(t) \/ DequeueFinished(t) \/ DequeueWrite(t)
  \/ DequeueScan \/ DequeueUnlink \/ DequeueMissed \/ DequeueNone

Attempt ==
  \/ AttemptFails \/ CompleteTask \/ RetryTask \/ FailTask
  \/ UnlinkDone \/ RecordOutcome

Disruption ==
  \/ RecoverError \/ DequeueError \/ CompleteError \/ ReleaseTask
  \/ ErrorPathError \/ UnlinkSwallowed \/ RecordError \/ Crash

Worker == Recovery \/ Dequeue \/ Attempt

AdminRequest ==
  \/ \E a \in Admin, t \in Task : RequeueRead(a, t) \/ RequeueWrite(a, t)
  \/ \E a \in Admin : RequeueUnlink(a) \/ RequeueAbandoned(a)
  \/ \E t \in Task : AdminDelete(t)

Environment ==
  \E t \in Task : Enqueue(t) \/ Cleanup(t) \/ Ageing(t) \/ BackoffOver(t) \/ Damage(t)

Next == Worker \/ Disruption \/ AdminRequest \/ Environment

Spec == Init /\ [][Next]_vars

(* The loop re-schedules itself and systemd restarts the worker, so the    *)
(* worker keeps stepping; files age and backoffs pass.  Nothing makes a    *)
(* producer, an admin, the sweep or a disruption happen.                   *)
Fairness ==
  /\ WF_vars(Worker)
  /\ \A t \in Task : WF_vars(Ageing(t)) /\ WF_vars(BackoffOver(t))

FairSpec == Spec /\ Fairness

-----------------------------------------------------------------------------
(* The inductive invariant behind the safety properties.                   *)

HasTask ==
  {"recoverUnlink", "claimUnlink", "executing", "attemptFailed", "attemptRefused",
   "completeUnlink", "failUnlink", "retryUnlink", "releaseUnlink", "recording"}

(* The phases in which the worker owns the processing file of its task. *)
OwnsFile == HasTask \ {"recording"}

(* The phases after an attempt was started and before it is settled. *)
Running == OwnsFile \ {"recoverUnlink", "claimUnlink"}

(* The worker has a task exactly in the phases about one. *)
ControlInv == held = NoTask <=> phase \notin HasTask

(* That task's processing file is there until the worker unlinks it, and   *)
(* the recovery pass only acts on files that are there.                    *)
HandInv ==
  /\ phase \in OwnsFile => processing[held] # NoFile
  /\ phase \in {"claimUnlink", "executing"} => ~Finished(held)
  /\ phase \notin {"recovering", "recoverUnlink"} => todo = {}
  /\ \A t \in todo : processing[t] # NoFile /\ held # t
  /\ phase = "recoverUnlink" => ~Finished(held)

(* Every trace of a task is of one that was queued. *)
UsedInv ==
  \A t \in Task :
    (\/ Present(t) \/ t \in corrupt \/ scan[t] # NoFile \/ held = t
     \/ runs[t] > 0 \/ \E a \in Admin : admin[a].task = t)
    => t \in used

(* A copy that cannot be read is of a task given up on. *)
DamagedInv ==
  \A t \in Task :
    pending[t] = Unreadable \/ processing[t] = Unreadable => t \in dismissed

(* Whatever the worker is about to unlink has its successor on disk. *)
SuccessorInv ==
  /\ phase = "completeUnlink" => held \in completed
  /\ phase \in {"failUnlink", "recording"} => Finished(held) \/ held \in dismissed
  /\ phase \in {"retryUnlink", "releaseUnlink", "recoverUnlink"} =>
       pending[held] # NoFile \/ Finished(held) \/ held \in dismissed

(* Each copy carries enough retries to account for the attempts so far. *)
Extra(t) == IF held = t /\ phase \in Running THEN 1 ELSE 0

BudgetInv ==
  /\ \A t \in Task :
       /\ Readable(pending, t) =>
            pending[t] <= MaxRetries /\ runs[t] <= pending[t] + disruptions
       /\ Readable(processing, t) =>
            /\ processing[t] <= MaxRetries
            /\ runs[t] <= processing[t] + disruptions + Extra(t)
       /\ scan[t] # NoFile =>
            scan[t] <= MaxRetries /\ runs[t] <= scan[t] + disruptions
  /\ phase \in {"claimUnlink", "executing", "attemptFailed", "attemptRefused"} =>
       processing[held] \in {retries, Unreadable}
  /\ phase = "claimUnlink" =>
       /\ retries <= MaxRetries
       /\ runs[held] <= retries + disruptions
       /\ scan[held] = NoFile

-----------------------------------------------------------------------------
(* Properties.                                                             *)

(* No crash, failed step or race makes a queued task vanish: until an      *)
(* admin, the sweep or damage gives it up, it has a file somewhere.  This  *)
(* is what write-then-unlink is for, in every transition.                  *)
NoTaskLost == \A t \in used : Present(t) \/ t \in dismissed

(* A finished task is not run again while its record is there: the dedup   *)
(* of dequeueTask and recoverOrphanedTasks catches every leftover copy.    *)
RunsAreUnfinished == phase = "executing" => ~Finished(held)

(* The retry budget survives crashes: a task is attempted at most          *)
(* 1 + maxRetries times, plus once for each crash, failed file step or     *)
(* shutdown, although a crash inside retryTask lets recovery put the copy  *)
(* with the smaller retryCount back over the newer one.                    *)
RetryBudget == \A t \in Task : runs[t] <= MaxRetries + 1 + disruptions

(* branch.json reports an outcome only once the queue has it on disk, so a *)
(* crash between the two never shows an outcome the queue will redo.       *)
RecordedIsFinished == \A t \in recorded : Finished(t) \/ t \in dismissed

SafetyInv ==
  /\ HandInv
  /\ UsedInv
  /\ DamagedInv
  /\ SuccessorInv
  /\ BudgetInv
  /\ NoTaskLost
  /\ RecordedIsFinished
  /\ RetryBudget

(* The files, read in the order getTask reads them, behave as the ledger:  *)
(* every two-step transition is one step or none of the task's status.     *)
Ledger == INSTANCE TaskLedger WITH status <- [t \in Task |-> Status(t)]
ImplementsLedger == Ledger!Spec

(* Every queued task settles: recovery on every cycle finds the copy a     *)
(* crash left, however young it was at the restart.                        *)
Settled(t) == Finished(t) \/ t \in dismissed
EveryTaskSettles == \A t \in Task : t \in used ~> Settled(t)

(* useBranchesData's comment: the worker moves a branch waiting on a task  *)
(* from pending-sync to synced or sync-failed.                             *)
OutcomeReachesBranch ==
  \A t \in Task : Finished(t) ~> (t \in recorded \/ t \in dismissed)
=============================================================================
