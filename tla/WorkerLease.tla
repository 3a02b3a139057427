----------------------------- MODULE WorkerLease -----------------------------
(* The worker's lease on the task directory and its life around it (worker/   *)
(* cms-worker.ts: startUnderLock, stop, acquireLock, recordLockLoss and       *)
(* recordWorkerStartupFailure; the entrypoint canopycms-cdk/worker/run.ts;    *)
(* task-queue/worker-status.ts).                                              *)
(*                                                                            *)
(* A Worker is one start of the process: a restart is another one.  Its main  *)
(* thread, its work, its drain and its heartbeat go on side by side.  What    *)
(* the work is, TaskRunner and HistorySync say: here it is under way or not,  *)
(* the startup included.  The lock is proper-lockfile's: a marker that is     *)
(* made in one step, and removed by its path; that it compares the marker it  *)
(* judged with the one it removes is not so, and is part of Rob.              *)
EXTENDS Naturals, FiniteSets

CONSTANTS
  Worker,        \* starts of the process, on any hosts
  NoOne,
  MaxMishaps     \* deaths, failed starts, missed refreshes, stolen markers, lost
                 \* writes

ASSUME SentinelAssumption == NoOne \notin Worker
ASSUME BoundAssumption == MaxMishaps \in Nat

VARIABLES
  lock,          \* whose marker is on disk
  held,          \* workers whose heartbeat is running (releaseLockFn)
  step,          \* the process: its start and its stop
  op,            \* what is in flight: the startup or a loop's iteration
  cut,           \* workers that have aborted what is in flight
  selfStopped,   \* workers whose stop is for a lost lock (lockLostMessage)
  status,        \* worker-status.json
  report,        \* what each worker writes there
  was,           \* who had written it when the worker took the lock
  \* for the bounds and the properties
  mishaps,
  robbed,        \* workers that lost the lease while they had it
  stopped,       \* workers whose stop is on record
  latest,        \* the last worker to begin writing, failed starts aside
  before,        \* the latest when a worker began; itself, before that
  orderly        \* every write was its lease's: none came from a worker that had
                 \* lost its own, but for the record of that loss

leaseVars == <<lock, held, robbed>>
lifeVars == <<step, op, cut, selfStopped>>
statusVars == <<status, report, was, stopped, latest, before, orderly>>
vars == <<leaseVars, lifeVars, statusVars, mishaps>>

Someone == Worker \union {NoOne}
Stop == [of : Someone, how : {"none", "stopped", "killed"}]
Report == [by : Someone, stop : Stop, failed : BOOLEAN]
Nothing == [of |-> NoOne, how |-> "none"]
Blank(w) == [by |-> w, stop |-> Nothing, failed |-> FALSE]

Steps == {"off", "noting", "live", "draining", "stopped", "retaking", "checking",
          "recording", "releasing", "exiting", "over"}
Ops == {"none", "lock", "read", "carry", "start", "fail", "leave", "work"}

Init ==
  /\ lock = NoOne /\ held = {}
  /\ step = [w \in Worker |-> "off"] /\ op = [w \in Worker |-> "none"]
  /\ cut = {} /\ selfStopped = {}
  /\ status = Blank(NoOne) /\ report = [w \in Worker |-> Blank(w)]
  /\ was = [w \in Worker |-> NoOne]
  /\ mishaps = 0 /\ robbed = {}
  /\ stopped = {} /\ latest = NoOne /\ before = [w \in Worker |-> w]
  /\ orderly = TRUE

Mishap == mishaps < MaxMishaps /\ mishaps' = mishaps + 1
StepTo(w, s) == step' = [step EXCEPT ![w] = s]
OpTo(w, o) == op' = [op EXCEPT ![w] = o]

-----------------------------------------------------------------------------
(* The lock.                                                                 *)

(* A fault QueueIsServed excludes: a dead worker's marker never gets stale.  *)
MayTakeFree == lock = NoOne

(* There is no marker, or one that nobody refreshes and that is stale.       *)
MayTake == lock = NoOne \/ lock \notin held

Take(w) == lock' = w /\ held' = held \union {w}

(* unlock() removes whatever marker is at the path.                          *)
GiveBack(w) ==
  /\ held' = held \ {w}
  /\ lock' = IF w \in held THEN NoOne ELSE lock
  /\ robbed' = robbed \union (IF w \in held THEN (held \ {w}) \intersect {lock} ELSE {})

-----------------------------------------------------------------------------
(* worker-status.json.                                                       *)

(* What a file tells the next worker of the last one's stop.                 *)
CarriedOver(s) ==
  IF s.by # NoOne /\ ~s.failed /\ s.stop.of # s.by
    THEN [of |-> s.by, how |-> "killed"]
    ELSE s.stop

(* A whole report is written; beside it, the history of the file.            *)
WriteStatus(w, r) ==
  /\ status' = r
  /\ orderly' = (orderly /\ lock = w /\ (w \in robbed => r.stop.of = w))
  /\ before' = IF before[w] = w THEN [before EXCEPT ![w] = latest] ELSE before
  /\ latest' = IF r.failed /\ r.stop.of # w
                 THEN IF latest = w THEN before[w] ELSE latest
                 ELSE IF before[w] \in {w, latest} THEN w ELSE latest
  /\ stopped' = stopped \union (IF r.stop.of = w THEN {w} ELSE {})

FileKept == UNCHANGED <<status, stopped, latest, before, orderly>>

(* Writes are best effort: one may be lost.                                  *)
TryWriting(w, r) ==
  \/ /\ WriteStatus(w, r) /\ UNCHANGED mishaps
  \/ /\ Mishap /\ FileKept

-----------------------------------------------------------------------------
(* Starting.                                                                 *)

Boot(w) ==
  /\ step[w] = "off" /\ StepTo(w, "live") /\ OpTo(w, "lock")
  /\ UNCHANGED <<leaseVars, cut, selfStopped, statusVars, mishaps>>

AcquireLock(w) ==
  /\ op[w] = "lock" /\ MayTake /\ Take(w) /\ OpTo(w, "read")
  /\ UNCHANGED <<robbed, step, cut, selfStopped, statusVars, mishaps>>

(* The marker of a live holder looks stale through an attribute cache, or is *)
(* removed by one that had judged the marker before it.                      *)
Rob(w) ==
  /\ Mishap /\ op[w] = "lock" /\ ~MayTake /\ Take(w) /\ OpTo(w, "read")
  /\ robbed' = robbed \union {lock}
  /\ UNCHANGED <<step, cut, selfStopped, statusVars>>

(* ELOCKED: the process exits and is started again.                          *)
Refused(w) ==
  /\ op[w] = "lock" /\ ~MayTake /\ OpTo(w, "none")
  /\ step' = IF step[w] = "live" THEN [step EXCEPT ![w] = "off"] ELSE step
  /\ UNCHANGED <<leaseVars, cut, selfStopped, statusVars, mishaps>>

ReadStatus(w) ==
  /\ op[w] = "read" /\ OpTo(w, "carry")
  /\ was' = [was EXCEPT ![w] = status.by]
  /\ report' = [report EXCEPT ![w].stop = CarriedOver(status)]
  /\ UNCHANGED <<leaseVars, step, cut, selfStopped, mishaps>> /\ FileKept

FirstSnapshot(w) ==
  /\ op[w] = "carry"
  /\ OpTo(w, IF step[w] = "live" THEN "start" ELSE "none")
  /\ TryWriting(w, report[w])
  /\ UNCHANGED <<leaseVars, step, cut, selfStopped, report, was>>

(* Provisioned, and the first sync, which reports itself, is done; or the    *)
(* drain has cut it short.                                                   *)
Started(w) ==
  /\ op[w] = "start" /\ OpTo(w, "none")
  /\ (WriteStatus(w, report[w]) \/ FileKept)
  /\ UNCHANGED <<leaseVars, step, cut, selfStopped, report, was, mishaps>>

StartFails(w) ==
  /\ Mishap /\ op[w] = "start" /\ step[w] = "live" /\ OpTo(w, "fail")
  /\ report' = [report EXCEPT ![w].failed = TRUE]
  /\ UNCHANGED <<leaseVars, step, cut, selfStopped, was>> /\ FileKept

RecordFailure(w) ==
  /\ op[w] = "fail" /\ OpTo(w, "leave")
  /\ TryWriting(w, report[w])
  /\ UNCHANGED <<leaseVars, step, cut, selfStopped, report, was>>

(* The lock is released and start() rejects, on which the process exits,     *)
(* unless a termination notice has it wait for the drain.                    *)
LeaveStart(w) ==
  /\ op[w] = "leave" /\ OpTo(w, "none") /\ GiveBack(w)
  /\ (StepTo(w, "over") \/ (step[w] # "live" /\ UNCHANGED step))
  /\ UNCHANGED <<cut, selfStopped, statusVars, mishaps>>

(* A boot that fails before start() takes the lock only to say so, and says  *)
(* nothing where it is kept away by a failure that is on record.             *)
TakeToNote(w) ==
  /\ Mishap /\ step[w] = "off" /\ MayTake /\ Take(w) /\ StepTo(w, "noting")
  /\ UNCHANGED <<robbed, op, cut, selfStopped, statusVars>>

NoteFailure(w) ==
  /\ step[w] = "noting" /\ StepTo(w, "releasing")
  /\ report' = [report EXCEPT ![w].stop = CarriedOver(status), ![w].failed = TRUE]
  /\ \/ TryWriting(w, report'[w])
     \/ status.failed /\ FileKept /\ UNCHANGED mishaps
  /\ UNCHANGED <<leaseVars, op, cut, selfStopped, was>>

-----------------------------------------------------------------------------
(* Working.                                                                  *)

Work(w) ==
  /\ step[w] = "live" /\ op[w] = "none" /\ OpTo(w, "work")
  /\ UNCHANGED <<leaseVars, step, cut, selfStopped, statusVars, mishaps>>

FinishWork(w) ==
  /\ op[w] = "work" /\ OpTo(w, "none")
  /\ (WriteStatus(w, report[w]) \/ FileKept)
  /\ UNCHANGED <<leaseVars, step, cut, selfStopped, report, was, mishaps>>

-----------------------------------------------------------------------------
(* The heartbeat.                                                            *)

(* A fault OverlapEnds excludes: the loss is logged and no more.             *)
OnCompromisedLogs(w) == UNCHANGED lifeVars

(* onCompromised: stop at once, without waiting for what is in flight; a     *)
(* drain under way is cut short.                                             *)
OnCompromised(w) ==
  /\ UNCHANGED op
  /\ IF step[w] \in {"live", "draining"}
       THEN StepTo(w, "draining") /\ cut' = cut \union {w}
       ELSE UNCHANGED <<step, cut>>
  /\ selfStopped' = IF step[w] = "live" THEN selfStopped \union {w} ELSE selfStopped

(* The refresh finds another's marker, or none.                              *)
NoticeLoss(w) ==
  /\ w \in held /\ lock # w /\ held' = held \ {w}
  /\ OnCompromised(w)
  /\ UNCHANGED <<lock, robbed, statusVars, mishaps>>

(* The refresh has failed for as long as it takes to be stale.               *)
MissRefresh(w) ==
  /\ Mishap /\ w \in held /\ lock = w /\ held' = held \ {w}
  /\ robbed' = robbed \union {w}
  /\ OnCompromised(w)
  /\ UNCHANGED <<lock, statusVars>>

-----------------------------------------------------------------------------
(* Stopping.                                                                 *)

(* A signal, or the notice that the instance goes.                           *)
AskToStop(w) ==
  /\ step[w] = "live" /\ StepTo(w, "draining")
  /\ UNCHANGED <<leaseVars, op, cut, selfStopped, statusVars, mishaps>>

(* The deadline passes.                                                      *)
Abort(w) ==
  /\ step[w] = "draining" /\ op[w] # "none" /\ w \notin cut
  /\ cut' = cut \union {w}
  /\ UNCHANGED <<leaseVars, step, op, selfStopped, statusVars, mishaps>>

(* A fault WorkHasTheLease excludes: the drain waits for nothing.            *)
EndDrainAtOnce(w) ==
  /\ step[w] = "draining" /\ StepTo(w, "stopped")
  /\ UNCHANGED <<leaseVars, op, cut, selfStopped, statusVars, mishaps>>

(* Everything has settled, or the grace after the abort has passed.          *)
EndDrain(w) ==
  /\ step[w] = "draining" /\ (op[w] = "none" \/ w \in cut)
  /\ StepTo(w, "stopped")
  /\ UNCHANGED <<leaseVars, op, cut, selfStopped, statusVars, mishaps>>

(* A fault TypeOK excludes: an outcome no reader knows.                      *)
OwnStopUnknown(w) == [report EXCEPT ![w].stop = [of |-> w, how |-> "lost"]]

OwnStop(w) == [report EXCEPT ![w].stop = [of |-> w, how |-> "stopped"]]

RecordStop(w) ==
  /\ step[w] = "stopped" /\ w \in held /\ StepTo(w, "releasing")
  /\ report' = OwnStop(w) /\ TryWriting(w, report'[w])
  /\ UNCHANGED <<leaseVars, op, cut, selfStopped, was>>

HoldsNothing(w) ==
  /\ step[w] = "stopped" /\ w \notin held
  /\ StepTo(w, IF w \in selfStopped THEN "retaking" ELSE "releasing")
  /\ UNCHANGED <<leaseVars, op, cut, selfStopped, statusVars, mishaps>>

(* recordLockLoss waits out the staleness of its own marker, with a doubled  *)
(* bound that no live holder's marker can exceed.                            *)
Retake(w) ==
  /\ step[w] = "retaking" /\ MayTake /\ Take(w) /\ StepTo(w, "checking")
  /\ UNCHANGED <<robbed, op, cut, selfStopped, statusVars, mishaps>>

RetakeRefused(w) ==
  /\ step[w] = "retaking" /\ lock \notin {NoOne, w} /\ StepTo(w, "releasing")
  /\ UNCHANGED <<leaseVars, op, cut, selfStopped, statusVars, mishaps>>

(* A fault LastStopIsTold excludes: a successor's file is written over.      *)
CheckWriterTrusts(w) ==
  /\ step[w] = "checking" /\ StepTo(w, "recording")
  /\ UNCHANGED <<leaseVars, op, cut, selfStopped, statusVars, mishaps>>

(* A successor that has come and gone since owns the file.                   *)
CheckWriter(w) ==
  /\ step[w] = "checking"
  /\ StepTo(w, IF status.by \in {NoOne, w, was[w]} THEN "recording" ELSE "releasing")
  /\ UNCHANGED <<leaseVars, op, cut, selfStopped, statusVars, mishaps>>

RecordLockLoss(w) ==
  /\ step[w] = "recording" /\ StepTo(w, "releasing")
  /\ report' = [OwnStop(w) EXCEPT ![w].failed = FALSE]
  /\ TryWriting(w, report'[w])
  /\ UNCHANGED <<leaseVars, op, cut, selfStopped, was>>

ReleaseLock(w) ==
  /\ step[w] = "releasing" /\ StepTo(w, "exiting") /\ GiveBack(w)
  /\ UNCHANGED <<op, cut, selfStopped, statusVars, mishaps>>

(* The process ends, and with it what was abandoned; proper-lockfile         *)
(* releases on exit.                                                         *)
Exit(w) ==
  /\ step[w] = "exiting" /\ StepTo(w, "over") /\ OpTo(w, "none") /\ GiveBack(w)
  /\ UNCHANGED <<cut, selfStopped, statusVars, mishaps>>

(* Killed, or its host is gone. *)
Crash(w) ==
  /\ Mishap /\ step[w] \notin {"off", "over"}
  /\ StepTo(w, "over") /\ OpTo(w, "none") /\ held' = held \ {w}
  /\ UNCHANGED <<lock, robbed, cut, selfStopped, statusVars>>

-----------------------------------------------------------------------------
Startup(w) ==
  \/ Boot(w) \/ AcquireLock(w) \/ Refused(w) \/ ReadStatus(w) \/ FirstSnapshot(w)
  \/ RecordFailure(w) \/ LeaveStart(w)
Drain(w) ==
  \/ Abort(w) \/ EndDrain(w) \/ RecordStop(w) \/ HoldsNothing(w) \/ Retake(w)
  \/ RetakeRefused(w) \/ CheckWriter(w) \/ RecordLockLoss(w)
  \/ NoteFailure(w) \/ ReleaseLock(w) \/ Exit(w)
Loops(w) == Started(w) \/ Work(w) \/ FinishWork(w)
Heartbeat(w) == NoticeLoss(w) \/ MissRefresh(w)
Trouble(w) ==
  Rob(w) \/ StartFails(w) \/ TakeToNote(w) \/ AskToStop(w) \/ Crash(w)

Next ==
  \E w \in Worker : Startup(w) \/ Drain(w) \/ Loops(w) \/ Heartbeat(w) \/ Trouble(w)

Spec == Init /\ [][Next]_vars

(* systemd starts the process again and again, its threads go on, and its    *)
(* heartbeat is a timer.  Work may hang: only the deadline ends it.          *)
Fairness ==
  \A w \in Worker :
    WF_vars(Startup(w)) /\ WF_vars(Drain(w)) /\ WF_vars(NoticeLoss(w))

FairSpec == Spec /\ Fairness

-----------------------------------------------------------------------------
TypeOK ==
  /\ lock \in Someone /\ held \subseteq Worker
  /\ step \in [Worker -> Steps] /\ op \in [Worker -> Ops]
  /\ cut \subseteq Worker /\ selfStopped \subseteq Worker
  /\ status \in Report /\ report \in [Worker -> Report]
  /\ was \in [Worker -> Someone]
  /\ mishaps \in 0..MaxMishaps
  /\ robbed \subseteq Worker /\ stopped \subseteq Worker
  /\ latest \in Someone /\ before \in [Worker -> Someone]
  /\ orderly \in BOOLEAN
  /\ \A w \in Worker : step[w] \in {"off", "over"} => w \notin held /\ op[w] = "none"

AtWork(w) == op[w] \in {"start", "work"}

(* DEP-C2: whoever works has the lease, unless it was taken or let go stale  *)
(* under the worker, or its drain has given the work up: neither a start     *)
(* that crosses a stop nor one that fails, nor the end of a drain, leaves    *)
(* work going on without it (cms-worker.ts:896).                             *)
WorkHasTheLease ==
  \A w \in Worker :
    AtWork(w) /\ w \notin robbed \union cut => lock = w

(* Two workers may work at once after a lease was lost, but not for good:    *)
(* the one without it stops at its next refresh (cms-worker.ts:923).         *)
OverlapEnds == []<>(\A v, w \in Worker : AtWork(v) /\ AtWork(w) => v = w)

(* Whoever dies, fails to start, is robbed or is stopped, the queue gets a   *)
(* worker again, for as long as the process is started again.                *)
QueueIsServed ==
  []<>(\/ \E w \in Worker : step[w] = "live" /\ lock = w
       \/ \A w \in Worker : step[w] = "over")

(* "System health shows how the last worker stopped": through crashes,       *)
(* starts that fail in a row, self-stops and records that come late, the     *)
(* file tells the next worker of the last one to run, that it stopped when   *)
(* that was recorded and that it was killed otherwise, while only the        *)
(* lease's owner writes (worker-status.ts:53, cms-worker.ts:960).            *)
Told(v) ==
  IF v = NoOne THEN Nothing
    ELSE [of |-> v, how |-> IF v \in stopped THEN "stopped" ELSE "killed"]
LastStopIsTold == orderly => CarriedOver(status) = Told(latest)
=============================================================================
