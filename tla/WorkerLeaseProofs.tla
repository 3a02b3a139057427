-------------------------- MODULE WorkerLeaseProofs --------------------------
(* Proofs about WorkerLease, for any number of starts and mishaps: its types, *)
(* that whoever works has the lease, and that the last stop is told.          *)
EXTENDS WorkerLease, TLAPS

USE SentinelAssumption, BoundAssumption

(* A worker in the course of its start, past the lock, or ready for work. *)
Engaged(w) == op[w] \notin {"none", "lock"} \/ (step[w] = "live" /\ op[w] = "none")

(* Who is engaged has the marker and its heartbeat, unless robbed or cut. *)
LeaseInv ==
  \A w \in Worker : Engaged(w) /\ w \notin robbed \union cut => lock = w /\ w \in held

(* Nothing is in flight before a start or when a drain has ended, but for    *)
(* what the drain has given up; and a start that asks for the lock has none. *)
QuietInv ==
  \A w \in Worker :
    /\ step[w] = "live" /\ op[w] = "lock" => w \notin held
    /\ step[w] \in {"off", "noting", "over"} => op[w] = "none"
    /\ step[w] \in {"stopped", "retaking", "checking", "recording", "releasing", "exiting"}
         => op[w] = "none" \/ w \in cut

LeaseAndQuiet == TypeOK /\ LeaseInv /\ QuietInv
-----------------------------------------------------------------------------
(* Types. *)

LEMMA CarriedType ==
  ASSUME NEW s \in Report
  PROVE  CarriedOver(s) \in Stop
BY DEF CarriedOver, Report, Stop, Someone

LEMMA WriteType ==
  ASSUME TypeOK, NEW w \in Worker, NEW r \in Report, WriteStatus(w, r)
  PROVE  /\ status' \in Report /\ orderly' \in BOOLEAN
         /\ before' \in [Worker -> Someone] /\ latest' \in Someone
         /\ stopped' \subseteq Worker
<1>1. before' \in [Worker -> Someone]
  BY DEF WriteStatus, TypeOK, Someone
<1>2. latest' \in Someone
  BY DEF WriteStatus, TypeOK, Someone
<1>3. orderly' \in BOOLEAN
  BY DEF WriteStatus, TypeOK
<1>4. QED
  BY <1>1, <1>2, <1>3 DEF WriteStatus, TypeOK

(* What becomes of the file keeps its type, whether it is written or not. *)
FileType ==
  /\ status' \in Report /\ orderly' \in BOOLEAN
  /\ before' \in [Worker -> Someone] /\ latest' \in Someone
  /\ stopped' \subseteq Worker

LEMMA KeptType ==
  ASSUME TypeOK, FileKept
  PROVE  FileType
BY DEF FileKept, TypeOK, FileType

LEMMA TryType ==
  ASSUME TypeOK, NEW w \in Worker, NEW r \in Report, TryWriting(w, r)
  PROVE  FileType /\ mishaps' \in 0..MaxMishaps
<1>1. CASE WriteStatus(w, r) /\ UNCHANGED mishaps
  BY <1>1, WriteType DEF FileType, TypeOK
<1>2. CASE Mishap /\ FileKept
  BY <1>2, KeptType DEF Mishap, TypeOK
<1>3. QED
  BY <1>1, <1>2 DEF TryWriting

(* The worker's own report, with another stop or as a failed start's. *)
LEMMA ReportType ==
  ASSUME TypeOK, NEW w \in Worker, NEW stop \in Stop, NEW failed \in BOOLEAN
  PROVE  /\ [report EXCEPT ![w].stop = stop] \in [Worker -> Report]
         /\ [report EXCEPT ![w].failed = failed] \in [Worker -> Report]
         /\ [report EXCEPT ![w].stop = stop, ![w].failed = failed] \in [Worker -> Report]
         /\ [OwnStop(w) EXCEPT ![w].failed = failed] \in [Worker -> Report]
         /\ OwnStop(w) \in [Worker -> Report]
BY DEF TypeOK, Report, Stop, Someone, OwnStop

(* The parts of TypeOK that a step leaves alone or changes on its own. *)
LifeType ==
  /\ step' \in [Worker -> Steps] /\ op' \in [Worker -> Ops]
  /\ cut' \subseteq Worker /\ selfStopped' \subseteq Worker
  /\ \A w \in Worker : step'[w] \in {"off", "over"} => w \notin held' /\ op'[w] = "none"
LeaseType == lock' \in Someone /\ held' \subseteq Worker /\ robbed' \subseteq Worker

LEMMA TypeOfParts ==
  ASSUME LifeType, LeaseType, FileType, report' \in [Worker -> Report],
         was' \in [Worker -> Someone], mishaps' \in 0..MaxMishaps
  PROVE  TypeOK'
BY DEF LifeType, LeaseType, FileType, TypeOK

(* The steps of a start. *)
LEMMA StartupType ==
  ASSUME TypeOK, QuietInv, NEW w \in Worker,
         \/ Boot(w) \/ AcquireLock(w) \/ Rob(w) \/ Refused(w) \/ ReadStatus(w)
         \/ FirstSnapshot(w) \/ Started(w) \/ StartFails(w) \/ RecordFailure(w)
         \/ LeaveStart(w) \/ TakeToNote(w) \/ NoteFailure(w)
  PROVE  TypeOK'
<1> USE DEF StepTo, OpTo, leaseVars, Steps, Ops
<1>1. LifeType
  <2>1. CASE Boot(w) \/ Refused(w)
    BY <2>1 DEF Boot, Refused, TypeOK, QuietInv, LifeType
  <2>2. CASE AcquireLock(w) \/ Rob(w) \/ TakeToNote(w)
    BY <2>2 DEF AcquireLock, Rob, TakeToNote, Take, TypeOK, LifeType
  <2>3. CASE ReadStatus(w) \/ FirstSnapshot(w) \/ Started(w)
    BY <2>3 DEF ReadStatus, FirstSnapshot, Started, TypeOK, LifeType
  <2>4. CASE StartFails(w) \/ RecordFailure(w) \/ NoteFailure(w)
    BY <2>4 DEF StartFails, RecordFailure, NoteFailure, TypeOK, LifeType
  <2>5. CASE LeaveStart(w)
    BY <2>5 DEF LeaveStart, GiveBack, TypeOK, LifeType
  <2>6. QED
    BY <2>1, <2>2, <2>3, <2>4, <2>5
<1>2. LeaseType
  BY SMTT(60) DEF TypeOK, LeaseType, Boot, AcquireLock, Rob, Refused, ReadStatus,
     FirstSnapshot, Started, StartFails, RecordFailure, LeaveStart, TakeToNote, NoteFailure,
     Take, GiveBack, Someone, MayTake
<1>3. report' \in [Worker -> Report] /\ was' \in [Worker -> Someone]
  <2>1. CarriedOver(status) \in Stop /\ status.by \in Someone
    BY CarriedType DEF TypeOK, Report
  <2>2. CASE ReadStatus(w)
    BY <2>1, <2>2, ReportType DEF ReadStatus, TypeOK
  <2>3. CASE StartFails(w)
    BY <2>3, <2>1, ReportType DEF StartFails, TypeOK
  <2>4. CASE NoteFailure(w)
    BY <2>4, <2>1, ReportType DEF NoteFailure, TypeOK
  <2>5. CASE UNCHANGED <<report, was>>
    BY <2>5 DEF TypeOK
  <2>6. QED
    BY <2>2, <2>3, <2>4, <2>5 DEF Boot, AcquireLock, Rob, Refused, FirstSnapshot, Started,
       RecordFailure, LeaveStart, TakeToNote, statusVars
<1>4. FileType /\ mishaps' \in 0..MaxMishaps
  <2>1. CASE FirstSnapshot(w) \/ RecordFailure(w)
    BY <2>1, TryType DEF FirstSnapshot, RecordFailure, TypeOK
  <2>2. CASE Started(w)
    BY <2>2, WriteType, KeptType DEF Started, TypeOK, FileType
  <2>3. CASE NoteFailure(w)
    <3>1. report'[w] \in Report
      BY <1>3
    <3>2. QED
      BY <2>3, <3>1, TryType, KeptType DEF NoteFailure, TypeOK
  <2>4. CASE ReadStatus(w)
    BY <2>4, KeptType DEF ReadStatus, TypeOK
  <2>5. CASE StartFails(w)
    BY <2>5, KeptType DEF StartFails, Mishap, TypeOK
  <2>6. CASE UNCHANGED statusVars /\ (UNCHANGED mishaps \/ Mishap)
    BY <2>6 DEF statusVars, Mishap, TypeOK, FileType
  <2>7. QED
    BY <2>1, <2>2, <2>3, <2>4, <2>5, <2>6 DEF Boot, AcquireLock, Rob, Refused,
       LeaveStart, TakeToNote
<1>5. QED
  BY <1>1, <1>2, <1>3, <1>4, TypeOfParts

(* The steps of work, of the heartbeat and of a drain. *)
LEMMA DrainType ==
  ASSUME TypeOK, NEW w \in Worker,
         \/ Work(w) \/ FinishWork(w) \/ NoticeLoss(w) \/ MissRefresh(w)
         \/ AskToStop(w) \/ Abort(w) \/ EndDrain(w) \/ RecordStop(w) \/ HoldsNothing(w)
         \/ Retake(w) \/ RetakeRefused(w) \/ CheckWriter(w) \/ RecordLockLoss(w)
         \/ ReleaseLock(w) \/ Exit(w) \/ Crash(w)
  PROVE  TypeOK'
<1> USE DEF StepTo, OpTo, leaseVars, Steps, Ops
<1>1. LifeType
  <2>1. CASE Work(w) \/ FinishWork(w) \/ AskToStop(w) \/ Abort(w) \/ EndDrain(w)
    BY <2>1 DEF Work, FinishWork, AskToStop, Abort, EndDrain, TypeOK, LifeType
  <2>2. CASE NoticeLoss(w) \/ MissRefresh(w)
    BY <2>2 DEF NoticeLoss, MissRefresh, OnCompromised, TypeOK, LifeType
  <2>3. CASE RecordStop(w) \/ HoldsNothing(w) \/ RetakeRefused(w) \/ CheckWriter(w)
             \/ RecordLockLoss(w)
    BY <2>3 DEF RecordStop, HoldsNothing, RetakeRefused, CheckWriter, RecordLockLoss,
       TypeOK, LifeType
  <2>4. CASE Retake(w) \/ ReleaseLock(w) \/ Exit(w) \/ Crash(w)
    BY <2>4 DEF Retake, Take, ReleaseLock, Exit, Crash, GiveBack, TypeOK, LifeType
  <2>5. QED
    BY <2>1, <2>2, <2>3, <2>4
<1>2. LeaseType
  BY SMTT(60) DEF TypeOK, LeaseType, Work, FinishWork, NoticeLoss, MissRefresh, AskToStop,
     Abort, EndDrain, RecordStop, HoldsNothing, Retake, RetakeRefused, CheckWriter,
     RecordLockLoss, ReleaseLock, Exit, Crash, Take, GiveBack, Someone
<1>3. report' \in [Worker -> Report] /\ was' \in [Worker -> Someone]
  <2>1. CASE RecordStop(w) \/ RecordLockLoss(w)
    <3>1. status \in Report /\ [of |-> w, how |-> "stopped"] \in Stop
      BY DEF TypeOK, Stop, Someone
    <3>2. OwnStop(w) \in [Worker -> Report]
          /\ [OwnStop(w) EXCEPT ![w].failed = FALSE] \in [Worker -> Report]
      BY <3>1, ReportType
    <3>3. QED
      BY <2>1, <3>2 DEF RecordStop, RecordLockLoss, TypeOK
  <2>2. CASE UNCHANGED <<report, was>>
    BY <2>2 DEF TypeOK
  <2>3. QED
    BY <2>1, <2>2 DEF Work, FinishWork, NoticeLoss, MissRefresh, AskToStop, Abort, EndDrain,
       HoldsNothing, Retake, RetakeRefused, CheckWriter, ReleaseLock, Exit, Crash, statusVars
<1>4. FileType /\ mishaps' \in 0..MaxMishaps
  <2>1. CASE RecordStop(w) \/ RecordLockLoss(w)
    <3>1. report'[w] \in Report
      BY <1>3
    <3>2. QED
      BY <2>1, <3>1, TryType DEF RecordStop, RecordLockLoss
  <2>2. CASE FinishWork(w)
    BY <2>2, WriteType, KeptType DEF FinishWork, TypeOK, FileType
  <2>3. CASE UNCHANGED statusVars /\ (UNCHANGED mishaps \/ Mishap)
    BY <2>3 DEF statusVars, Mishap, TypeOK, FileType
  <2>4. QED
    BY <2>1, <2>2, <2>3 DEF Work, NoticeLoss, MissRefresh, AskToStop, Abort, EndDrain,
       HoldsNothing, Retake, RetakeRefused, CheckWriter, ReleaseLock, Exit, Crash
<1>5. QED
  BY <1>1, <1>2, <1>3, <1>4, TypeOfParts
-----------------------------------------------------------------------------
(* Steps. *)

(* Next, action by action. *)
Action(w) ==
  \/ Boot(w) \/ AcquireLock(w) \/ Rob(w) \/ Refused(w) \/ ReadStatus(w)
  \/ FirstSnapshot(w) \/ Started(w) \/ StartFails(w) \/ RecordFailure(w)
  \/ LeaveStart(w) \/ TakeToNote(w) \/ NoteFailure(w)
  \/ Work(w) \/ FinishWork(w) \/ NoticeLoss(w) \/ MissRefresh(w)
  \/ AskToStop(w) \/ Abort(w) \/ EndDrain(w) \/ RecordStop(w) \/ HoldsNothing(w)
  \/ Retake(w) \/ RetakeRefused(w) \/ CheckWriter(w) \/ RecordLockLoss(w)
  \/ ReleaseLock(w) \/ Exit(w) \/ Crash(w)

LEMMA NextSteps ==
  ASSUME Next
  PROVE  \E w \in Worker : Action(w)
BY DEF Next, Startup, Drain, Loops, Heartbeat, Trouble, Action

(* A start asks for the lock with no heartbeat of its own, and a drain ends with nothing *)
(* in flight but what it has given up.                                                   *)
LEMMA QuietStep ==
  ASSUME TypeOK, QuietInv, NEW w \in Worker, Action(w)
  PROVE  QuietInv'
<1> USE DEF StepTo, OpTo, leaseVars, TypeOK, QuietInv
<1>1. CASE Boot(w) \/ Refused(w) \/ Work(w) \/ FinishWork(w) \/ AskToStop(w)
  BY <1>1 DEF Boot, Refused, Work, FinishWork, AskToStop
<1>2. CASE AcquireLock(w) \/ Rob(w) \/ TakeToNote(w) \/ Retake(w)
  BY <1>2 DEF AcquireLock, Rob, TakeToNote, Retake, Take
<1>3. CASE ReadStatus(w) \/ FirstSnapshot(w) \/ Started(w) \/ StartFails(w)
           \/ RecordFailure(w) \/ NoteFailure(w)
  BY <1>3 DEF ReadStatus, FirstSnapshot, Started, StartFails, RecordFailure, NoteFailure
<1>4. CASE NoticeLoss(w) \/ MissRefresh(w)
  BY <1>4 DEF NoticeLoss, MissRefresh, OnCompromised
<1>5. CASE Abort(w) \/ EndDrain(w) \/ RecordStop(w) \/ HoldsNothing(w)
           \/ RetakeRefused(w) \/ CheckWriter(w) \/ RecordLockLoss(w)
  BY <1>5 DEF Abort, EndDrain, RecordStop, HoldsNothing, RetakeRefused, CheckWriter,
     RecordLockLoss
<1>6. CASE LeaveStart(w) \/ ReleaseLock(w) \/ Exit(w) \/ Crash(w)
  BY <1>6 DEF LeaveStart, ReleaseLock, Exit, Crash, GiveBack
<1>7. QED
  BY <1>1, <1>2, <1>3, <1>4, <1>5, <1>6 DEF Action

(* A marker with a heartbeat is only removed by robbing its owner. *)
LEMMA LeaseStep ==
  ASSUME TypeOK, LeaseInv, QuietInv, NEW w \in Worker, Action(w)
  PROVE  LeaseInv'
<1> USE DEF StepTo, OpTo, leaseVars, TypeOK, LeaseInv, Engaged
<1>1. CASE Boot(w) \/ Refused(w) \/ Work(w) \/ FinishWork(w) \/ AskToStop(w)
  BY <1>1 DEF Boot, Refused, Work, FinishWork, AskToStop
<1>2. CASE AcquireLock(w) \/ Rob(w) \/ TakeToNote(w) \/ Retake(w)
  BY <1>2, SMTT(30) DEF AcquireLock, Rob, TakeToNote, Retake, Take, MayTake, Someone, QuietInv
<1>3. CASE ReadStatus(w) \/ FirstSnapshot(w) \/ Started(w) \/ StartFails(w)
           \/ RecordFailure(w) \/ NoteFailure(w)
  BY <1>3 DEF ReadStatus, FirstSnapshot, Started, StartFails, RecordFailure, NoteFailure
<1>4. CASE NoticeLoss(w) \/ MissRefresh(w)
  BY <1>4 DEF NoticeLoss, MissRefresh, OnCompromised
<1>5. CASE Abort(w) \/ EndDrain(w) \/ RecordStop(w) \/ HoldsNothing(w)
           \/ RetakeRefused(w) \/ CheckWriter(w) \/ RecordLockLoss(w)
  BY <1>5 DEF Abort, EndDrain, RecordStop, HoldsNothing, RetakeRefused, CheckWriter,
     RecordLockLoss
<1>6. CASE LeaveStart(w) \/ ReleaseLock(w) \/ Exit(w) \/ Crash(w)
  BY <1>6, SMTT(30) DEF LeaveStart, ReleaseLock, Exit, Crash, GiveBack, QuietInv
<1>7. QED
  BY <1>1, <1>2, <1>3, <1>4, <1>5, <1>6 DEF Action

LEMMA LeaseAndQuietStep ==
  ASSUME LeaseAndQuiet, [Next]_vars
  PROVE  LeaseAndQuiet'
<1>1. CASE Next
  BY <1>1, NextSteps, StartupType, DrainType, QuietStep, LeaseStep DEF Action, LeaseAndQuiet
<1>2. CASE UNCHANGED vars
  BY <1>2 DEF vars, leaseVars, lifeVars, statusVars, LeaseAndQuiet, TypeOK, LeaseInv, Engaged,
     QuietInv
<1>3. QED
  BY <1>1, <1>2

LEMMA LeaseAndQuietInit ==
  ASSUME Init
  PROVE  LeaseAndQuiet
BY DEF Init, LeaseAndQuiet, TypeOK, LeaseInv, Engaged, QuietInv, Someone, Steps, Ops, Report,
   Stop, Blank, Nothing

(* The invariant behind the two theorems below: the lock of cms-worker.ts has *)
(* one owner unless robbed, and a drain leaves nothing behind unnoticed.      *)
THEOREM LeaseAndQuietHold == Spec => []LeaseAndQuiet
BY LeaseAndQuietInit, LeaseAndQuietStep, PTL DEF Spec
-----------------------------------------------------------------------------
(* The types of the lock, the processes and the status file (cms-worker.ts).  *)
THEOREM TypeCorrect == Spec => []TypeOK
<1>1. LeaseAndQuiet => TypeOK
  BY DEF LeaseAndQuiet
<1>2. QED
  BY <1>1, LeaseAndQuietHold, PTL

(* DEP-C2: whoever works has the lease, unless robbed or given up on          *)
(* (cms-worker.ts:896), for any number of starts, thefts and deaths.          *)
THEOREM WorkersHaveTheLease == Spec => []WorkHasTheLease
<1>1. LeaseAndQuiet => WorkHasTheLease
  BY DEF LeaseAndQuiet, LeaseInv, Engaged, WorkHasTheLease, AtWork
<1>2. QED
  BY <1>1, LeaseAndQuietHold, PTL

-----------------------------------------------------------------------------
(* The record of the last stop.                                              *)

(* A worker in these steps has asked the file who wrote it for the last time. *)
Ending == {"releasing", "exiting", "over"}

(* The worker's report is of its own stop. *)
Own(w) == report[w].stop.of = w

(* Who has the marker without a refresh missed or a theft has it since its    *)
(* start; a self-stopped worker takes it again, to record that.               *)
HoldInv ==
  /\ selfStopped \subseteq robbed
  /\ \A w \in Worker :
       /\ w \in held /\ lock # w => w \in robbed
       /\ w \in held /\ lock = w /\ w \in robbed =>
            step[w] \in {"checking", "recording", "releasing"}
       /\ step[w] \in {"retaking", "checking", "recording"} => w \in selfStopped

(* A worker that has not had the lock has not written; and what the abandoned *)
(* start of a worker that has recorded its stop reads is its own record.      *)
BeginInv ==
  \A w \in Worker :
    /\ step[w] \in {"off", "noting"} \/ op[w] = "lock" => before[w] = w
    /\ step[w] = "off" \/ op[w] = "lock" => w \notin held \union robbed /\ ~Own(w)
    /\ op[w] = "read" /\ before[w] # w => Own(w) /\ w \in stopped
    /\ Own(w) \/ w \in stopped => step[w] \in Ending
    /\ report[w].by = w
    /\ step[w] \notin Ending => was[w] # w

(* Nothing tells of a worker that has not written. *)
Unheard(w) ==
  /\ status.by # w /\ status.stop.of # w /\ latest # w /\ w \notin stopped
  /\ \A v \in Worker :
       /\ was[v] # w
       /\ v # w => before[v] # w /\ report[v].stop.of # w

UnheardInv ==
  /\ \A w \in Worker : before[w] = w => Unheard(w)
  /\ status.by = NoOne => \A w \in Worker : before[w] = w

(* No worker has begun since this one did, or since it could. *)
Foremost(w) == before[w] \in {w, latest} \/ latest = w

(* It writes what it is doing, or is to, under the lock it started with. *)
Reports(w) == op[w] \in {"carry", "start", "fail", "work"} \/ (step[w] = "live" /\ op[w] = "none")

(* Whom this worker's report tells of, as long as it is not of its own stop. *)
Prior(w) == IF before[w] = w THEN latest ELSE before[w]

(* Who may write in order: the owner, if it was not robbed, and the owner     *)
(* that is about to record, or has recorded, its own stop.                    *)
MayRecord(w) == lock = w /\ (w \notin robbed \/ step[w] = "recording" \/ Own(w))

RecordInv(w) ==
  /\ Foremost(w)
  /\ \A v \in Worker \ {w} : step[v] \notin Ending /\ before[v] # v => was[v] # w
  /\ w \in stopped => latest = w /\ (op[w] \notin {"none", "lock", "read"} => Own(w))
  /\ Own(w) => report[w].stop.how = "stopped"
  /\ Reports(w) /\ ~Own(w) /\ w \notin robbed => report[w].stop = Told(Prior(w))

(* Once a worker has written, the one whose file it found does not write any  *)
(* more: recordLockLoss would see a writer it does not know.                  *)
NoReturn(w) ==
  /\ status.by = w => Foremost(w)
  /\ step[w] \notin Ending /\ before[w] # w => status.by # was[w]

ToldInv ==
  orderly =>
    /\ CarriedOver(status) = Told(latest)
    /\ \A w \in Worker : NoReturn(w) /\ (MayRecord(w) => RecordInv(w))

StopInv ==
  LeaseAndQuiet /\ HoldInv /\ BeginInv /\ UnheardInv /\ ToldInv


(* What a write makes of the file and its history. *)
LEMMA WriteHistory ==
  ASSUME TypeOK, NEW w \in Worker, NEW r \in Report, WriteStatus(w, r)
  PROVE  /\ status' = r
         /\ orderly' => orderly /\ lock = w /\ (w \in robbed => r.stop.of = w)
         /\ \A v \in Worker \ {w} : before'[v] = before[v]
         /\ before'[w] = IF before[w] = w THEN latest ELSE before[w]
         /\ latest' = IF r.failed /\ r.stop.of # w
                        THEN IF latest = w THEN before[w] ELSE latest
                        ELSE IF before[w] \in {w, latest} THEN w ELSE latest
         /\ stopped' = stopped \union (IF r.stop.of = w THEN {w} ELSE {})
BY DEF WriteStatus, TypeOK

(* Every step leaves the records of the other workers. *)
Bystander(v) ==
  /\ step'[v] = step[v] /\ op'[v] = op[v] /\ report'[v] = report[v] /\ was'[v] = was[v]
  /\ v \in cut' <=> v \in cut
  /\ v \in selfStopped' <=> v \in selfStopped

LEMMA StepBystanders ==
  ASSUME TypeOK, NEW w \in Worker, Action(w)
  PROVE  \A v \in Worker \ {w} : Bystander(v)
<1> USE DEF StepTo, OpTo, leaseVars, lifeVars, statusVars, TypeOK, Bystander
<1>1. CASE \/ Boot(w) \/ AcquireLock(w) \/ Rob(w) \/ Refused(w) \/ ReadStatus(w)
           \/ FirstSnapshot(w) \/ Started(w) \/ StartFails(w) \/ RecordFailure(w)
           \/ LeaveStart(w) \/ TakeToNote(w) \/ NoteFailure(w)
  BY <1>1 DEF Boot, AcquireLock, Rob, Refused, ReadStatus, FirstSnapshot, Started,
     StartFails, RecordFailure, LeaveStart, TakeToNote, NoteFailure
<1>2. CASE \/ Work(w) \/ FinishWork(w) \/ NoticeLoss(w) \/ MissRefresh(w)
           \/ AskToStop(w) \/ Abort(w) \/ EndDrain(w) \/ HoldsNothing(w)
           \/ Retake(w) \/ RetakeRefused(w) \/ CheckWriter(w)
           \/ ReleaseLock(w) \/ Exit(w) \/ Crash(w)
  BY <1>2 DEF Work, FinishWork, NoticeLoss, MissRefresh, OnCompromised, AskToStop, Abort,
     EndDrain, HoldsNothing, Retake, RetakeRefused, CheckWriter, ReleaseLock, Exit, Crash
<1>3. CASE RecordStop(w) \/ RecordLockLoss(w)
  BY <1>3 DEF RecordStop, RecordLockLoss, OwnStop
<1>4. QED
  BY <1>1, <1>2, <1>3 DEF Action

-----------------------------------------------------------------------------
(* The lock, and what the file can tell of. *)

LEMMA HoldStep ==
  ASSUME TypeOK, QuietInv, HoldInv, BeginInv, NEW w \in Worker, Action(w)
  PROVE  HoldInv'
<1> USE DEF StepTo, OpTo, leaseVars, lifeVars, statusVars, TypeOK, HoldInv
<1>1. CASE Boot(w) \/ Refused(w) \/ Work(w) \/ FinishWork(w) \/ AskToStop(w)
  BY <1>1 DEF Boot, Refused, Work, FinishWork, AskToStop
<1>2. CASE AcquireLock(w) \/ TakeToNote(w)
  BY <1>2, SMTT(30) DEF AcquireLock, TakeToNote, Take, MayTake, BeginInv
<1>3. CASE Rob(w)
  BY <1>3, SMTT(30) DEF Rob, Take, MayTake, BeginInv
<1>4. CASE Retake(w)
  BY <1>4, SMTT(30) DEF Retake, Take, MayTake
<1>5. CASE ReadStatus(w) \/ FirstSnapshot(w) \/ Started(w) \/ StartFails(w)
           \/ RecordFailure(w) \/ NoteFailure(w)
  BY <1>5 DEF ReadStatus, FirstSnapshot, Started, StartFails, RecordFailure, NoteFailure
<1>6. CASE NoticeLoss(w) \/ MissRefresh(w)
  BY <1>6 DEF NoticeLoss, MissRefresh, OnCompromised
<1>7. CASE Abort(w) \/ EndDrain(w) \/ RecordStop(w) \/ HoldsNothing(w)
           \/ RetakeRefused(w) \/ CheckWriter(w) \/ RecordLockLoss(w)
  BY <1>7 DEF Abort, EndDrain, RecordStop, HoldsNothing, RetakeRefused, CheckWriter,
     RecordLockLoss
<1>8. CASE LeaveStart(w) \/ ReleaseLock(w) \/ Exit(w) \/ Crash(w)
  BY <1>8, SMTT(30) DEF LeaveStart, ReleaseLock, Exit, Crash, GiveBack
<1>9. QED
  BY <1>1, <1>2, <1>3, <1>4, <1>5, <1>6, <1>7, <1>8 DEF Action

(* What a step does to the file: nothing, or the actor's report is written.  *)
LEMMA WriteOrKeep ==
  ASSUME NEW w \in Worker, Action(w)
  PROVE  FileKept \/ WriteStatus(w, report'[w])
<1> USE DEF statusVars, FileKept
<1>1. CASE FirstSnapshot(w) \/ Started(w) \/ RecordFailure(w) \/ FinishWork(w)
  <2>1. report'[w] = report[w]
    BY <1>1 DEF FirstSnapshot, Started, RecordFailure, FinishWork
  <2>2. WriteStatus(w, report[w]) \/ FileKept
    BY <1>1 DEF FirstSnapshot, Started, RecordFailure, FinishWork, TryWriting
  <2>3. QED
    BY <2>1, <2>2
<1>2. CASE NoteFailure(w) \/ RecordStop(w) \/ RecordLockLoss(w)
  BY <1>2 DEF NoteFailure, RecordStop, RecordLockLoss, TryWriting
<1>3. CASE \/ Boot(w) \/ AcquireLock(w) \/ Rob(w) \/ Refused(w) \/ ReadStatus(w)
           \/ StartFails(w) \/ LeaveStart(w) \/ TakeToNote(w)
  BY <1>3 DEF Boot, AcquireLock, Rob, Refused, ReadStatus, StartFails, LeaveStart, TakeToNote
<1>4. CASE \/ Work(w) \/ NoticeLoss(w) \/ MissRefresh(w)
           \/ AskToStop(w) \/ Abort(w) \/ EndDrain(w) \/ HoldsNothing(w)
           \/ Retake(w) \/ RetakeRefused(w) \/ CheckWriter(w)
           \/ ReleaseLock(w) \/ Exit(w) \/ Crash(w)
  BY <1>4 DEF Work, NoticeLoss, MissRefresh, AskToStop, Abort, EndDrain, HoldsNothing,
     Retake, RetakeRefused, CheckWriter, ReleaseLock, Exit, Crash
<1>5. QED
  BY <1>1, <1>2, <1>3, <1>4 DEF Action

(* What a step does to the actor's own report and memory. *)
Reported(w) ==
  \/ report'[w] = report[w] /\ was'[w] = was[w]
  \/ ReadStatus(w) /\ was'[w] = status.by
     /\ report'[w] = [report[w] EXCEPT !.stop = CarriedOver(status)]
  \/ StartFails(w) /\ report'[w] = [report[w] EXCEPT !.failed = TRUE] /\ was'[w] = was[w]
  \/ NoteFailure(w) /\ was'[w] = was[w]
     /\ report'[w] = [report[w] EXCEPT !.stop = CarriedOver(status), !.failed = TRUE]
  \/ (RecordStop(w) \/ RecordLockLoss(w)) /\ was'[w] = was[w]
     /\ report'[w].by = report[w].by /\ report'[w].stop = [of |-> w, how |-> "stopped"]

LEMMA StepReports ==
  ASSUME TypeOK, NEW w \in Worker, Action(w)
  PROVE  Reported(w)
<1> USE DEF statusVars, TypeOK, Reported
<1>1. CASE ReadStatus(w)
  BY <1>1 DEF ReadStatus
<1>2. CASE StartFails(w)
  BY <1>2 DEF StartFails
<1>3. CASE NoteFailure(w)
  BY <1>3 DEF NoteFailure
<1>4. CASE RecordStop(w)
  BY <1>4 DEF RecordStop, OwnStop, Report
<1>5. CASE RecordLockLoss(w)
  BY <1>5 DEF RecordLockLoss, OwnStop, Report
<1>6. CASE \/ Boot(w) \/ AcquireLock(w) \/ Rob(w) \/ Refused(w)
           \/ FirstSnapshot(w) \/ Started(w) \/ RecordFailure(w)
           \/ LeaveStart(w) \/ TakeToNote(w)
  BY <1>6 DEF Boot, AcquireLock, Rob, Refused, FirstSnapshot, Started, RecordFailure,
     LeaveStart, TakeToNote
<1>7. CASE \/ Work(w) \/ FinishWork(w) \/ NoticeLoss(w) \/ MissRefresh(w)
           \/ AskToStop(w) \/ Abort(w) \/ EndDrain(w) \/ HoldsNothing(w)
           \/ Retake(w) \/ RetakeRefused(w) \/ CheckWriter(w)
           \/ ReleaseLock(w) \/ Exit(w) \/ Crash(w)
  BY <1>7 DEF Work, FinishWork, NoticeLoss, MissRefresh, AskToStop, Abort, EndDrain,
     HoldsNothing, Retake, RetakeRefused, CheckWriter, ReleaseLock, Exit, Crash
<1>8. QED
  BY <1>1, <1>2, <1>3, <1>4, <1>5, <1>6, <1>7 DEF Action

(* What a step does to where the actor is. *)
Moved(w) ==
  /\ step[w] \in Ending => step'[w] \in Ending
  /\ step'[w] = "recording" => step[w] = "recording" \/ CheckWriter(w)
  /\ step'[w] \in {"off", "noting"} =>
       step[w] \in {"off", "noting"} \/ (Refused(w) /\ op[w] = "lock")
  /\ step'[w] = "off" => step[w] = "off" \/ (Refused(w) /\ op[w] = "lock")
  /\ op'[w] = "lock" => step[w] = "off" \/ op[w] = "lock"
  /\ op'[w] = "read" => op[w] \in {"read", "lock"}

LEMMA StepMoves ==
  ASSUME TypeOK, QuietInv, NEW w \in Worker, Action(w)
  PROVE  Moved(w)
<1> USE DEF StepTo, OpTo, lifeVars, TypeOK, QuietInv, Moved, Ending
<1>1. CASE \/ Boot(w) \/ AcquireLock(w) \/ Rob(w) \/ Refused(w) \/ ReadStatus(w)
           \/ FirstSnapshot(w) \/ Started(w) \/ StartFails(w) \/ RecordFailure(w)
  BY <1>1 DEF Boot, AcquireLock, Rob, Refused, ReadStatus, FirstSnapshot, Started,
     StartFails, RecordFailure
<1>2. CASE LeaveStart(w) \/ TakeToNote(w) \/ NoteFailure(w)
  BY <1>2 DEF LeaveStart, TakeToNote, NoteFailure
<1>3. CASE \/ Work(w) \/ FinishWork(w) \/ NoticeLoss(w) \/ MissRefresh(w)
           \/ AskToStop(w) \/ Abort(w) \/ EndDrain(w) \/ RecordStop(w) \/ HoldsNothing(w)
  BY <1>3 DEF Work, FinishWork, NoticeLoss, MissRefresh, OnCompromised, AskToStop, Abort,
     EndDrain, RecordStop, HoldsNothing
<1>4. CASE \/ Retake(w) \/ RetakeRefused(w) \/ CheckWriter(w) \/ RecordLockLoss(w)
           \/ ReleaseLock(w) \/ Exit(w) \/ Crash(w)
  BY <1>4 DEF Retake, RetakeRefused, CheckWriter, RecordLockLoss, ReleaseLock, Exit, Crash
<1>5. QED
  BY <1>1, <1>2, <1>3, <1>4 DEF Action

(* A step that writes the file keeps the lease, and its actor has got past    *)
(* the lock.                                                                  *)
WriteKind(w) ==
  /\ UNCHANGED leaseVars
  /\ \/ /\ op[w] \in {"carry", "start", "work", "fail"} /\ report'[w] = report[w]
        /\ was'[w] = was[w] /\ step'[w] = step[w] /\ op'[w] \in {"start", "none", "leave"}
     \/ step[w] = "noting" /\ NoteFailure(w) /\ step'[w] = "releasing" /\ op'[w] = op[w]
     \/ step[w] = "stopped" /\ w \in held /\ RecordStop(w) /\ step'[w] = "releasing"
        /\ op'[w] = op[w]
     \/ step[w] = "recording" /\ RecordLockLoss(w) /\ step'[w] = "releasing"
        /\ op'[w] = op[w]

LEMMA WritersAre ==
  ASSUME TypeOK, NEW w \in Worker, Action(w)
  PROVE  FileKept \/ (WriteStatus(w, report'[w]) /\ WriteKind(w))
<1> USE DEF StepTo, OpTo, TypeOK, statusVars
<1>1. CASE FirstSnapshot(w) \/ Started(w) \/ RecordFailure(w) \/ FinishWork(w)
  <2>1. WriteKind(w)
    BY <1>1 DEF FirstSnapshot, Started, RecordFailure, FinishWork, WriteKind
  <2>2. QED
    BY <2>1, WriteOrKeep
<1>2. CASE NoteFailure(w) \/ RecordStop(w) \/ RecordLockLoss(w)
  <2>1. WriteKind(w)
    BY <1>2 DEF NoteFailure, RecordStop, RecordLockLoss, WriteKind
  <2>2. QED
    BY <2>1, WriteOrKeep
<1>3. CASE \/ Boot(w) \/ AcquireLock(w) \/ Rob(w) \/ Refused(w) \/ ReadStatus(w)
           \/ StartFails(w) \/ LeaveStart(w) \/ TakeToNote(w)
  BY <1>3 DEF FileKept, Boot, AcquireLock, Rob, Refused, ReadStatus, StartFails, LeaveStart,
     TakeToNote
<1>4. CASE \/ Work(w) \/ NoticeLoss(w) \/ MissRefresh(w)
           \/ AskToStop(w) \/ Abort(w) \/ EndDrain(w) \/ HoldsNothing(w)
           \/ Retake(w) \/ RetakeRefused(w) \/ CheckWriter(w)
           \/ ReleaseLock(w) \/ Exit(w) \/ Crash(w)
  BY <1>4 DEF FileKept, Work, NoticeLoss, MissRefresh, AskToStop, Abort, EndDrain,
     HoldsNothing, Retake, RetakeRefused, CheckWriter, ReleaseLock, Exit, Crash
<1>5. QED
  BY <1>1, <1>2, <1>3, <1>4 DEF Action

(* The file and its history, when a step does not write it. *)
LEMMA FileKeptFacts ==
  ASSUME FileKept
  PROVE  /\ status' = status /\ latest' = latest /\ before' = before
         /\ stopped' = stopped /\ orderly' = orderly
BY DEF FileKept

(* A worker comes into the lease's history only by having it. *)
LEMMA LeaseGains ==
  ASSUME TypeOK, NEW w \in Worker, Action(w)
  PROVE  /\ robbed \subseteq robbed'
         /\ robbed' \ robbed \subseteq held
         /\ \A v \in Worker : v \in held' \ held => v = w
         /\ w \in held' \ held => AcquireLock(w) \/ Rob(w) \/ TakeToNote(w) \/ Retake(w)
         /\ \A v \in Worker : lock' = v /\ lock # v =>
              v = w /\ (AcquireLock(w) \/ Rob(w) \/ TakeToNote(w) \/ Retake(w))
<1> USE DEF TypeOK, leaseVars
<1>1. CASE AcquireLock(w) \/ Rob(w) \/ TakeToNote(w) \/ Retake(w)
  BY <1>1, SMTT(30) DEF AcquireLock, Rob, TakeToNote, Retake, Take, MayTake, Someone
<1>2. CASE LeaveStart(w) \/ ReleaseLock(w) \/ Exit(w) \/ Crash(w) \/ NoticeLoss(w) \/ MissRefresh(w)
  BY <1>2, SMTT(30) DEF LeaveStart, ReleaseLock, Exit, Crash, GiveBack, NoticeLoss, MissRefresh,
     Someone
<1>3. CASE \/ Boot(w) \/ Refused(w) \/ ReadStatus(w) \/ FirstSnapshot(w) \/ Started(w)
           \/ StartFails(w) \/ RecordFailure(w) \/ NoteFailure(w) \/ Work(w) \/ FinishWork(w)
           \/ AskToStop(w) \/ Abort(w) \/ EndDrain(w) \/ RecordStop(w) \/ HoldsNothing(w)
           \/ RetakeRefused(w) \/ CheckWriter(w) \/ RecordLockLoss(w)
  <2>1. UNCHANGED leaseVars
    BY <1>3 DEF Boot, Refused, ReadStatus, FirstSnapshot, Started, StartFails, RecordFailure,
       NoteFailure, Work, FinishWork, AskToStop, Abort, EndDrain, RecordStop, HoldsNothing,
       RetakeRefused, CheckWriter, RecordLockLoss
  <2>2. QED
    BY <2>1
<1>4. QED
  BY <1>1, <1>2, <1>3 DEF Action

(* What a file tells of is one whom it names. *)
LEMMA CarriedNames ==
  ASSUME NEW s \in Report
  PROVE  CarriedOver(s).of \in {s.by, s.stop.of}
BY DEF CarriedOver, Report, Stop

(* What becomes of the actor's report, in a word. *)
Tells(w) ==
  \/ report'[w].stop = report[w].stop
  \/ (ReadStatus(w) \/ NoteFailure(w)) /\ report'[w].stop = CarriedOver(status)
  \/ (RecordStop(w) \/ RecordLockLoss(w)) /\ report'[w].stop = [of |-> w, how |-> "stopped"]

LEMMA ReportFacts ==
  ASSUME TypeOK, QuietInv, NEW w \in Worker, Action(w)
  PROVE  /\ report'[w] \in Report /\ status \in Report /\ report[w] \in Report
         /\ report'[w].by = report[w].by
         /\ was'[w] = was[w] \/ (ReadStatus(w) /\ was'[w] = status.by)
         /\ Tells(w)
         /\ RecordStop(w) \/ RecordLockLoss(w) =>
              report'[w].stop = [of |-> w, how |-> "stopped"]
         /\ ReadStatus(w) \/ NoteFailure(w) => report'[w].stop = CarriedOver(status)
<1>1. report[w] \in Report /\ status \in Report
  BY DEF TypeOK
<1>2. TypeOK'
  BY StartupType, DrainType DEF Action
<1>3. report'[w] \in Report
  BY <1>2 DEF TypeOK
<1>4. /\ report'[w].by = report[w].by
      /\ was'[w] = was[w] \/ (ReadStatus(w) /\ was'[w] = status.by)
      /\ Tells(w)
  <2>1. CASE report'[w] = report[w] /\ was'[w] = was[w]
    BY <2>1 DEF Tells
  <2>2. CASE ReadStatus(w) /\ was'[w] = status.by
             /\ report'[w] = [report[w] EXCEPT !.stop = CarriedOver(status)]
    BY <1>1, <2>2 DEF Tells, Report
  <2>3. CASE report'[w] = [report[w] EXCEPT !.failed = TRUE] /\ was'[w] = was[w]
    BY <1>1, <2>3 DEF Tells, Report
  <2>4. CASE NoteFailure(w) /\ was'[w] = was[w]
             /\ report'[w] = [report[w] EXCEPT !.stop = CarriedOver(status), !.failed = TRUE]
    BY <1>1, <2>4 DEF Tells, Report
  <2>5. CASE (RecordStop(w) \/ RecordLockLoss(w)) /\ was'[w] = was[w]
             /\ report'[w].by = report[w].by /\ report'[w].stop = [of |-> w, how |-> "stopped"]
    BY <2>5 DEF Tells
  <2>6. QED
    BY StepReports, <2>1, <2>2, <2>3, <2>4, <2>5 DEF Reported
<1>10. RecordStop(w) \/ RecordLockLoss(w) => report'[w].stop = [of |-> w, how |-> "stopped"]
  BY <1>1, <1>3 DEF RecordStop, RecordLockLoss, OwnStop, TypeOK, Report
<1>11. ReadStatus(w) \/ NoteFailure(w) => report'[w].stop = CarriedOver(status)
  BY <1>1, <1>3 DEF ReadStatus, NoteFailure, TypeOK, Report
<1>12. QED
  BY <1>1, <1>3, <1>4, <1>10, <1>11

(* Of whose stop it is. *)
LEMMA OwnFacts ==
  ASSUME TypeOK, QuietInv, NEW w \in Worker, Action(w)
  PROVE  /\ report'[w].stop.of \in {report[w].stop.of, CarriedOver(status).of, w}
         /\ RecordStop(w) \/ RecordLockLoss(w) => Own(w)'
         /\ ~ReadStatus(w) /\ ~NoteFailure(w) /\ Own(w) => Own(w)'
<1> DEFINE mine == [of |-> w, how |-> "stopped"]
<1>1. mine.of = w
  OBVIOUS
<1>2. /\ Tells(w)
      /\ RecordStop(w) \/ RecordLockLoss(w) => report'[w].stop = mine
  BY ReportFacts
<1> HIDE DEF mine
<1>3. \/ report'[w].stop = report[w].stop
      \/ (ReadStatus(w) \/ NoteFailure(w)) /\ report'[w].stop = CarriedOver(status)
      \/ report'[w].stop = mine
  BY <1>2 DEF Tells, mine
<1>4. QED
  BY <1>1, <1>2, <1>3 DEF Own

LEMMA UnheardStep ==
  ASSUME TypeOK, QuietInv, BeginInv, UnheardInv, NEW w \in Worker, Action(w)
  PROVE  UnheardInv'
<1>r. report'[w] \in Report /\ status \in Report
  BY ReportFacts
<1>b. report'[w].by = w
  BY ReportFacts DEF BeginInv
<1>s. \A v \in Worker \ {w} : Bystander(v)
  BY StepBystanders
<1>1. \A v \in Worker \ {w} : before[v] = v => report'[w].stop.of # v /\ was'[w] # v
  <2>1. ASSUME NEW v \in Worker \ {w}, before[v] = v
        PROVE  report'[w].stop.of # v /\ was'[w] # v
    <3>1. Unheard(v)
      BY <2>1 DEF UnheardInv
    <3>2. status.by # v /\ CarriedOver(status).of # v
      BY <3>1, <1>r, CarriedNames DEF Unheard
    <3>3. report[w].stop.of # v /\ was[w] # v
      BY <3>1 DEF Unheard
    <3>4. QED
      <4>1. was'[w] # v
        BY <3>2, <3>3, ReportFacts
      <4>2. report'[w].stop.of # v
        BY <2>1, <3>2, <3>3, OwnFacts
      <4>3. QED
        BY <4>1, <4>2
  <2>2. QED
    BY <2>1
<1>2. CASE FileKept
  <2>0. /\ status' = status /\ latest' = latest /\ before' = before
        /\ stopped' = stopped
    BY <1>2, FileKeptFacts
  <2>1. ASSUME NEW v \in Worker, before[v] = v
        PROVE  Unheard(v)'
    <3>0. Unheard(v)
      BY <2>1 DEF UnheardInv
    <3>1. was'[w] # v
      <4>1. CASE v # w
        BY <4>1, <2>1, <1>1
      <4>2. CASE v = w
        BY <4>2, <3>0, StepReports DEF Reported, Unheard
      <4>3. QED
        BY <4>1, <4>2
    <3>2. v # w => report'[w].stop.of # v
      BY <2>1, <1>1
    <3>3. QED
      BY <3>0, <3>1, <3>2, <2>0, <1>s DEF Unheard, Bystander
  <2>2. QED
    BY <2>0, <2>1 DEF UnheardInv
<1>3. CASE WriteStatus(w, report'[w])
  <2>0. /\ status' = report'[w]
        /\ \A v \in Worker \ {w} : before'[v] = before[v]
        /\ before'[w] = IF before[w] = w THEN latest ELSE before[w]
        /\ latest' \in {latest, before[w], w}
        /\ stopped' \subseteq stopped \union {w}
    BY <1>3, <1>r, WriteHistory
  <2>1. before'[w] # w
    BY <2>0 DEF UnheardInv, Unheard
  <2>2. ASSUME NEW v \in Worker \ {w}, before[v] = v
        PROVE  Unheard(v)'
    <3>1. Unheard(v)
      BY <2>2 DEF UnheardInv
    <3>2. before'[w] # v /\ latest' # v
      BY <2>0, <3>1 DEF Unheard
    <3>3. report'[w].stop.of # v /\ was'[w] # v
      BY <2>2, <1>1
    <3>4. QED
      BY <2>0, <3>1, <3>2, <3>3, <1>s, <1>b DEF Unheard, Bystander
  <2>3. status'.by # NoOne
    BY <2>0, <1>b
  <2>4. QED
    BY <2>0, <2>1, <2>2, <2>3 DEF UnheardInv
<1>4. QED
  BY <1>2, <1>3, WriteOrKeep

LEMMA BeginStep ==
  ASSUME TypeOK, QuietInv, HoldInv, BeginInv, UnheardInv, NEW w \in Worker, Action(w)
  PROVE  BeginInv'
<1>r. report'[w] \in Report /\ status \in Report /\ report[w] \in Report
  BY ReportFacts
<1>s. \A v \in Worker \ {w} : Bystander(v)
  BY StepBystanders
<1>f. FileKept \/ (WriteStatus(w, report'[w]) /\ WriteKind(w))
  BY WritersAre
<1>h. /\ \A v \in Worker \ {w} : before'[v] = before[v] /\ (v \in stopped' <=> v \in stopped)
      /\ before'[w] = before[w] \/ (before[w] = w /\ before'[w] = latest)
      /\ w \in stopped' => w \in stopped \/ Own(w)'
      /\ stopped \subseteq stopped'
  <2>1. CASE FileKept
    BY <2>1, FileKeptFacts
  <2>2. CASE WriteStatus(w, report'[w])
    BY <2>2, <1>r, WriteHistory DEF Own
  <2>3. QED
    BY <1>f, <2>1, <2>2
<1>1. ASSUME NEW v \in Worker \ {w}
      PROVE  /\ step'[v] \in {"off", "noting"} \/ op'[v] = "lock" => before'[v] = v
             /\ step'[v] = "off" \/ op'[v] = "lock" =>
                  v \notin held' \union robbed' /\ ~Own(v)'
             /\ op'[v] = "read" /\ before'[v] # v => Own(v)' /\ v \in stopped'
             /\ Own(v)' \/ v \in stopped' => step'[v] \in Ending
             /\ report'[v].by = v
             /\ step'[v] \notin Ending => was'[v] # v
  <2>1. step[v] = "off" \/ op[v] = "lock" => v \notin held' \union robbed'
    BY LeaseGains DEF BeginInv
  <2>2. QED
    BY <2>1, <1>s, <1>h DEF BeginInv, Bystander, Own
<1>2. step'[w] \in {"off", "noting"} \/ op'[w] = "lock" => before'[w] = w
  <2>1. CASE FileKept
    BY <2>1, FileKeptFacts, StepMoves DEF Moved, BeginInv
  <2>2. CASE WriteKind(w)
    <3>1. CASE op[w] \in {"carry", "start", "work", "fail"} /\ step'[w] = step[w]
               /\ op'[w] \in {"start", "none", "leave"}
      BY <3>1 DEF QuietInv
    <3>2. CASE step[w] = "noting" /\ step'[w] = "releasing" /\ op'[w] = op[w]
      BY <3>2 DEF QuietInv
    <3>3. CASE step[w] = "stopped" /\ w \in held /\ step'[w] = "releasing" /\ op'[w] = op[w]
      BY <3>3 DEF BeginInv
    <3>4. CASE step[w] = "recording" /\ step'[w] = "releasing" /\ op'[w] = op[w]
      BY <3>4 DEF BeginInv, HoldInv
    <3>5. QED
      BY <2>2, <3>1, <3>2, <3>3, <3>4 DEF WriteKind
  <2>3. QED
    BY <1>f, <2>1, <2>2
<1>3. step'[w] = "off" \/ op'[w] = "lock" => w \notin held' \union robbed' /\ ~Own(w)'
  <2>1. ASSUME step'[w] = "off" \/ op'[w] = "lock"
        PROVE  step[w] = "off" \/ op[w] = "lock"
    BY <2>1, StepMoves DEF Moved
  <2>2. ASSUME step[w] = "off" \/ op[w] = "lock", step'[w] = "off" \/ op'[w] = "lock"
        PROVE  w \notin held' \union robbed' /\ ~Own(w)'
    <3>1. w \notin held \union robbed /\ ~Own(w)
      BY <2>2 DEF BeginInv
    <3>2. ~(AcquireLock(w) \/ Rob(w) \/ TakeToNote(w) \/ Retake(w))
      BY <2>2, <3>1 DEF AcquireLock, Rob, TakeToNote, Retake, OpTo, StepTo, lifeVars, TypeOK, HoldInv
    <3>3. w \notin held' \union robbed'
      BY <3>1, <3>2, LeaseGains
    <3>4. ~ReadStatus(w) /\ ~StartFails(w) /\ ~NoteFailure(w) /\ ~RecordStop(w)
      BY <2>2, <3>1 DEF ReadStatus, StartFails, NoteFailure, RecordStop, TypeOK, QuietInv
    <3>5. ~RecordLockLoss(w)
      BY <3>1 DEF RecordLockLoss, HoldInv
    <3>6. QED
      BY <3>1, <3>3, <3>4, <3>5, StepReports DEF Reported, Own
  <2>3. QED
    BY <2>1, <2>2
<1>4. op'[w] = "read" /\ before'[w] # w => Own(w)' /\ w \in stopped'
  <2>1. ASSUME op'[w] = "read", before'[w] # w, before[w] # w
        PROVE  Own(w)' /\ w \in stopped'
    <3>1. op[w] = "read"
      BY <2>1, StepMoves DEF Moved, BeginInv
    <3>2. Own(w) /\ w \in stopped
      BY <3>1, <2>1 DEF BeginInv
    <3>3. step[w] \in Ending /\ step[w] # "noting"
      BY <3>2 DEF BeginInv, Ending
    <3>4. ~ReadStatus(w) /\ ~NoteFailure(w) /\ ~StartFails(w)
      BY <2>1, <3>1, <3>3 DEF ReadStatus, OpTo, NoteFailure, StartFails, TypeOK
    <3>5. QED
      BY <3>2, <3>4, <1>h, OwnFacts
  <2>2. ASSUME op'[w] = "read", before'[w] # before[w]
        PROVE  Own(w)' /\ w \in stopped'
    <3>1. WriteStatus(w, report'[w]) /\ WriteKind(w)
      BY <2>2, <1>f, FileKeptFacts
    <3>2. RecordStop(w) \/ RecordLockLoss(w)
      BY <2>2, <3>1 DEF WriteKind, QuietInv
    <3>3. report'[w].stop.of = w
      BY <3>2, OwnFacts DEF Own
    <3>4. QED
      BY <3>1, <3>3, <1>r, WriteHistory DEF Own
  <2>3. QED
    BY <2>1, <2>2
<1>5. Own(w)' \/ w \in stopped' => step'[w] \in Ending
  <2>1. CASE step[w] \in Ending
    BY <2>1, StepMoves DEF Moved
  <2>2. CASE step[w] \notin Ending
    <3>1. ~Own(w) /\ w \notin stopped
      BY <2>2 DEF BeginInv
    <3>2. ReadStatus(w) => ~Own(w)'
      <4>1. ASSUME ReadStatus(w)
            PROVE  Unheard(w)
        BY <4>1, <3>1 DEF ReadStatus, BeginInv, UnheardInv
      <4>2. ASSUME ReadStatus(w)
            PROVE  CarriedOver(status).of # w
        BY <4>1, <4>2, <1>r, CarriedNames DEF Unheard
      <4>3. QED
        BY <4>2 DEF ReadStatus, Own, TypeOK
    <3>3. NoteFailure(w) \/ RecordStop(w) \/ RecordLockLoss(w) => step'[w] \in Ending
      BY DEF NoteFailure, RecordStop, RecordLockLoss, StepTo, TypeOK, Ending
    <3>4. StartFails(w) => ~Own(w)'
      BY <3>1 DEF StartFails, Own, TypeOK, Report
    <3>5. QED
      BY <3>1, <3>2, <3>3, <3>4, <1>h, StepReports DEF Reported, Own
  <2>3. QED
    BY <2>1, <2>2
<1>6. report'[w].by = w
  BY ReportFacts DEF BeginInv
<1>7. step'[w] \notin Ending => was'[w] # w
  <2>1. ASSUME step'[w] \notin Ending
        PROVE  step[w] \notin Ending
    BY <2>1, StepMoves DEF Moved
  <2>2. ASSUME step[w] \notin Ending, ReadStatus(w)
        PROVE  status.by # w
    BY <2>2 DEF ReadStatus, BeginInv, UnheardInv, Unheard
  <2>3. QED
    BY <2>1, <2>2, StepReports DEF Reported, BeginInv
<1>8. QED
  BY <1>1, <1>2, <1>3, <1>4, <1>5, <1>6, <1>7 DEF BeginInv

-----------------------------------------------------------------------------
(* What the file tells. *)

(* Who writes in order may, and writes its own stop, or whom it follows. *)
LEMMA WriterTells ==
  ASSUME TypeOK, QuietInv, HoldInv, BeginInv, UnheardInv, ToldInv, NEW w \in Worker, Action(w),
         WriteStatus(w, report'[w]), WriteKind(w), orderly'
  PROVE  /\ orderly /\ lock = w /\ MayRecord(w) /\ RecordInv(w)
         /\ Own(w)' => report'[w].stop.how = "stopped"
         /\ ~Own(w)' => /\ report'[w].stop = Told(Prior(w)) /\ w \notin stopped
                        /\ Reports(w)' => op[w] \in {"carry", "start", "fail", "work"}
         /\ step[w] = "noting" => before[w] = w /\ ~Own(w)' /\ report'[w].failed
<1>r. /\ report'[w] \in Report /\ status \in Report /\ report[w] \in Report
      /\ RecordStop(w) \/ RecordLockLoss(w) =>
           report'[w].stop = [of |-> w, how |-> "stopped"]
      /\ NoteFailure(w) => report'[w].stop = CarriedOver(status)
  BY ReportFacts
<1>o. orderly /\ lock = w /\ (w \in robbed => report'[w].stop.of = w)
  BY <1>r, WriteHistory
<1>t. CarriedOver(status) = Told(latest) /\ (MayRecord(w) => RecordInv(w))
  BY <1>o DEF ToldInv
<1>1. CASE op[w] \in {"carry", "start", "work", "fail"} /\ report'[w] = report[w]
  <2>1. Own(w)' <=> Own(w)
    BY <1>1 DEF Own
  <2>2. MayRecord(w)
    BY <1>o, <2>1 DEF MayRecord, Own
  <2>3. RecordInv(w) /\ Reports(w)
    BY <1>1, <1>t, <2>2 DEF Reports
  <2>4. ~Own(w) => w \notin robbed
    BY <1>o, <1>1 DEF Own
  <2>5. step[w] # "noting"
    BY <1>1 DEF QuietInv
  <2>6. QED
    BY <1>o, <1>1, <2>1, <2>2, <2>3, <2>4, <2>5 DEF RecordInv
<1>2. CASE step[w] = "noting" /\ NoteFailure(w) /\ step'[w] = "releasing" /\ op'[w] = op[w]
  <2>1. before[w] = w /\ Unheard(w)
    BY <1>2 DEF BeginInv, UnheardInv
  <2>2. ~Own(w)'
    BY <1>2, <1>r, <2>1, CarriedNames DEF Unheard, Own
  <2>3. MayRecord(w)
    BY <1>o, <2>2 DEF MayRecord, Own
  <2>4. report'[w].stop = Told(Prior(w))
    BY <1>2, <1>r, <1>t, <2>1 DEF Prior
  <2>5. report'[w].failed
    BY <1>2, <1>r DEF NoteFailure, TypeOK, Report
  <2>6. ~Reports(w)'
    BY <1>2 DEF Reports, QuietInv
  <2>7. QED
    BY <1>o, <1>t, <2>1, <2>2, <2>3, <2>4, <2>5, <2>6 DEF Unheard
<1>3. CASE (step[w] = "stopped" /\ w \in held /\ RecordStop(w))
           \/ (step[w] = "recording" /\ RecordLockLoss(w))
  <2>1. report'[w].stop.of = w /\ report'[w].stop.how = "stopped"
    BY <1>3, <1>r
  <2>2. MayRecord(w)
    BY <1>o, <1>3 DEF MayRecord, HoldInv
  <2>3. QED
    BY <1>o, <1>t, <1>3, <2>1, <2>2 DEF Own
<1>4. QED
  BY <1>1, <1>2, <1>3 DEF WriteKind

LEMMA ToldWrite ==
  ASSUME TypeOK, QuietInv, HoldInv, BeginInv, UnheardInv, ToldInv, BeginInv',
         NEW w \in Worker, Action(w), WriteStatus(w, report'[w]), WriteKind(w)
  PROVE  ToldInv'
<1> SUFFICES ASSUME orderly'
             PROVE  /\ CarriedOver(status') = Told(latest)'
                    /\ \A v \in Worker : NoReturn(v)' /\ (MayRecord(v)' => RecordInv(v)')
  BY DEF ToldInv
<1> DEFINE r == report'[w]
<1>r. r \in Report /\ r.by = w
  BY ReportFacts DEF BeginInv
<1>w. /\ orderly /\ lock = w /\ MayRecord(w) /\ RecordInv(w)
      /\ Own(w)' => r.stop.how = "stopped"
      /\ ~Own(w)' => /\ r.stop = Told(Prior(w)) /\ w \notin stopped
                     /\ Reports(w)' => op[w] \in {"carry", "start", "fail", "work"}
      /\ step[w] = "noting" => before[w] = w /\ ~Own(w)' /\ r.failed
  BY WriterTells
<1>o. Own(w)' <=> r.stop.of = w
  BY DEF Own
<1>h. /\ status' = r
      /\ \A v \in Worker \ {w} : before'[v] = before[v]
      /\ before'[w] = Prior(w)
      /\ latest' = IF r.failed /\ r.stop.of # w
                     THEN IF latest = w THEN before[w] ELSE latest
                     ELSE IF before[w] \in {w, latest} THEN w ELSE latest
      /\ stopped' = stopped \union (IF r.stop.of = w THEN {w} ELSE {})
  BY <1>r, WriteHistory DEF Prior
<1>l. lock' = lock /\ robbed' = robbed
  BY DEF WriteKind, leaseVars
<1>s. \A v \in Worker \ {w} : Bystander(v)
  BY StepBystanders
<1>p. Prior(w) # w
  BY DEF Prior, UnheardInv, Unheard
<1> HIDE DEF r
<1>1. r.failed /\ ~Own(w)' => latest' = Prior(w)
  BY <1>h, <1>o, <1>w DEF RecordInv, Foremost, Prior, UnheardInv, Unheard
<1>2. ~(r.failed /\ ~Own(w)') => latest' = w
  BY <1>h, <1>o, <1>w DEF RecordInv, Foremost
<1>3. CarriedOver(status') = Told(latest)'
  <2>1. CASE Own(w)'
    <3>1. r.stop = [of |-> w, how |-> "stopped"]
      BY <1>r, <1>o, <1>w, <2>1 DEF Report, Stop
    <3>2. CarriedOver(status') = r.stop
      BY <1>h, <1>r, <1>o, <2>1 DEF CarriedOver
    <3>3. latest' = w /\ w \in stopped'
      BY <1>2, <1>h, <1>o, <2>1
    <3>4. QED
      BY <3>1, <3>2, <3>3 DEF Told
  <2>2. CASE ~Own(w)' /\ ~r.failed
    <3>1. CarriedOver(status') = [of |-> w, how |-> "killed"]
      BY <1>h, <1>r, <1>o, <2>2 DEF CarriedOver
    <3>2. latest' = w /\ w \notin stopped'
      BY <1>2, <1>h, <1>o, <1>w, <2>2
    <3>3. QED
      BY <3>1, <3>2 DEF Told
  <2>3. CASE ~Own(w)' /\ r.failed
    <3>1. CarriedOver(status') = r.stop
      BY <1>h, <2>3 DEF CarriedOver
    <3>2. latest' = Prior(w) /\ stopped' = stopped
      BY <1>1, <1>h, <1>o, <2>3
    <3>3. QED
      BY <3>1, <3>2, <1>w, <2>3 DEF Told
  <2>4. QED
    BY <2>1, <2>2, <2>3
<1>4. Foremost(w)'
  BY <1>1, <1>2, <1>h DEF Foremost
<1>5. \A v \in Worker : NoReturn(v)'
  <2>1. ASSUME NEW v \in Worker \ {w}
        PROVE  NoReturn(v)'
    BY <1>h, <1>r, <1>s, <1>w DEF NoReturn, RecordInv, Bystander
  <2>2. NoReturn(w)'
    BY <1>4, <1>h, <1>r DEF NoReturn, BeginInv
  <2>3. QED
    BY <2>1, <2>2
<1>6. \A v \in Worker \ {w} : ~MayRecord(v)'
  BY <1>l, <1>w DEF MayRecord
<1>7. RecordInv(w)'
  <2>1. \A v \in Worker \ {w} : step'[v] \notin Ending /\ before'[v] # v => was'[v] # w
    BY <1>h, <1>s, <1>w DEF RecordInv, Bystander
  <2>2. w \in stopped' => latest' = w /\ (op'[w] \notin {"none", "lock", "read"} => Own(w)')
    BY <1>2, <1>h, <1>o, <1>w
  <2>3. Own(w)' => report'[w].stop.how = "stopped"
    BY <1>w DEF r
  <2>4. Reports(w)' /\ ~Own(w)' => report'[w].stop = Told(Prior(w))'
    <3>1. Prior(w)' = Prior(w)
      BY <1>h, <1>p DEF Prior
    <3>2. ~Own(w)' => stopped' = stopped
      BY <1>h, <1>o
    <3>3. QED
      BY <3>1, <3>2, <1>w DEF r, Told
  <2>5. QED
    BY <1>4, <2>1, <2>2, <2>3, <2>4 DEF RecordInv
<1>8. QED
  BY <1>3, <1>5, <1>6, <1>7

(* Steps that neither take the lock nor make up the report. *)
Plain(w) ==
  \/ Boot(w) \/ Refused(w) \/ FirstSnapshot(w) \/ Started(w) \/ StartFails(w)
  \/ RecordFailure(w) \/ LeaveStart(w) \/ Work(w) \/ FinishWork(w) \/ NoticeLoss(w)
  \/ MissRefresh(w) \/ AskToStop(w) \/ Abort(w) \/ EndDrain(w) \/ HoldsNothing(w)
  \/ RetakeRefused(w) \/ ReleaseLock(w) \/ Exit(w) \/ Crash(w)

LEMMA PlainFacts ==
  ASSUME TypeOK, QuietInv, NEW w \in Worker, Plain(w)
  PROVE  /\ report'[w].stop = report[w].stop /\ was'[w] = was[w]
         /\ step'[w] = "recording" => step[w] = "recording"
         /\ Reports(w)' => Reports(w)
         /\ op'[w] \notin {"none", "lock", "read"} =>
              op[w] \notin {"none", "lock", "read"} \/ step[w] = "live"
         /\ lock' \in {lock, NoOne}
<1> USE DEF StepTo, OpTo, lifeVars, TypeOK, QuietInv, Reports
<1>r. report'[w].stop = report[w].stop /\ was'[w] = was[w]
  <2>1. Action(w)
    BY DEF Plain, Action
  <2>2. ~ReadStatus(w)
    BY DEF Plain, ReadStatus, Boot, Refused, FirstSnapshot, Started, StartFails, RecordFailure,
       LeaveStart, Work, FinishWork, NoticeLoss, MissRefresh, AskToStop, Abort, EndDrain,
       HoldsNothing, RetakeRefused, ReleaseLock, Exit, Crash, OnCompromised
  <2>3. ~NoteFailure(w) /\ ~RecordStop(w) /\ ~RecordLockLoss(w)
    BY DEF Plain, NoteFailure, RecordStop, RecordLockLoss, Boot, Refused, FirstSnapshot, Started,
       StartFails, RecordFailure, LeaveStart, Work, FinishWork, NoticeLoss, MissRefresh,
       AskToStop, Abort, EndDrain, HoldsNothing, RetakeRefused, ReleaseLock, Exit, Crash,
       OnCompromised
  <2>4. QED
    BY <2>1, <2>2, <2>3, ReportFacts DEF Tells
<1> DEFINE Where ==
      /\ step'[w] = "recording" => step[w] = "recording"
      /\ Reports(w)' => Reports(w)
      /\ op'[w] \notin {"none", "lock", "read"} =>
           op[w] \notin {"none", "lock", "read"} \/ step[w] = "live"
<1>1. ASSUME \/ Boot(w) \/ Refused(w) \/ FirstSnapshot(w) \/ Started(w) \/ StartFails(w)
             \/ RecordFailure(w) \/ LeaveStart(w) \/ Work(w) \/ FinishWork(w)
      PROVE  Where
  BY <1>1, <1>r DEF Boot, Refused, FirstSnapshot, Started, StartFails, RecordFailure,
     LeaveStart, Work, FinishWork
<1>2. ASSUME \/ NoticeLoss(w) \/ MissRefresh(w) \/ AskToStop(w) \/ Abort(w) \/ EndDrain(w)
             \/ HoldsNothing(w) \/ RetakeRefused(w) \/ ReleaseLock(w) \/ Exit(w) \/ Crash(w)
      PROVE  Where
  BY <1>2, <1>r DEF NoticeLoss, MissRefresh, OnCompromised, AskToStop, Abort, EndDrain,
     HoldsNothing, RetakeRefused, ReleaseLock, Exit, Crash
<1>3. lock' \in {lock, NoOne}
  BY DEF Plain, Boot, Refused, FirstSnapshot, Started, StartFails, RecordFailure, LeaveStart,
     Work, FinishWork, NoticeLoss, MissRefresh, AskToStop, Abort, EndDrain, HoldsNothing,
     RetakeRefused, ReleaseLock, Exit, Crash, GiveBack, leaseVars
<1>4. QED
  BY <1>r, <1>1, <1>2, <1>3 DEF Plain

(* Where the file is kept: what its actor may write from now on. *)
LEMMA ActorKept ==
  ASSUME TypeOK, QuietInv, HoldInv, BeginInv, UnheardInv, ToldInv,
         NEW w \in Worker, Action(w), FileKept, orderly, MayRecord(w)'
  PROVE  RecordInv(w)'
<1>k. /\ status' = status /\ latest' = latest /\ before' = before /\ stopped' = stopped
  BY FileKeptFacts
<1>t. /\ CarriedOver(status) = Told(latest) /\ (MayRecord(w) => RecordInv(w))
      /\ \A v \in Worker : NoReturn(v)
  BY DEF ToldInv
<1>s. \A v \in Worker \ {w} : step'[v] = step[v] /\ was'[v] = was[v] /\ report'[v] = report[v]
  BY StepBystanders DEF Bystander
<1>p. /\ Foremost(w)' <=> Foremost(w)
      /\ Told(Prior(w))' = Told(Prior(w))
  BY <1>k DEF Foremost, Told, Prior
<1>l. /\ lock' = w
      /\ w \notin robbed' \/ step'[w] = "recording" \/ Own(w)'
      /\ robbed \subseteq robbed'
      /\ lock = w \/ AcquireLock(w) \/ Rob(w) \/ TakeToNote(w) \/ Retake(w)
  BY LeaseGains DEF MayRecord
<1>f. /\ report'[w] \in Report /\ status \in Report /\ report[w] \in Report
      /\ RecordStop(w) \/ RecordLockLoss(w) =>
           report'[w].stop = [of |-> w, how |-> "stopped"]
      /\ ReadStatus(w) \/ NoteFailure(w) => report'[w].stop = CarriedOver(status)
  BY ReportFacts
<1>n. ASSUME before[w] = w
      PROVE  /\ Foremost(w)' /\ w \notin stopped'
             /\ \A v \in Worker \ {w} : step'[v] \notin Ending /\ before'[v] # v => was'[v] # w
  BY <1>n, <1>k, <1>s DEF UnheardInv, Unheard, Foremost
<1>1. CASE AcquireLock(w) \/ Rob(w) \/ TakeToNote(w)
  <2>1. step[w] = "off" \/ op[w] = "lock"
    BY <1>1 DEF AcquireLock, Rob, TakeToNote
  <2>2. before[w] = w /\ ~Own(w)
    BY <2>1 DEF BeginInv
  <2>3. ~Own(w)'
    BY <1>1, <2>2 DEF AcquireLock, Rob, TakeToNote, statusVars, Own
  <2>4. ~Reports(w)'
    BY <1>1 DEF AcquireLock, Rob, TakeToNote, StepTo, OpTo, TypeOK, QuietInv, Reports
  <2>5. QED
    BY <1>n, <2>2, <2>3, <2>4 DEF RecordInv
<1>2. CASE Retake(w)
  <2>1. step[w] = "retaking" /\ step'[w] = "checking" /\ Own(w)' = Own(w) /\ w \in robbed
    BY <1>2 DEF Retake, StepTo, TypeOK, statusVars, Own, HoldInv
  <2>2. QED
    BY <1>l, <2>1 DEF BeginInv, Ending
<1>3. CASE CheckWriter(w)
  <2>1. /\ step[w] = "checking" /\ Own(w)' = Own(w) /\ w \in robbed
        /\ step'[w] = "recording" => status.by \in {NoOne, w, was[w]}
    BY <1>3 DEF CheckWriter, StepTo, TypeOK, statusVars, Own, HoldInv
  <2>2. ~Own(w)' /\ w \notin stopped' /\ w \in robbed' /\ step[w] \notin Ending
    BY <1>k, <1>l, <2>1 DEF BeginInv, Ending
  <2>3. status.by \in {NoOne, w, was[w]}
    BY <1>l, <2>1, <2>2
  <2>4. CASE before[w] # w
    <3>1. status.by = w
      BY <1>t, <2>2, <2>3, <2>4 DEF NoReturn, UnheardInv
    <3>2. Foremost(w)'
      BY <1>t, <1>p, <3>1 DEF NoReturn
    <3>3. \A v \in Worker \ {w} : step'[v] \notin Ending /\ before'[v] # v => was'[v] # w
      BY <1>t, <1>k, <1>s, <3>1 DEF NoReturn
    <3>4. QED
      BY <2>2, <3>2, <3>3 DEF RecordInv
  <2>5. CASE before[w] = w
    BY <1>n, <2>2, <2>5 DEF RecordInv
  <2>6. QED
    BY <2>4, <2>5
<1>4. CASE ReadStatus(w)
  <2>1. op[w] = "read" /\ step'[w] = step[w] /\ lock = w /\ robbed' = robbed
    BY <1>4, <1>l DEF ReadStatus, leaseVars
  <2>2. CASE before[w] = w
    <3>1. ~Own(w)'
      BY <1>4, <1>f, <2>2, CarriedNames DEF UnheardInv, Unheard, Own
    <3>2. report'[w].stop = Told(Prior(w))'
      BY <1>4, <1>f, <1>t, <1>p, <2>2 DEF Prior
    <3>3. QED
      BY <1>n, <2>2, <3>1, <3>2 DEF RecordInv
  <2>3. CASE before[w] # w
    <3>1. Own(w) /\ w \in stopped
      BY <2>1, <2>3 DEF BeginInv
    <3>2. RecordInv(w)
      BY <1>t, <2>1, <3>1 DEF MayRecord
    <3>3. latest = w
      BY <3>1, <3>2 DEF RecordInv
    <3>4. report'[w].stop = [of |-> w, how |-> "stopped"]
      BY <1>4, <1>f, <1>t, <3>1, <3>3 DEF Told
    <3>5. Own(w)' /\ report'[w].stop.how = "stopped"
      BY <3>4 DEF Own
    <3>6. QED
      BY <1>k, <1>s, <1>p, <3>2, <3>3, <3>5 DEF RecordInv
  <2>4. QED
    BY <2>2, <2>3
<1>5. CASE NoteFailure(w)
  <2>1. before[w] = w
    BY <1>5 DEF NoteFailure, BeginInv
  <2>2. ~Own(w)'
    BY <1>5, <1>f, <2>1, CarriedNames DEF UnheardInv, Unheard, Own
  <2>3. ~Reports(w)'
    BY <1>5 DEF NoteFailure, StepTo, TypeOK, QuietInv, Reports
  <2>4. QED
    BY <1>n, <2>1, <2>2, <2>3 DEF RecordInv
<1>6. CASE RecordStop(w) \/ RecordLockLoss(w)
  <2>1. Own(w)' /\ report'[w].stop.how = "stopped"
    BY <1>6, <1>f DEF Own
  <2>2. lock = w /\ (step[w] = "recording" \/ (step[w] = "stopped" /\ w \in held))
    BY <1>6, <1>l DEF RecordStop, RecordLockLoss, leaseVars
  <2>3. RecordInv(w)
    BY <1>t, <2>2 DEF MayRecord, HoldInv
  <2>4. QED
    BY <1>k, <1>s, <1>p, <2>1, <2>3 DEF RecordInv
<1>7. CASE Plain(w)
  <2>1. /\ report'[w].stop = report[w].stop /\ was'[w] = was[w]
        /\ step'[w] = "recording" => step[w] = "recording"
        /\ Reports(w)' => Reports(w)
        /\ op'[w] \notin {"none", "lock", "read"} =>
             op[w] \notin {"none", "lock", "read"} \/ step[w] = "live"
        /\ lock' \in {lock, NoOne}
    BY <1>7, PlainFacts
  <2>2. Own(w)' <=> Own(w)
    BY <2>1 DEF Own
  <2>3. lock = w
    BY <1>l, <2>1
  <2>4. RecordInv(w)
    BY <1>t, <1>l, <2>1, <2>2, <2>3 DEF MayRecord
  <2>5. w \in stopped' => latest' = w /\ (op'[w] \notin {"none", "lock", "read"} => Own(w)')
    BY <1>k, <2>1, <2>2, <2>4 DEF RecordInv, BeginInv, Ending
  <2>6. Reports(w)' /\ ~Own(w)' /\ w \notin robbed' => report'[w].stop = Told(Prior(w))'
    BY <1>l, <1>p, <2>1, <2>2, <2>4 DEF RecordInv
  <2>7. QED
    BY <1>k, <1>s, <1>p, <2>1, <2>2, <2>4, <2>5, <2>6 DEF RecordInv
<1>8. QED
  BY <1>1, <1>2, <1>3, <1>4, <1>5, <1>6, <1>7 DEF Action, Plain

LEMMA ToldKept ==
  ASSUME TypeOK, QuietInv, HoldInv, BeginInv, UnheardInv, ToldInv, NEW w \in Worker, Action(w),
         FileKept
  PROVE  ToldInv'
<1> SUFFICES ASSUME orderly'
             PROVE  /\ CarriedOver(status') = Told(latest)'
                    /\ \A v \in Worker : NoReturn(v)' /\ (MayRecord(v)' => RecordInv(v)')
  BY DEF ToldInv
<1>k. /\ status' = status /\ latest' = latest /\ before' = before /\ stopped' = stopped
      /\ orderly
  BY FileKeptFacts
<1>t. /\ CarriedOver(status) = Told(latest)
      /\ \A v \in Worker : NoReturn(v) /\ (MayRecord(v) => RecordInv(v))
  BY <1>k DEF ToldInv
<1>s. \A v \in Worker \ {w} : Bystander(v)
  BY StepBystanders
<1>p. \A v \in Worker : /\ Foremost(v)' <=> Foremost(v)
                        /\ Told(Prior(v))' = Told(Prior(v))
  BY <1>k DEF Foremost, Told, Prior
<1>w. step'[w] \notin Ending /\ before[w] # w => step[w] \notin Ending /\ was'[w] = was[w]
  <2>1. ASSUME step'[w] \notin Ending, before[w] # w, ReadStatus(w)
        PROVE  FALSE
    BY <2>1 DEF ReadStatus, BeginInv
  <2>2. QED
    BY <2>1, StepMoves, ReportFacts DEF Moved
<1>1. CarriedOver(status') = Told(latest)'
  BY <1>k, <1>t DEF Told
<1>2. ASSUME NEW v \in Worker
      PROVE  NoReturn(v)'
  <2>1. CASE v = w
    BY <1>k, <1>t, <1>p, <1>w, <2>1 DEF NoReturn
  <2>2. CASE v # w
    BY <1>k, <1>t, <1>p, <1>s, <2>2 DEF NoReturn, Bystander
  <2>3. QED
    BY <2>1, <2>2
<1>3. ASSUME NEW v \in Worker \ {w}, MayRecord(v)'
      PROVE  RecordInv(v)'
  <2>1. MayRecord(v)
    BY <1>3, <1>s, LeaseGains DEF MayRecord, Bystander, Own
  <2>2. RecordInv(v)
    BY <2>1, <1>t
  <2>3. \A u \in Worker \ {v} : step'[u] \notin Ending /\ before'[u] # u => was'[u] # v
    BY <1>k, <1>s, <1>w, <2>2 DEF RecordInv, Bystander
  <2>4. /\ Own(v)' <=> Own(v)
        /\ Reports(v)' <=> Reports(v)
        /\ report'[v] = report[v] /\ op'[v] = op[v]
        /\ v \notin robbed' => v \notin robbed
    BY <1>s, LeaseGains DEF Bystander, Own, Reports
  <2>5. QED
    BY <1>k, <1>p, <2>2, <2>3, <2>4 DEF RecordInv
<1>4. MayRecord(w)' => RecordInv(w)'
  BY <1>k, ActorKept
<1>5. QED
  BY <1>1, <1>2, <1>3, <1>4
-----------------------------------------------------------------------------
LEMMA StopInvInit ==
  ASSUME Init
  PROVE  StopInv
<1>1. LeaseAndQuiet
  BY LeaseAndQuietInit
<1>2. HoldInv /\ BeginInv /\ UnheardInv
  BY DEF Init, HoldInv, BeginInv, UnheardInv, Unheard, Own, Ending, Blank, Nothing
<1>3. ToldInv
  BY DEF Init, ToldInv, NoReturn, MayRecord, Told, CarriedOver, Blank, Nothing
<1>4. QED
  BY <1>1, <1>2, <1>3 DEF StopInv

LEMMA StopInvStep ==
  ASSUME StopInv, [Next]_vars
  PROVE  StopInv'
<1> USE DEF StopInv
<1>1. LeaseAndQuiet'
  BY LeaseAndQuietStep
<1>2. TypeOK /\ QuietInv
  BY DEF LeaseAndQuiet
<1>3. ASSUME NEW w \in Worker, Action(w)
      PROVE  StopInv'
  <2>1. HoldInv'
    BY <1>2, <1>3, HoldStep
  <2>2. UnheardInv'
    BY <1>2, <1>3, UnheardStep
  <2>3. BeginInv'
    BY <1>2, <1>3, BeginStep
  <2>4. ToldInv'
    <3>1. CASE FileKept
      BY <1>2, <1>3, <3>1, ToldKept
    <3>2. CASE WriteStatus(w, report'[w]) /\ WriteKind(w)
      BY <1>2, <1>3, <2>3, <3>2, ToldWrite
    <3>3. QED
      BY <1>2, <1>3, <3>1, <3>2, WritersAre
  <2>5. QED
    BY <1>1, <2>1, <2>2, <2>3, <2>4
<1>4. CASE UNCHANGED vars
  <2>1. HoldInv' /\ BeginInv' /\ UnheardInv'
    BY <1>4 DEF vars, leaseVars, lifeVars, statusVars, HoldInv, BeginInv, UnheardInv, Unheard,
       Own
  <2>2. ToldInv'
    BY <1>4 DEF vars, leaseVars, lifeVars, statusVars, ToldInv, NoReturn, Foremost, MayRecord,
       RecordInv, Own, Reports, Told, Prior
  <2>3. QED
    BY <1>1, <2>1, <2>2
<1>5. QED
  BY <1>3, <1>4, NextSteps

(* What cms-worker.ts's starts, stops and late records of a lost lease keep  *)
(* true of the status file and of whoever may still write it.                *)
THEOREM StopInvHolds == Spec => []StopInv
BY StopInvInit, StopInvStep, PTL DEF Spec

(* Whatever crashes, starts that fail in a row, self-stops and late records   *)
(* there are, the file tells the next worker of the last one to run, and that *)
(* it stopped exactly when that is on record, for as long as only the lease's *)
(* owner has written (worker-status.ts:53, cms-worker.ts:960).                *)
THEOREM LastStopsAreTold == Spec => []LastStopIsTold
<1>1. StopInv => LastStopIsTold
  BY DEF StopInv, ToldInv, LastStopIsTold
<1>2. QED
  BY <1>1, StopInvHolds, PTL

-----------------------------------------------------------------------------
(* What keeps the writes in order. *)

(* A failed boot that is to be noted has the lock, or was robbed of it. *)
NotingInv == \A w \in Worker : step[w] = "noting" => w \in held \union robbed

OrderInv == NotingInv /\ (robbed \union cut = {} => orderly)

LEMMA NotingStep ==
  ASSUME TypeOK, HoldInv, NotingInv, NEW w \in Worker, Action(w)
  PROVE  NotingInv'
<1> USE DEF StepTo, leaseVars, lifeVars, TypeOK, NotingInv
<1>1. CASE AcquireLock(w) \/ Rob(w) \/ TakeToNote(w) \/ Retake(w)
  BY <1>1 DEF AcquireLock, Rob, TakeToNote, Retake, Take
<1>2. CASE NoticeLoss(w) \/ MissRefresh(w)
  BY <1>2 DEF NoticeLoss, MissRefresh, OnCompromised, HoldInv
<1>3. CASE LeaveStart(w) \/ ReleaseLock(w) \/ Exit(w) \/ Crash(w)
  BY <1>3 DEF LeaveStart, ReleaseLock, Exit, Crash, GiveBack, HoldInv
<1>4. CASE \/ Boot(w) \/ Refused(w) \/ ReadStatus(w) \/ FirstSnapshot(w) \/ Started(w)
           \/ StartFails(w) \/ RecordFailure(w) \/ NoteFailure(w) \/ Work(w) \/ FinishWork(w)
  BY <1>4 DEF Boot, Refused, ReadStatus, FirstSnapshot, Started, StartFails, RecordFailure,
     NoteFailure, Work, FinishWork
<1>5. CASE \/ AskToStop(w) \/ Abort(w) \/ EndDrain(w) \/ RecordStop(w) \/ HoldsNothing(w)
           \/ RetakeRefused(w) \/ CheckWriter(w) \/ RecordLockLoss(w)
  BY <1>5 DEF AskToStop, Abort, EndDrain, RecordStop, HoldsNothing, RetakeRefused,
     CheckWriter, RecordLockLoss
<1>6. QED
  BY <1>1, <1>2, <1>3, <1>4, <1>5 DEF Action

(* What is given up stays so. *)
LEMMA CutGrows ==
  ASSUME NEW w \in Worker, Action(w)
  PROVE  cut \subseteq cut'
<1>1. CASE \/ Boot(w) \/ AcquireLock(w) \/ Rob(w) \/ Refused(w) \/ ReadStatus(w)
           \/ FirstSnapshot(w) \/ Started(w) \/ StartFails(w) \/ RecordFailure(w)
           \/ LeaveStart(w) \/ TakeToNote(w) \/ NoteFailure(w) \/ Work(w) \/ FinishWork(w)
  BY <1>1 DEF Boot, AcquireLock, Rob, Refused, ReadStatus, FirstSnapshot, Started, StartFails,
     RecordFailure, LeaveStart, TakeToNote, NoteFailure, Work, FinishWork
<1>2. CASE \/ NoticeLoss(w) \/ MissRefresh(w) \/ AskToStop(w) \/ Abort(w) \/ EndDrain(w)
           \/ RecordStop(w) \/ HoldsNothing(w) \/ Retake(w) \/ RetakeRefused(w)
           \/ CheckWriter(w) \/ RecordLockLoss(w) \/ ReleaseLock(w) \/ Exit(w) \/ Crash(w)
  BY <1>2 DEF NoticeLoss, MissRefresh, OnCompromised, AskToStop, Abort, EndDrain, RecordStop,
     HoldsNothing, Retake, RetakeRefused, CheckWriter, RecordLockLoss, ReleaseLock, Exit, Crash
<1>3. QED
  BY <1>1, <1>2 DEF Action

LEMMA OrderStep ==
  ASSUME StopInv, OrderInv, [Next]_vars
  PROVE  OrderInv'
<1> USE DEF StopInv, LeaseAndQuiet, OrderInv
<1>1. ASSUME NEW w \in Worker, Action(w), robbed' \union cut' = {}
      PROVE  orderly'
  <2>1. robbed = {} /\ cut = {} /\ orderly
    BY <1>1, LeaseGains, CutGrows
  <2>2. CASE FileKept
    BY <2>1, <2>2 DEF FileKept
  <2>3. CASE WriteStatus(w, report'[w]) /\ WriteKind(w)
    <3>1. \/ op[w] \in {"carry", "start", "work", "fail"}
          \/ step[w] = "noting"
          \/ w \in held
          \/ step[w] = "recording"
      BY <2>3 DEF WriteKind
    <3>2. lock = w
      BY <2>1, <3>1 DEF LeaseInv, Engaged, HoldInv, NotingInv
    <3>3. QED
      BY <2>1, <2>3, <3>2 DEF WriteStatus
  <2>4. QED
    BY <1>1, <2>2, <2>3, WritersAre
<1>2. CASE Next
  BY <1>1, <1>2, NextSteps, NotingStep
<1>3. CASE UNCHANGED vars
  BY <1>3 DEF vars, leaseVars, lifeVars, statusVars, NotingInv
<1>4. QED
  BY <1>2, <1>3

(* As long as no worker has lost its lease and no drain has given work up,    *)
(* the file tells the next start who ran last and how that ended: nothing     *)
(* but these two lets a report go over another's (worker-status.ts:53).       *)
THEOREM UndisturbedStopsAreTold ==
  Spec => [](robbed \union cut = {} => CarriedOver(status) = Told(latest))
<1>1. Init => OrderInv
  BY DEF Init, OrderInv, NotingInv
<1>2. StopInv /\ OrderInv =>
        (robbed \union cut = {} => CarriedOver(status) = Told(latest))
  BY DEF StopInv, OrderInv, ToldInv
<1>3. QED
  BY <1>1, <1>2, OrderStep, StopInvHolds, PTL DEF Spec
=============================================================================
