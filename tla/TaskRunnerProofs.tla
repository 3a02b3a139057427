-------------------------- MODULE TaskRunnerProofs --------------------------
(***************************************************************************)
(* The types and the safety properties of TaskRunner, and that it          *)
(* implements TaskLedger, for any set of tasks and admin requests, any     *)
(* retry limit and any number of disruptions.                              *)
(***************************************************************************)
EXTENDS TaskRunner, TLAPS

USE TaskAssumption, MaxRetriesAssumption, FileAssumption, RunnerAssumption
    DEF Readable, vars, queueVars, workerVars, historyVars, Others,
        OthersButDisruptions

(* Each file step keeps the types of the files. *)
LEMMA FileStepType ==
  ASSUME QueueTypeOK, NEW t \in Task,
         \/ WriteCompleted(t) \/ WriteFailed(t) \/ WriteRetry(t)
         \/ WriteBack(t) \/ ClearProcessing(t) \/ ClearPending(t)
         \/ QuarantinePending(t) \/ QuarantineProcessing(t) \/ EnqueueTask(t)
         \/ DeletePending(t) \/ DeleteFailed(t) \/ DeleteCorrupt(t)
         \/ CleanupOldTasks(t) \/ BackoffElapses(t) \/ ProcessingAges(t)
         \/ DamagePending(t) \/ DamageProcessing(t)
  PROVE  QueueTypeOK'
<1> USE DEF QueueTypeOK, Content
<1>1. CASE WriteCompleted(t)
  BY <1>1 DEF WriteCompleted
<1>2. CASE WriteFailed(t)
  BY <1>2 DEF WriteFailed
<1>3. CASE WriteRetry(t)
  BY <1>3 DEF WriteRetry, WritePending
<1>4. CASE WriteBack(t)
  BY <1>4 DEF WriteBack, WritePending
<1>5. CASE ClearProcessing(t)
  BY <1>5 DEF ClearProcessing, UnlinkProcessing
<1>6. CASE ClearPending(t)
  BY <1>6 DEF ClearPending, UnlinkPending
<1>7. CASE QuarantinePending(t)
  BY <1>7 DEF QuarantinePending, UnlinkPending
<1>8. CASE QuarantineProcessing(t)
  BY <1>8 DEF QuarantineProcessing, UnlinkProcessing
<1>9. CASE EnqueueTask(t)
  BY <1>9 DEF EnqueueTask, WritePending
<1>10. CASE DeletePending(t)
  BY <1>10 DEF DeletePending, UnlinkPending
<1>11. CASE DeleteFailed(t)
  BY <1>11 DEF DeleteFailed
<1>12. CASE DeleteCorrupt(t)
  BY <1>12 DEF DeleteCorrupt
<1>13. CASE CleanupOldTasks(t)
  BY <1>13 DEF CleanupOldTasks
<1>14. CASE BackoffElapses(t)
  BY <1>14 DEF BackoffElapses
<1>15. CASE ProcessingAges(t)
  BY <1>15 DEF ProcessingAges
<1>16. CASE DamagePending(t)
  BY <1>16 DEF DamagePending
<1>17. CASE DamageProcessing(t)
  BY <1>17 DEF DamageProcessing
<1>18. QED
  BY <1>1, <1>2, <1>3, <1>4, <1>5, <1>6, <1>7, <1>8, <1>9, <1>10, <1>11, <1>12, <1>13, <1>14, <1>15, <1>16, <1>17

(* Each way the worker moves on keeps the types of its state. *)
LEMMA ControlStepType ==
  ASSUME WorkerTypeOK, NEW p \in Phases, Goto(p) \/ EndCycle(p) \/ NextTask
  PROVE  WorkerTypeOK'
<1> USE DEF WorkerTypeOK, NothingScanned
<1>1. CASE Goto(p)
  BY <1>1 DEF Goto
<1>2. CASE EndCycle(p)
  BY <1>2 DEF EndCycle
<1>3. CASE NextTask
  BY <1>3 DEF NextTask, Phases
<1>4. QED
  BY <1>1, <1>2, <1>3

(* Who changes what: the other hosts leave the worker alone. *)
LEMMA OtherHostSteps ==
  AdminRequest \/ Environment => UNCHANGED workerVars
BY DEF AdminRequest, Environment, RequeueRead, RequeueWrite, RequeueUnlink,
       RequeueAbandoned, AdminDelete, Enqueue, Cleanup, Ageing, BackoffOver, Damage

(* The worker changes the rest of the state in two actions only. *)
LEMMA WorkerSteps ==
  Worker => DequeueUnlink \/ RecordOutcome \/ UNCHANGED Others
BY DEF Worker, Recovery, Dequeue, Attempt, StartWorker, BeginCycle, RecoverCorrupt,
       RecoverFinished, RecoverWrite, RecoverUnlink, RecoverDone, DequeueCorrupt,
       DequeueFinished, DequeueWrite, DequeueScan, DequeueMissed, DequeueNone,
       AttemptFails, CompleteTask, RetryTask, FailTask, UnlinkDone

(* A disruption is counted and changes nothing else of the rest. *)
LEMMA DisruptionSteps ==
  Disruption => Disrupted /\ UNCHANGED OthersButDisruptions
BY DEF Disruption, RecoverError, DequeueError, CompleteError, ReleaseTask,
       ErrorPathError, UnlinkSwallowed, RecordError, Crash

(* The variables keep their types, and the worker has a task in hand       *)
(* exactly in the phases about one.                                        *)
THEOREM TypeCorrect == Spec => [](TypeOK /\ ControlInv)
<1>1. Init => TypeOK /\ ControlInv
  BY DEF Init, QueueInit, TypeOK, QueueTypeOK, WorkerTypeOK, OthersTypeOK, ControlInv,
         HasTask, Content, Phases, AdminRequests, NothingScanned
<1>2. TypeOK /\ ControlInv /\ [Next]_vars => (TypeOK /\ ControlInv)'
  <2> SUFFICES ASSUME TypeOK, ControlInv, [Next]_vars
               PROVE  (TypeOK /\ ControlInv)'
    OBVIOUS
  <2>a. QueueTypeOK /\ WorkerTypeOK /\ OthersTypeOK
    BY DEF TypeOK
  <2>b. phase \in HasTask => held \in Task
    BY <2>a DEF ControlInv, WorkerTypeOK
  <2>1. QueueTypeOK'
    <3>a. UNCHANGED queueVars => QueueTypeOK'
      BY <2>a DEF QueueTypeOK
    <3>1. ASSUME NEW t \in Task, RecoverCorrupt(t)
         PROVE  QueueTypeOK'
      BY <3>1, <2>a, FileStepType DEF RecoverCorrupt
    <3>2. ASSUME NEW t \in Task, RecoverFinished(t)
         PROVE  QueueTypeOK'
      BY <3>2, <2>a, FileStepType DEF RecoverFinished
    <3>3. ASSUME NEW t \in Task, RecoverWrite(t)
         PROVE  QueueTypeOK'
      BY <3>3, <2>a, FileStepType DEF RecoverWrite
    <3>4. CASE RecoverUnlink
      BY <3>4, <2>a, <2>b, FileStepType DEF RecoverUnlink, HasTask
    <3>5. ASSUME NEW t \in Task, DequeueCorrupt(t)
         PROVE  QueueTypeOK'
      BY <3>5, <2>a, FileStepType DEF DequeueCorrupt
    <3>6. ASSUME NEW t \in Task, DequeueFinished(t)
         PROVE  QueueTypeOK'
      BY <3>6, <2>a, FileStepType DEF DequeueFinished
    <3>7. ASSUME NEW t \in Task, DequeueWrite(t)
         PROVE  QueueTypeOK'
      BY <3>7, <2>a DEF DequeueWrite, WriteProcessing, Oldest, Scanned,
                             QueueTypeOK, WorkerTypeOK, Content
    <3>8. CASE DequeueUnlink
      BY <3>8, <2>a, <2>b, FileStepType DEF DequeueUnlink, HasTask
    <3>9. CASE CompleteTask
      BY <3>9, <2>a, <2>b, FileStepType DEF CompleteTask, HasTask
    <3>10. CASE RetryTask
      BY <3>10, <2>a, <2>b, FileStepType DEF RetryTask, MayRetry, GivesUp, HasTask
    <3>11. CASE FailTask
      BY <3>11, <2>a, <2>b, FileStepType DEF FailTask, MayRetry, GivesUp, HasTask
    <3>12. CASE UnlinkDone
      BY <3>12, <2>a, <2>b, FileStepType DEF UnlinkDone, AfterUnlink, Goto, HasTask
    <3>13. CASE CompleteError
      BY <3>13, <2>a, <2>b, <3>a, FileStepType DEF CompleteError, HasTask
    <3>14. CASE ReleaseTask
      BY <3>14, <2>a, <2>b, FileStepType DEF ReleaseTask, HasTask
    <3>15. CASE ErrorPathError
      BY <3>15, <2>a, <2>b, <3>a, FileStepType DEF ErrorPathError, MayRetry, GivesUp, HasTask
    <3>16. ASSUME NEW a \in Admin, NEW t \in Task, RequeueWrite(a, t)
         PROVE  QueueTypeOK'
      BY <3>16, <2>a, FileStepType DEF RequeueWrite
    <3>17. ASSUME NEW a \in Admin, RequeueUnlink(a)
         PROVE  QueueTypeOK'
      BY <3>17, <2>a DEF RequeueUnlink, QueueTypeOK, OthersTypeOK, AdminRequests
    <3>18. ASSUME NEW t \in Task, AdminDelete(t)
         PROVE  QueueTypeOK'
      BY <3>18, <2>a, FileStepType DEF AdminDelete
    <3>19. ASSUME NEW t \in Task, Enqueue(t)
         PROVE  QueueTypeOK'
      BY <3>19, <2>a, FileStepType DEF Enqueue
    <3>20. ASSUME NEW t \in Task, Cleanup(t)
         PROVE  QueueTypeOK'
      BY <3>20, <2>a, FileStepType DEF Cleanup
    <3>21. ASSUME NEW t \in Task, Ageing(t)
         PROVE  QueueTypeOK'
      BY <3>21, <2>a, FileStepType DEF Ageing
    <3>22. ASSUME NEW t \in Task, BackoffOver(t)
         PROVE  QueueTypeOK'
      BY <3>22, <2>a, FileStepType DEF BackoffOver
    <3>23. ASSUME NEW t \in Task, Damage(t)
         PROVE  QueueTypeOK'
      BY <3>23, <2>a, FileStepType DEF Damage
    <3>24. CASE UNCHANGED vars
      BY <3>24, <3>a
    <3>25. QED
      BY <3>a, <3>1, <3>2, <3>3, <3>4, <3>5, <3>6, <3>7, <3>8, <3>9, <3>10,
         <3>11, <3>12, <3>13, <3>14, <3>15, <3>16, <3>17, <3>18, <3>19,
         <3>20, <3>21, <3>22, <3>23, <3>24
         DEF Next, Worker, Recovery, Dequeue, Attempt, Disruption,
             AdminRequest, Environment, StartWorker, BeginCycle, RecoverDone,
             DequeueScan, DequeueMissed, DequeueNone, AttemptFails,
             RecordOutcome, RecoverError, DequeueError, UnlinkSwallowed, RecordError,
             Crash, RequeueRead, RequeueAbandoned
  <2>2. WorkerTypeOK'
    <3>a. UNCHANGED workerVars => WorkerTypeOK'
      BY <2>a DEF WorkerTypeOK
    <3>1. CASE StartWorker
      BY <3>1, <2>a DEF StartWorker, StartRecovery, WorkerTypeOK, Phases
    <3>2. CASE BeginCycle
      BY <3>2, <2>a DEF BeginCycle, StartRecovery, WorkerTypeOK, Phases
    <3>3. ASSUME NEW t \in Task, RecoverCorrupt(t)
         PROVE  WorkerTypeOK'
      BY <3>3, <2>a DEF RecoverCorrupt, WorkerTypeOK, Phases
    <3>4. ASSUME NEW t \in Task, RecoverFinished(t)
         PROVE  WorkerTypeOK'
      BY <3>4, <2>a DEF RecoverFinished, WorkerTypeOK, Phases
    <3>5. ASSUME NEW t \in Task, RecoverWrite(t)
         PROVE  WorkerTypeOK'
      BY <3>5, <2>a DEF RecoverWrite, WorkerTypeOK, Phases
    <3>6. CASE RecoverUnlink
      BY <3>6, <2>a DEF RecoverUnlink, WorkerTypeOK, Phases
    <3>7. CASE RecoverDone
      BY <3>7, <2>a, ControlStepType DEF RecoverDone, Phases
    <3>8. ASSUME NEW t \in Task, DequeueCorrupt(t)
         PROVE  WorkerTypeOK'
      BY <3>8, <2>a DEF DequeueCorrupt, WorkerTypeOK, Phases
    <3>9. ASSUME NEW t \in Task, DequeueFinished(t)
         PROVE  WorkerTypeOK'
      BY <3>9, <2>a DEF DequeueFinished, WorkerTypeOK, Phases
    <3>10. ASSUME NEW t \in Task, DequeueWrite(t)
         PROVE  WorkerTypeOK'
      BY <3>10, <2>a DEF DequeueWrite, WorkerTypeOK, Phases, Oldest, Scanned
    <3>11. CASE DequeueScan
      BY <3>11, <2>a DEF DequeueScan, WorkerTypeOK, Phases, Ready
    <3>12. CASE DequeueUnlink
      BY <3>12, <2>a DEF DequeueUnlink, WorkerTypeOK, Phases
    <3>13. CASE DequeueMissed
      BY <3>13, <2>a DEF DequeueMissed, WorkerTypeOK, Phases
    <3>14. CASE DequeueNone
      BY <3>14, <2>a, ControlStepType DEF DequeueNone, Phases
    <3>15. CASE AttemptFails
      BY <3>15, <2>a, ControlStepType DEF AttemptFails, Phases
    <3>16. CASE CompleteTask
      BY <3>16, <2>a, ControlStepType DEF CompleteTask, Phases
    <3>17. CASE RetryTask
      BY <3>17, <2>a, ControlStepType DEF RetryTask, Phases
    <3>18. CASE FailTask
      BY <3>18, <2>a, ControlStepType DEF FailTask, Phases
    <3>19. CASE UnlinkDone
      BY <3>19, <2>a, ControlStepType DEF UnlinkDone, Phases, AfterUnlink
    <3>20. CASE RecordOutcome
      BY <3>20, <2>a, ControlStepType DEF RecordOutcome, Phases
    <3>21. CASE RecoverError
      BY <3>21, <2>a DEF RecoverError, WorkerTypeOK, Phases
    <3>22. CASE DequeueError
      BY <3>22, <2>a, ControlStepType DEF DequeueError, Phases
    <3>23. CASE CompleteError
      BY <3>23, <2>a, ControlStepType DEF CompleteError, Phases
    <3>24. CASE ReleaseTask
      BY <3>24, <2>a, ControlStepType DEF ReleaseTask, Phases
    <3>25. CASE ErrorPathError
      BY <3>25, <2>a, ControlStepType DEF ErrorPathError, Phases
    <3>26. CASE UnlinkSwallowed
      BY <3>26, <2>a, ControlStepType DEF UnlinkSwallowed, Phases, AfterUnlink
    <3>27. CASE Crash
      BY <3>27, <2>a, ControlStepType DEF Crash, Phases
    <3>28. CASE AdminRequest
      BY <3>28, <3>a, OtherHostSteps
    <3>29. CASE Environment
      BY <3>29, <3>a, OtherHostSteps
    <3>30. CASE UNCHANGED vars
      BY <3>30, <3>a
    <3>31. CASE RecordError
      BY <3>31, <2>a, ControlStepType DEF RecordError, Phases
    <3>32. QED
      BY <3>1, <3>2, <3>3, <3>4, <3>5, <3>6, <3>7, <3>8, <3>9, <3>10, <3>11,
         <3>12, <3>13, <3>14, <3>15, <3>16, <3>17, <3>18, <3>19, <3>20,
         <3>21, <3>22, <3>23, <3>24, <3>25, <3>26, <3>27, <3>28, <3>29, <3>30, <3>31
         DEF Next, Worker, Recovery, Dequeue, Attempt, Disruption
  <2>3. OthersTypeOK'
    <3>a. UNCHANGED Others => OthersTypeOK'
      BY <2>a DEF OthersTypeOK
    <3>1. CASE DequeueUnlink
      <4>1. runs' = [runs EXCEPT ![held] = @ + 1] /\ held \in Task
        BY <3>1, <2>b DEF DequeueUnlink, HasTask
      <4>2. runs' \in [Task -> Nat]
        BY <4>1, <2>a DEF OthersTypeOK
      <4>3. QED
        BY <3>1, <4>2, <2>a DEF DequeueUnlink, OthersTypeOK
    <3>2. CASE RecordOutcome
      BY <3>2, <2>a, <2>b DEF RecordOutcome, HasTask, OthersTypeOK
    <3>3. CASE Disruption
      <4>1. disruptions' = disruptions + 1 /\ UNCHANGED OthersButDisruptions
        BY <3>3, DisruptionSteps DEF Disrupted
      <4>2. disruptions' \in Nat
        BY <4>1, <2>a DEF OthersTypeOK
      <4>3. QED
        BY <4>1, <4>2, <2>a DEF OthersTypeOK
    <3>4. ASSUME NEW a \in Admin, NEW t \in Task, RequeueRead(a, t)
         PROVE  OthersTypeOK'
      BY <3>4, <2>a DEF RequeueRead, OthersTypeOK, AdminRequests, QueueTypeOK
    <3>5. ASSUME NEW a \in Admin, NEW t \in Task, RequeueWrite(a, t)
         PROVE  OthersTypeOK'
      BY <3>5, <2>a DEF RequeueWrite, OthersTypeOK, AdminRequests, QueueTypeOK
    <3>6. ASSUME NEW a \in Admin, RequeueUnlink(a)
         PROVE  OthersTypeOK'
      BY <3>6, <2>a DEF RequeueUnlink, OthersTypeOK, AdminRequests, QueueTypeOK
    <3>7. ASSUME NEW a \in Admin, RequeueAbandoned(a)
         PROVE  OthersTypeOK'
      BY <3>7, <2>a DEF RequeueAbandoned, OthersTypeOK, AdminRequests, QueueTypeOK
    <3>8. ASSUME NEW t \in Task, AdminDelete(t)
         PROVE  OthersTypeOK'
      BY <3>8, <3>a DEF AdminDelete
    <3>9. ASSUME NEW t \in Task, Enqueue(t)
         PROVE  OthersTypeOK'
      BY <3>9, <2>a DEF Enqueue, OthersTypeOK
    <3>10. ASSUME NEW t \in Task, Cleanup(t)
         PROVE  OthersTypeOK'
      BY <3>10, <2>a DEF Cleanup, OthersTypeOK
    <3>11. ASSUME NEW t \in Task, Ageing(t)
         PROVE  OthersTypeOK'
      BY <3>11, <2>a DEF Ageing, OthersTypeOK
    <3>12. ASSUME NEW t \in Task, BackoffOver(t)
         PROVE  OthersTypeOK'
      BY <3>12, <2>a DEF BackoffOver, OthersTypeOK
    <3>13. ASSUME NEW t \in Task, Damage(t)
         PROVE  OthersTypeOK'
      BY <3>13, <2>a DEF Damage, OthersTypeOK
    <3>14. CASE UNCHANGED vars
      BY <3>14, <3>a
    <3>15. QED
      BY <3>a, <3>1, <3>2, <3>3, <3>4, <3>5, <3>6, <3>7, <3>8, <3>9, <3>10,
         <3>11, <3>12, <3>13, <3>14, WorkerSteps
         DEF Next, AdminRequest, Environment
  <2>4. ControlInv'
    <3>a. UNCHANGED workerVars => ControlInv'
      BY DEF ControlInv
    <3>1. CASE StartWorker
      BY <3>1 DEF StartWorker, StartRecovery, ControlInv, HasTask
    <3>2. CASE BeginCycle
      BY <3>2 DEF BeginCycle, StartRecovery, ControlInv, HasTask
    <3>3. ASSUME NEW t \in Task, RecoverCorrupt(t)
         PROVE  ControlInv'
      BY <3>3 DEF RecoverCorrupt, ControlInv, HasTask
    <3>4. ASSUME NEW t \in Task, RecoverFinished(t)
         PROVE  ControlInv'
      BY <3>4 DEF RecoverFinished, ControlInv, HasTask
    <3>5. ASSUME NEW t \in Task, RecoverWrite(t)
         PROVE  ControlInv'
      BY <3>5, <2>a DEF RecoverWrite, ControlInv, HasTask
    <3>6. CASE RecoverUnlink
      BY <3>6 DEF RecoverUnlink, ControlInv, HasTask
    <3>7. CASE RecoverDone
      BY <3>7 DEF RecoverDone, Goto, ControlInv, HasTask
    <3>8. ASSUME NEW t \in Task, DequeueCorrupt(t)
         PROVE  ControlInv'
      BY <3>8 DEF DequeueCorrupt, ControlInv, HasTask
    <3>9. ASSUME NEW t \in Task, DequeueFinished(t)
         PROVE  ControlInv'
      BY <3>9 DEF DequeueFinished, ControlInv, HasTask
    <3>10. ASSUME NEW t \in Task, DequeueWrite(t)
         PROVE  ControlInv'
      BY <3>10, <2>a DEF DequeueWrite, ControlInv, HasTask
    <3>11. CASE DequeueScan
      BY <3>11 DEF DequeueScan, MayClaim, ControlInv, HasTask
    <3>12. CASE DequeueUnlink
      BY <3>12 DEF DequeueUnlink, ControlInv, HasTask
    <3>13. CASE DequeueMissed
      BY <3>13 DEF DequeueMissed, ControlInv, HasTask
    <3>14. CASE DequeueNone
      BY <3>14 DEF DequeueNone, EndCycle, ControlInv, HasTask
    <3>15. CASE AttemptFails
      BY <3>15 DEF AttemptFails, Goto, ControlInv, HasTask
    <3>16. CASE CompleteTask
      BY <3>16 DEF CompleteTask, Goto, ControlInv, HasTask
    <3>17. CASE RetryTask
      BY <3>17 DEF RetryTask, Goto, NextTask, MayRetry, ControlInv, HasTask
    <3>18. CASE FailTask
      BY <3>18 DEF FailTask, Goto, GivesUp, MayRetry, ControlInv, HasTask
    <3>19. CASE UnlinkDone
      BY <3>19 DEF UnlinkDone, AfterUnlink, Goto, NextTask, EndCycle, ControlInv, HasTask
    <3>20. CASE RecordOutcome
      BY <3>20 DEF RecordOutcome, NextTask, ControlInv, HasTask
    <3>21. CASE RecoverError
      BY <3>21 DEF RecoverError, ControlInv, HasTask
    <3>22. CASE DequeueError
      BY <3>22 DEF DequeueError, EndCycle, ControlInv, HasTask
    <3>23. CASE CompleteError
      BY <3>23 DEF CompleteError, Goto, ControlInv, HasTask
    <3>24. CASE ReleaseTask
      BY <3>24 DEF ReleaseTask, Goto, EndCycle, ControlInv, HasTask
    <3>25. CASE ErrorPathError
      BY <3>25 DEF ErrorPathError, EndCycle, ControlInv, HasTask
    <3>26. CASE UnlinkSwallowed
      BY <3>26 DEF UnlinkSwallowed, AfterUnlink, Goto, NextTask, EndCycle, ControlInv, HasTask
    <3>27. CASE Crash
      BY <3>27 DEF Crash, EndCycle, ControlInv, HasTask
    <3>28. CASE AdminRequest
      BY <3>28, <3>a, OtherHostSteps
    <3>29. CASE Environment
      BY <3>29, <3>a, OtherHostSteps
    <3>30. CASE UNCHANGED vars
      BY <3>30, <3>a
    <3>31. CASE RecordError
      BY <3>31 DEF RecordError, NextTask, ControlInv, HasTask
    <3>32. QED
      BY <3>1, <3>2, <3>3, <3>4, <3>5, <3>6, <3>7, <3>8, <3>9, <3>10, <3>11,
         <3>12, <3>13, <3>14, <3>15, <3>16, <3>17, <3>18, <3>19, <3>20,
         <3>21, <3>22, <3>23, <3>24, <3>25, <3>26, <3>27, <3>28, <3>29, <3>30, <3>31
         DEF Next, Worker, Recovery, Dequeue, Attempt, Disruption
  <2>5. QED
    BY <2>1, <2>2, <2>3, <2>4 DEF TypeOK
<1>3. QED
  BY <1>1, <1>2, PTL DEF Spec
-----------------------------------------------------------------------------
(* SafetyInv is inductive relative to the types: every step keeps it.      *)
LEMMA SafetyStep ==
  ASSUME TypeOK, ControlInv, SafetyInv, [Next]_vars
  PROVE  SafetyInv'
<1> USE DEF HandInv, UsedInv, DamagedInv, SuccessorInv, BudgetInv, NoTaskLost,
            RecordedIsFinished, RetryBudget, HasTask, OwnsFile, Running, Extra,
            Finished, Present
<1>a. /\ HandInv /\ UsedInv /\ DamagedInv /\ SuccessorInv /\ BudgetInv
      /\ NoTaskLost /\ RecordedIsFinished /\ RetryBudget
  BY DEF SafetyInv
<1>b. /\ pending \in [Task -> Content] /\ processing \in [Task -> Content]
      /\ completed \subseteq Task /\ failed \subseteq Task /\ used \subseteq Task
      /\ retries \in Nat /\ todo \subseteq Task /\ scan \in [Task -> Nat \union {NoFile}]
      /\ disruptions \in Nat /\ runs \in [Task -> Nat] /\ recorded \subseteq Task
      /\ admin \in [Admin -> AdminRequests] /\ ControlInv
      /\ phase \in HasTask => held \in Task
  BY DEF TypeOK, QueueTypeOK, WorkerTypeOK, OthersTypeOK, ControlInv
<1> USE DEF Content, AdminRequests, ControlInv
<1>1. CASE StartWorker
  BY <1>1, <1>a, <1>b
     DEF SafetyInv, StartWorker, StartRecovery, Orphaned
<1>2. CASE BeginCycle
  BY <1>2, <1>a, <1>b
     DEF SafetyInv, BeginCycle, StartRecovery, Orphaned
<1>3. ASSUME NEW t \in Task, RecoverCorrupt(t)
     PROVE  SafetyInv'
  BY <1>3, <1>a, <1>b
     DEF SafetyInv, RecoverCorrupt, QuarantineProcessing, UnlinkProcessing
<1>4. ASSUME NEW t \in Task, RecoverFinished(t)
     PROVE  SafetyInv'
  BY <1>4, <1>a, <1>b
     DEF SafetyInv, RecoverFinished, ClearProcessing, UnlinkProcessing
<1>5. ASSUME NEW t \in Task, RecoverWrite(t)
     PROVE  SafetyInv'
  BY <1>5, <1>a, <1>b
     DEF SafetyInv, RecoverWrite, WriteBack, WritePending
<1>6. CASE RecoverUnlink
  BY <1>6, <1>a, <1>b
     DEF SafetyInv, RecoverUnlink, ClearProcessing, UnlinkProcessing
<1>7. CASE RecoverDone
  BY <1>7, <1>a, <1>b
     DEF SafetyInv, RecoverDone, Goto
<1>8. ASSUME NEW t \in Task, DequeueCorrupt(t)
     PROVE  SafetyInv'
  BY <1>8, <1>a, <1>b
     DEF SafetyInv, DequeueCorrupt, MayClaim, QuarantinePending, UnlinkPending
<1>9. ASSUME NEW t \in Task, DequeueFinished(t)
     PROVE  SafetyInv'
  BY <1>9, <1>a, <1>b
     DEF SafetyInv, DequeueFinished, ClearPending, UnlinkPending
<1>10. ASSUME NEW t \in Task, DequeueWrite(t)
     PROVE  SafetyInv'
  BY <1>10, <1>a, <1>b
     DEF SafetyInv, DequeueWrite, Oldest, Scanned, WriteProcessing
<1>11. CASE DequeueScan
  BY <1>11, <1>a, <1>b
     DEF SafetyInv, DequeueScan, MayClaim, Ready
<1>12. CASE DequeueUnlink
  BY <1>12, <1>a, <1>b
     DEF SafetyInv, DequeueUnlink, ClearPending, UnlinkPending
<1>13. CASE DequeueMissed
  BY <1>13, <1>a, <1>b
     DEF SafetyInv, DequeueMissed
<1>14. CASE DequeueNone
  BY <1>14, <1>a, <1>b
     DEF SafetyInv, DequeueNone, EndCycle, NothingScanned
<1>15. CASE AttemptFails
  BY <1>15, <1>a, <1>b
     DEF SafetyInv, AttemptFails, Goto
<1>16. CASE CompleteTask
  BY <1>16, <1>a, <1>b
     DEF SafetyInv, CompleteTask, WriteCompleted, ClearProcessing,
         UnlinkProcessing, Goto
<1>17. CASE RetryTask
  <2> USE <1>17
      DEF RetryTask, MayRetry, WriteRetry, WritePending, ClearProcessing,
          UnlinkProcessing, Goto, NextTask, NothingScanned
  <2>1. HandInv'
    BY <1>a, <1>b
  <2>2. SuccessorInv'
    BY <1>a, <1>b
  <2>3. UsedInv'
    BY <1>a, <1>b
  <2>4. DamagedInv'
    BY <1>a, <1>b
  <2>5. NoTaskLost'
    BY <1>a, <1>b
  <2>6. BudgetInv' /\ RetryBudget'
    BY <1>a, <1>b
  <2>7. RecordedIsFinished'
    BY <1>a, <1>b
  <2>8. QED
    BY <2>1, <2>2, <2>3, <2>4, <2>5, <2>6, <2>7 DEF SafetyInv
<1>18. CASE FailTask
  <2> USE <1>18
      DEF FailTask, GivesUp, MayRetry, WriteFailed, ClearProcessing,
          UnlinkProcessing, Goto
  <2>1. HandInv' /\ SuccessorInv'
    BY <1>a, <1>b
  <2>2. UsedInv' /\ DamagedInv' /\ NoTaskLost'
    BY <1>a, <1>b
  <2>3. BudgetInv' /\ RetryBudget'
    BY <1>a, <1>b
  <2>4. RecordedIsFinished'
    BY <1>a, <1>b
  <2>5. QED
    BY <2>1, <2>2, <2>3, <2>4 DEF SafetyInv
<1>19. CASE UnlinkDone
  BY <1>19, <1>a, <1>b
     DEF SafetyInv, UnlinkDone, AfterUnlink, ClearProcessing,
         UnlinkProcessing, Goto, NextTask, EndCycle, NothingScanned
<1>20. CASE RecordOutcome
  BY <1>20, <1>a, <1>b
     DEF SafetyInv, RecordOutcome, NextTask, NothingScanned
<1>21. CASE RecoverError
  <2> USE <1>21
      DEF RecoverError, Disrupted
  <2>1. HandInv' /\ SuccessorInv'
    BY <1>a, <1>b
  <2>2. UsedInv' /\ DamagedInv' /\ NoTaskLost'
    BY <1>a, <1>b
  <2>3. BudgetInv' /\ RetryBudget'
    BY <1>a, <1>b
  <2>4. RecordedIsFinished'
    BY <1>a, <1>b
  <2>5. QED
    BY <2>1, <2>2, <2>3, <2>4 DEF SafetyInv
<1>22. CASE DequeueError
  BY <1>22, <1>a, <1>b
     DEF SafetyInv, DequeueError, EndCycle, Disrupted, NothingScanned
<1>23. CASE CompleteError
  <2> USE <1>23
      DEF CompleteError, WriteCompleted, Goto, Disrupted
  <2>1. HandInv' /\ SuccessorInv'
    BY <1>a, <1>b
  <2>2. UsedInv' /\ DamagedInv' /\ NoTaskLost'
    BY <1>a, <1>b
  <2>3. BudgetInv' /\ RetryBudget'
    BY <1>a, <1>b
  <2>4. RecordedIsFinished'
    BY <1>a, <1>b
  <2>5. QED
    BY <2>1, <2>2, <2>3, <2>4 DEF SafetyInv
<1>24. CASE ReleaseTask
  <2> USE <1>24
      DEF ReleaseTask, WriteBack, WritePending, ClearProcessing,
          UnlinkProcessing, Goto, EndCycle, Disrupted, NothingScanned
  <2>1. HandInv' /\ SuccessorInv'
    BY <1>a, <1>b
  <2>2. UsedInv'
    BY <1>a, <1>b
  <2>3. DamagedInv'
    BY <1>a, <1>b
  <2>4. NoTaskLost'
    BY <1>a, <1>b
  <2>5. BudgetInv' /\ RetryBudget'
    BY <1>a, <1>b
  <2>6. RecordedIsFinished'
    BY <1>a, <1>b
  <2>7. QED
    BY <2>1, <2>2, <2>3, <2>4, <2>5, <2>6 DEF SafetyInv
<1>25. CASE ErrorPathError
  <2> USE <1>25
      DEF ErrorPathError, GivesUp, MayRetry, WriteFailed, WriteRetry,
          WritePending, EndCycle, Disrupted, NothingScanned
  <2>1. HandInv' /\ SuccessorInv'
    BY <1>a, <1>b
  <2>2. UsedInv'
    BY <1>a, <1>b
  <2>3. DamagedInv'
    BY <1>a, <1>b
  <2>4. NoTaskLost'
    BY <1>a, <1>b
  <2>5. BudgetInv' /\ RetryBudget'
    BY <1>a, <1>b
  <2>6. RecordedIsFinished'
    BY <1>a, <1>b
  <2>7. QED
    BY <2>1, <2>2, <2>3, <2>4, <2>5, <2>6 DEF SafetyInv
<1>26. CASE UnlinkSwallowed
  <2> USE <1>26
      DEF UnlinkSwallowed, AfterUnlink, Goto, NextTask, EndCycle, Disrupted,
          NothingScanned
  <2>1. HandInv' /\ SuccessorInv'
    BY <1>a, <1>b
  <2>2. UsedInv' /\ DamagedInv' /\ NoTaskLost'
    BY <1>a, <1>b
  <2>3. BudgetInv' /\ RetryBudget'
    BY <1>a, <1>b
  <2>4. RecordedIsFinished'
    BY <1>a, <1>b
  <2>5. QED
    BY <2>1, <2>2, <2>3, <2>4 DEF SafetyInv
<1>27. CASE Crash
  BY <1>27, <1>a, <1>b
     DEF SafetyInv, Crash, EndCycle, Disrupted, NothingScanned
<1>28. ASSUME NEW a \in Admin, NEW t \in Task, RequeueRead(a, t)
     PROVE  SafetyInv'
  BY <1>28, <1>a, <1>b
     DEF SafetyInv, RequeueRead
<1>29. ASSUME NEW a \in Admin, NEW t \in Task, RequeueWrite(a, t)
     PROVE  SafetyInv'
  BY <1>29, <1>a, <1>b
     DEF SafetyInv, RequeueWrite, EnqueueTask, WritePending
<1>30. ASSUME NEW a \in Admin, RequeueUnlink(a)
     PROVE  SafetyInv'
  BY <1>30, <1>a, <1>b
     DEF SafetyInv, RequeueUnlink
<1>31. ASSUME NEW a \in Admin, RequeueAbandoned(a)
     PROVE  SafetyInv'
  BY <1>31, <1>a, <1>b
     DEF SafetyInv, RequeueAbandoned
<1>32. ASSUME NEW t \in Task, AdminDelete(t)
     PROVE  SafetyInv'
  <2> USE <1>32
      DEF AdminDelete, DeletePending, DeleteFailed, DeleteCorrupt,
          UnlinkPending
  <2>1. HandInv' /\ SuccessorInv'
    BY <1>a, <1>b
  <2>2. UsedInv' /\ DamagedInv' /\ NoTaskLost'
    BY <1>a, <1>b
  <2>3. BudgetInv' /\ RetryBudget'
    BY <1>a, <1>b
  <2>4. RecordedIsFinished'
    BY <1>a, <1>b
  <2>5. QED
    BY <2>1, <2>2, <2>3, <2>4 DEF SafetyInv
<1>33. ASSUME NEW t \in Task, Enqueue(t)
     PROVE  SafetyInv'
  BY <1>33, <1>a, <1>b
     DEF SafetyInv, Enqueue, EnqueueTask, WritePending
<1>34. ASSUME NEW t \in Task, Cleanup(t)
     PROVE  SafetyInv'
  BY <1>34, <1>a, <1>b
     DEF SafetyInv, Cleanup, CleanupOldTasks
<1>35. ASSUME NEW t \in Task, Ageing(t)
     PROVE  SafetyInv'
  BY <1>35, <1>a, <1>b
     DEF SafetyInv, Ageing, ProcessingAges
<1>36. ASSUME NEW t \in Task, BackoffOver(t)
     PROVE  SafetyInv'
  BY <1>36, <1>a, <1>b
     DEF SafetyInv, BackoffOver, BackoffElapses
<1>37. ASSUME NEW t \in Task, Damage(t)
     PROVE  SafetyInv'
  <2> USE <1>37
      DEF Damage, DamagePending, DamageProcessing
  <2>1. HandInv'
    <3>1. CASE DamagePending(t)
      BY <3>1, <1>a, <1>b
    <3>2. CASE DamageProcessing(t)
      BY <3>2, <1>a, <1>b
    <3>3. QED
      BY <3>1, <3>2
  <2>2. SuccessorInv'
    BY <1>a, <1>b
  <2>3. UsedInv'
    BY <1>a, <1>b
  <2>4. DamagedInv'
    BY <1>a, <1>b
  <2>5. NoTaskLost'
    BY <1>a, <1>b
  <2>6. BudgetInv' /\ RetryBudget'
    BY <1>a, <1>b
  <2>7. RecordedIsFinished'
    BY <1>a, <1>b
  <2>8. QED
    BY <2>1, <2>2, <2>3, <2>4, <2>5, <2>6, <2>7 DEF SafetyInv
<1>38. CASE UNCHANGED vars
  BY <1>38, <1>a, <1>b DEF SafetyInv
<1>39. CASE RecordError
  BY <1>39, <1>a, <1>b
     DEF SafetyInv, RecordError, NextTask, Disrupted, NothingScanned
<1>40. QED
  BY <1>1, <1>2, <1>3, <1>4, <1>5, <1>6, <1>7, <1>8, <1>9, <1>10, <1>11,
     <1>12, <1>13, <1>14, <1>15, <1>16, <1>17, <1>18, <1>19, <1>20, <1>21,
     <1>22, <1>23, <1>24, <1>25, <1>26, <1>27, <1>28, <1>29, <1>30, <1>31,
     <1>32, <1>33, <1>34, <1>35, <1>36, <1>37, <1>38, <1>39
     DEF Next, Worker, Recovery, Dequeue, Attempt, Disruption, AdminRequest, Environment

(* The inductive invariant holds in every reachable state. *)
THEOREM SafetyHolds == Spec => [](TypeOK /\ ControlInv /\ SafetyInv)
<1>1. Init => SafetyInv
  BY DEF Init, QueueInit, SafetyInv, HandInv, UsedInv, DamagedInv, SuccessorInv,
         BudgetInv, NoTaskLost, RecordedIsFinished, RetryBudget, HasTask, OwnsFile,
         Running, Extra, Finished, Present, NothingScanned
<1>2. TypeOK /\ ControlInv /\ SafetyInv /\ [Next]_vars => SafetyInv'
  BY SafetyStep
<1>3. QED
  BY <1>1, <1>2, TypeCorrect, PTL DEF Spec

(* No queued task vanishes: write-then-unlink always leaves a file until   *)
(* the task is given up.                                                   *)
THEOREM NoTaskIsLost == Spec => []NoTaskLost
<1>1. SafetyInv => NoTaskLost
  BY DEF SafetyInv
<1>2. QED
  BY <1>1, SafetyHolds, PTL

(* The dedup checks of dequeueTask and recoverOrphanedTasks never let a    *)
(* task whose record is in completed/ or failed/ be executed.              *)
THEOREM FinishedTasksDoNotRun == Spec => []RunsAreUnfinished
<1>1. SafetyInv => RunsAreUnfinished
  BY DEF SafetyInv, HandInv, RunsAreUnfinished
<1>2. QED
  BY <1>1, SafetyHolds, PTL

(* Crashes cost at most one extra attempt each, whatever recovery puts     *)
(* back.                                                                   *)
THEOREM RetriesAreBounded == Spec => []RetryBudget
<1>1. SafetyInv => RetryBudget
  BY DEF SafetyInv
<1>2. QED
  BY <1>1, SafetyHolds, PTL

(* branch.json never runs ahead of the queue's record.                     *)
THEOREM RecordsFollowTheQueue == Spec => []RecordedIsFinished
<1>1. SafetyInv => RecordedIsFinished
  BY DEF SafetyInv
<1>2. QED
  BY <1>1, SafetyHolds, PTL

-----------------------------------------------------------------------------
(* TaskRunner implements TaskLedger: each file step is one step of the     *)
(* status of one task, or none.                                            *)

(* What a step may do to the status of task t, the others keeping theirs.  *)
Keeps(t) == Status(t)' = Status(t) /\ UNCHANGED dismissed

Opens(t) == Status(t) = "absent" /\ Status(t)' = "open" /\ UNCHANGED dismissed

Finishes(t) ==
  Status(t) = "open" /\ Status(t)' \in {"completed", "failed"} /\ UNCHANGED dismissed

Dismisses(t) ==
  /\ Status(t) # "absent"
  /\ dismissed' = dismissed \union {t}
  /\ \/ Status(t)' \in {Status(t), "gone"}
     \/ Status(t) = "failed" /\ Status(t)' = "open"
     \/ Status(t) = "completed" /\ Status(t)' = "failed"

Drops(t) ==
  Status(t) = "open" /\ Status(t)' = "gone" /\ t \in dismissed /\ UNCHANGED dismissed

Resurrects(t) ==
  Status(t) = "gone" /\ Status(t)' = "open" /\ t \in dismissed /\ UNCHANGED dismissed

Moves(t) ==
  /\ \A u \in Task \ {t} : Status(u)' = Status(u)
  /\ \/ Keeps(t) \/ Opens(t) \/ Finishes(t) \/ Dismisses(t) \/ Drops(t) \/ Resurrects(t)

(* Such a step is a step of the ledger or a stutter.                       *)
LEMMA MoveIsLedgerStep ==
  ASSUME NEW t \in Task, Moves(t)
  PROVE  [Ledger!Next]_(Ledger!vars)
<1> DEFINE S == [u \in Task |-> Status(u)]
<1>1. S' = [S EXCEPT ![t] = Status(t)']
  BY DEF Moves
<1>2. S[t] = Status(t)
  OBVIOUS
<1> HIDE DEF S
<1>3. CASE Keeps(t)
  <2>1. S' = S
    BY <1>3 DEF Keeps, Moves, S
  <2>2. QED
    BY <2>1, <1>3 DEF Keeps, S, Ledger!vars
<1>4. CASE Opens(t)
  BY <1>1, <1>2, <1>4 DEF Opens, S, Ledger!Next, Ledger!Open
<1>5. CASE Finishes(t)
  BY <1>1, <1>2, <1>5 DEF Finishes, S, Ledger!Next, Ledger!Finish
<1>6. CASE Dismisses(t)
  BY <1>1, <1>2, <1>6 DEF Dismisses, S, Ledger!Next, Ledger!Dismiss
<1>7. CASE Drops(t)
  BY <1>1, <1>2, <1>7 DEF Drops, S, Ledger!Next, Ledger!Drop
<1>8. CASE Resurrects(t)
  BY <1>1, <1>2, <1>8 DEF Resurrects, S, Ledger!Next, Ledger!Resurrect
<1>9. QED
  BY <1>3, <1>4, <1>5, <1>6, <1>7, <1>8 DEF Moves

(* A task's status depends on these facts about its files only.            *)
LEMMA StatusDepends ==
  ASSUME NEW u \in Task,
         u \in used' <=> u \in used,
         u \in completed' <=> u \in completed,
         u \in failed' <=> u \in failed,
         Present(u)' <=> Present(u)
  PROVE  Status(u)' = Status(u)
BY DEF Status, Finished

(* The file steps the actions are built from.                              *)
LEMMA EnqueueMoves ==
  ASSUME QueueTypeOK, NEW t \in Task, EnqueueTask(t), Present(t) => t \in used
  PROVE  Moves(t)
<1>1. \A u \in Task \ {t} : Status(u)' = Status(u)
  BY StatusDepends DEF EnqueueTask, WritePending, QueueTypeOK, Present, Finished
<1>2. Opens(t)
  BY DEF Opens, EnqueueTask, WritePending, QueueTypeOK, Present, Finished, Status
<1>3. QED
  BY <1>1, <1>2 DEF Moves

(* A copy is unlinked: its task has another file, or was given up on.      *)
LEMMA UnlinkMoves ==
  ASSUME QueueTypeOK, NEW t \in Task, t \in used,
         UNCHANGED <<completed, failed, used, dismissed>>,
         \/ UnlinkProcessing(t) /\ UNCHANGED pending
         \/ UnlinkPending(t) /\ UNCHANGED processing,
         Present(t)' \/ t \in dismissed
  PROVE  Moves(t)
<1>1. \A u \in Task \ {t} : Status(u)' = Status(u)
  BY StatusDepends DEF UnlinkProcessing, UnlinkPending, QueueTypeOK, Present, Finished
<1>2. CASE Present(t)' \/ ~Present(t)
  <2>1. Present(t)' <=> Present(t)
    BY <1>2 DEF UnlinkProcessing, UnlinkPending, QueueTypeOK, Present, Finished
  <2>2. Status(t)' = Status(t)
    BY <2>1, StatusDepends
  <2>3. QED
    BY <1>1, <2>2 DEF Moves, Keeps
<1>3. CASE Present(t) /\ ~Present(t)'
  <2>1. Drops(t)
    BY <1>3 DEF Drops, Status, Present, Finished
  <2>2. QED
    BY <1>1, <2>1 DEF Moves
<1>4. QED
  BY <1>2, <1>3

(* A second copy is written of a task that has a file.                     *)
LEMMA CopyMoves ==
  ASSUME QueueTypeOK, NEW t \in Task, WriteRetry(t) \/ WriteBack(t)
  PROVE  Moves(t)
<1>1. \A u \in Task : Status(u)' = Status(u)
  <2> SUFFICES ASSUME NEW u \in Task PROVE Status(u)' = Status(u)
    OBVIOUS
  <2>1. Present(u)' <=> Present(u)
    BY DEF WriteRetry, WriteBack, WritePending, QueueTypeOK, Content, Present, Finished
  <2>2. QED
    BY <2>1, StatusDepends DEF WriteRetry, WriteBack
<1>2. QED
  BY <1>1 DEF Moves, Keeps, WriteRetry, WriteBack

(* A claim: the task's pending file may be gone since the scan.            *)
LEMMA ClaimMoves ==
  ASSUME QueueTypeOK, NEW t \in Task, NEW n \in Nat, t \in used, ~Finished(t),
         WriteProcessing(t, n), Present(t) \/ t \in dismissed,
         UNCHANGED <<pending, completed, failed, used, dismissed>>
  PROVE  Moves(t)
<1>1. \A u \in Task \ {t} : Status(u)' = Status(u)
  BY StatusDepends DEF WriteProcessing, QueueTypeOK, Present, Finished
<1>2. Keeps(t) \/ Resurrects(t)
  BY DEF Keeps, Resurrects, WriteProcessing, QueueTypeOK, Present, Finished, Status
<1>3. QED
  BY <1>1, <1>2 DEF Moves

(* The outcome of an attempt is written.  A completion over a failed       *)
(* record would be no step of the ledger.                                  *)
LEMMA OutcomeMoves ==
  ASSUME QueueTypeOK, NEW t \in Task, t \in used,
         (WriteCompleted(t) /\ ~Finished(t)) \/ WriteFailed(t)
  PROVE  Moves(t)
<1>1. \A u \in Task \ {t} : Status(u)' = Status(u)
  BY StatusDepends DEF WriteCompleted, WriteFailed, QueueTypeOK, Present, Finished
<1>2. Keeps(t) \/ Finishes(t)
  BY DEF Keeps, Finishes, WriteCompleted, WriteFailed, Present, Finished, Status
<1>3. QED
  BY <1>1, <1>2 DEF Moves

(* A record or a waiting copy is dismissed, or a copy is damaged.          *)
LEMMA DismissalMoves ==
  ASSUME QueueTypeOK, NEW t \in Task, t \in used,
         \/ DeletePending(t) \/ DeleteFailed(t) \/ DeleteCorrupt(t)
         \/ CleanupOldTasks(t) \/ DamagePending(t) \/ DamageProcessing(t)
  PROVE  Moves(t)
<1> USE DEF QueueTypeOK, Content, Present, Finished, UnlinkPending
<1>1. CASE DeletePending(t)
  <2>1. \A u \in Task \ {t} : Status(u)' = Status(u)
    BY <1>1, StatusDepends DEF DeletePending
  <2>2. Dismisses(t)
    BY <1>1 DEF DeletePending, Dismisses, Status
  <2>3. QED
    BY <2>1, <2>2 DEF Moves
<1>2. CASE DeleteFailed(t)
  <2>1. \A u \in Task \ {t} : Status(u)' = Status(u)
    BY <1>2, StatusDepends DEF DeleteFailed
  <2>2. Dismisses(t)
    BY <1>2 DEF DeleteFailed, Dismisses, Status
  <2>3. QED
    BY <2>1, <2>2 DEF Moves
<1>3. CASE DeleteCorrupt(t)
  <2>1. \A u \in Task : Status(u)' = Status(u)
    BY <1>3, StatusDepends DEF DeleteCorrupt
  <2>2. QED
    BY <1>3, <2>1 DEF Moves, Keeps, DeleteCorrupt
<1>4. CASE CleanupOldTasks(t)
  <2>1. \A u \in Task \ {t} : Status(u)' = Status(u)
    BY <1>4, StatusDepends DEF CleanupOldTasks
  <2>2. Dismisses(t)
    BY <1>4 DEF CleanupOldTasks, Dismisses, Status
  <2>3. QED
    BY <2>1, <2>2 DEF Moves
<1>5. CASE DamagePending(t) \/ DamageProcessing(t)
  <2>1. \A u \in Task : Status(u)' = Status(u)
    BY <1>5, StatusDepends DEF DamagePending, DamageProcessing
  <2>2. Dismisses(t)
    BY <1>5, <2>1 DEF DamagePending, DamageProcessing, Dismisses, Status
  <2>3. QED
    BY <2>1, <2>2 DEF Moves
<1>6. QED
  BY <1>1, <1>2, <1>3, <1>4, <1>5

(* A step that keeps every file but the corrupt ones, and every history.   *)
FilesKept ==
  UNCHANGED <<pending, processing, completed, failed, used, dismissed>>

(* It is a stutter of the ledger. *)
LEMMA KeptIsStutter ==
  ASSUME FilesKept
  PROVE  [Ledger!Next]_(Ledger!vars)
BY DEF FilesKept, Ledger!vars, Status, Finished, Present

(* Every step of the runner moves the status of one task, or of none.      *)
LEMMA RunnerMoves ==
  ASSUME TypeOK, ControlInv, SafetyInv, [Next]_vars
  PROVE  FilesKept \/ \E t \in Task : Moves(t)
<1> DEFINE Goal == FilesKept \/ \E t \in Task : Moves(t)
<1>a. /\ HandInv /\ UsedInv /\ DamagedInv /\ SuccessorInv /\ NoTaskLost
      /\ QueueTypeOK /\ ControlInv /\ scan \in [Task -> Nat \union {NoFile}]
      /\ pending \in [Task -> Content] /\ processing \in [Task -> Content]
      /\ admin \in [Admin -> AdminRequests]
      /\ phase \in HasTask => held \in Task /\ held \in used
  BY DEF SafetyInv, TypeOK, QueueTypeOK, WorkerTypeOK, OthersTypeOK, ControlInv, UsedInv
<1> USE DEF HandInv, UsedInv, SuccessorInv, NoTaskLost, HasTask, OwnsFile, Present,
            Finished, Content
<1>1. ASSUME NEW t \in Task, RecoverCorrupt(t)
     PROVE  Goal
  BY <1>1, <1>a, UnlinkMoves
     DEF RecoverCorrupt, QuarantineProcessing, DamagedInv
<1>2. ASSUME NEW t \in Task, RecoverFinished(t)
     PROVE  Goal
  BY <1>2, <1>a, UnlinkMoves
     DEF RecoverFinished, ClearProcessing
<1>3. ASSUME NEW t \in Task, RecoverWrite(t)
     PROVE  Goal
  BY <1>3, <1>a, CopyMoves
     DEF RecoverWrite
<1>4. CASE RecoverUnlink
  BY <1>4, <1>a, UnlinkMoves
     DEF RecoverUnlink, ClearProcessing
<1>5. ASSUME NEW t \in Task, DequeueCorrupt(t)
     PROVE  Goal
  BY <1>5, <1>a, UnlinkMoves
     DEF DequeueCorrupt, QuarantinePending, DamagedInv
<1>6. ASSUME NEW t \in Task, DequeueFinished(t)
     PROVE  Goal
  BY <1>6, <1>a, UnlinkMoves
     DEF DequeueFinished, ClearPending
<1>7. ASSUME NEW t \in Task, DequeueWrite(t)
     PROVE  Goal
  BY <1>7, <1>a, ClaimMoves
     DEF DequeueWrite, Oldest, Scanned
<1>8. CASE DequeueUnlink
  BY <1>8, <1>a, UnlinkMoves
     DEF DequeueUnlink, ClearPending
<1>9. CASE CompleteTask
  BY <1>9, <1>a, OutcomeMoves, UnlinkMoves
     DEF CompleteTask, ClearProcessing, DamagedInv
<1>10. CASE RetryTask
  BY <1>10, <1>a, CopyMoves, UnlinkMoves
     DEF RetryTask, ClearProcessing, DamagedInv, MayRetry
<1>11. CASE FailTask
  BY <1>11, <1>a, OutcomeMoves, UnlinkMoves
     DEF FailTask, ClearProcessing, DamagedInv, GivesUp
<1>12. CASE UnlinkDone
  BY <1>12, <1>a, UnlinkMoves
     DEF UnlinkDone, ClearProcessing, AfterUnlink, Goto
<1>13. CASE CompleteError
  BY <1>13, <1>a, OutcomeMoves
     DEF CompleteError, FilesKept
<1>14. CASE ReleaseTask
  BY <1>14, <1>a, CopyMoves, UnlinkMoves
     DEF ReleaseTask, ClearProcessing, DamagedInv
<1>15. CASE ErrorPathError
  BY <1>15, <1>a, OutcomeMoves, CopyMoves
     DEF ErrorPathError, GivesUp, FilesKept
<1>16. ASSUME NEW a \in Admin, NEW t \in Task, RequeueWrite(a, t)
     PROVE  Goal
  BY <1>16, <1>a, EnqueueMoves
     DEF RequeueWrite
<1>17. ASSUME NEW a \in Admin, RequeueUnlink(a)
     PROVE  Goal
  <2>1. PICK t \in Task : t = admin[a].task
    BY <1>17, <1>a DEF RequeueUnlink, AdminRequests
  <2>2. /\ dismissed' = dismissed \union {t} /\ failed' = failed \ {t} /\ t \in used
        /\ UNCHANGED <<pending, processing, completed, used>>
    BY <1>17, <2>1, <1>a DEF RequeueUnlink
  <2>3. \A u \in Task \ {t} : Status(u)' = Status(u)
    BY <2>2, StatusDepends
  <2>4. Dismisses(t)
    BY <2>2 DEF Dismisses, Status
  <2>5. QED
    BY <2>3, <2>4 DEF Moves
<1>18. ASSUME NEW t \in Task, AdminDelete(t)
     PROVE  Goal
  BY <1>18, <1>a, DismissalMoves
     DEF AdminDelete, DeletePending, DeleteFailed, DeleteCorrupt
<1>19. ASSUME NEW t \in Task, Enqueue(t)
     PROVE  Goal
  BY <1>19, <1>a, EnqueueMoves
     DEF Enqueue
<1>20. ASSUME NEW t \in Task, Cleanup(t)
     PROVE  Goal
  BY <1>20, <1>a, DismissalMoves
     DEF Cleanup, CleanupOldTasks
<1>21. ASSUME NEW t \in Task, Damage(t)
     PROVE  Goal
  BY <1>21, <1>a, DismissalMoves
     DEF Damage, DamagePending, DamageProcessing
<1>22. CASE UNCHANGED vars
  BY <1>22 DEF FilesKept
<1>23. QED
  BY <1>1, <1>2, <1>3, <1>4, <1>5, <1>6, <1>7, <1>8, <1>9, <1>10, <1>11,
     <1>12, <1>13, <1>14, <1>15, <1>16, <1>17, <1>18, <1>19, <1>20, <1>21,
     <1>22
     DEF FilesKept, Next, Worker, Recovery, Dequeue, Attempt, Disruption,
         AdminRequest, Environment, StartWorker, BeginCycle, RecoverDone,
         DequeueScan, DequeueMissed, DequeueNone, AttemptFails, RecordOutcome,
         RecoverError, DequeueError, UnlinkSwallowed, RecordError, Crash,
         RequeueRead, RequeueAbandoned, Ageing, BackoffOver, BackoffElapses, ProcessingAges

(* The queue's files, through every crash and race, behave as the ledger.  *)
THEOREM QueueImplementsLedger == Spec => ImplementsLedger
<1>1. Init => Ledger!Init
  BY DEF Init, QueueInit, Ledger!Init, Status
<1>2. TypeOK /\ ControlInv /\ SafetyInv /\ [Next]_vars => [Ledger!Next]_(Ledger!vars)
  BY RunnerMoves, KeptIsStutter, MoveIsLedgerStep
<1>3. QED
  BY <1>1, <1>2, SafetyHolds, PTL DEF Spec, ImplementsLedger, Ledger!Spec
=============================================================================
