-------------------------- MODULE ContentSyncProofs --------------------------
(* Proofs about ContentSync, for any number of saves and submits, any advance *)
(* of the base, any number of crashes and failed aborts.                      *)
EXTENDS ContentSync, TLAPS

USE ProcAssumption, BoundAssumption
    DEF Request, Proc, vars, lockVars, treeVars, boundVars, Elsewhere, Outside,
        Step, GoTo

(* While no live holder's marker is taken over, whoever is inside the lock   *)
(* has its marker on disk, and hears of no compromise.                       *)
LockInv ==
  takeovers = 0 =>
    /\ noticed = {}
    /\ \A p \in Proc : Holds(p) => holder = p /\ ~stale

(* Past the dirty check the worker's tree stays clean. *)
CleanInv ==
  takeovers = 0 =>
    (stage \in {"clean", "rebasing", "conflicted", "completed", "unfinished"}
      => dirty = {})

(* A rebase that is not abandoned is the worker's present one: an abort of   *)
(* it loses nothing.                                                         *)
RebaseInv ==
  takeovers = 0 =>
    (midRebase /\ ~abandoned =>
       stage \in LockStages /\ dirty = {} /\ committed = origHead)

(* A rebase outlives the worker's hold only by a crash or a failed abort. *)
WedgeInv ==
  /\ mishaps = 0 /\ midRebase => stage \in LockStages \ {"releasing"}
  /\ mishaps = 0 => ~abandoned

(* What a save wrote is kept, or was reverted by a recovery. *)
SaveInv ==
  takeovers = 0 =>
    \A s \in Save : pc[s] \in {"written", "saved"} =>
                      s \in Kept \/ (mishaps > 0 /\ s \in discarded)

SyncInv ==
  TypeOK /\ LockInv /\ CleanInv /\ RebaseInv /\ WedgeInv /\ SaveInv

-----------------------------------------------------------------------------
(* The initial state satisfies every part. *)
LEMMA InitInv ==
  ASSUME Init
  PROVE  SyncInv
<1>1. TypeOK
  <2>1. /\ onto \in 0..MaxBase /\ base \in onto..MaxBase
        /\ round \in 0..MaxRounds
        /\ mishaps \in 0..MaxMishaps /\ takeovers \in 0..MaxTakeovers
    BY DEF Init
  <2>2. pc \in [Request -> Pending \union Answered]
    BY DEF Init, Pending
  <2>3. QED
    BY <2>1, <2>2 DEF Init, TypeOK, Stages
<1>2. LockInv
  BY DEF Init, LockInv, Holds, InLock, LockStages
<1>3. CleanInv /\ RebaseInv /\ WedgeInv /\ SaveInv
  BY DEF Init, CleanInv, RebaseInv, WedgeInv, SaveInv
<1>4. QED
  BY <1>1, <1>2, <1>3 DEF SyncInv

(* Taking the lock keeps the types of its state. *)
LEMMA AcquireType ==
  ASSUME TypeOK, NEW p \in Proc, Acquire(p)
  PROVE  /\ holder' \in Proc /\ stale' \in BOOLEAN /\ noticed' \subseteq Proc
         /\ takeovers' \in 0..MaxTakeovers /\ mishaps' = mishaps
<1>1. takeovers' \in 0..MaxTakeovers
  BY DEF TypeOK, Acquire
<1>2. QED
  BY <1>1 DEF TypeOK, Acquire

(* An abort keeps the types of the tree and ends the rebase. *)
LEMMA AbortType ==
  ASSUME TypeOK, AbortRebase
  PROVE  /\ dirty' \subseteq dirty /\ committed' \subseteq Save
         /\ discarded' \subseteq Save
         /\ midRebase' = FALSE /\ abandoned' = FALSE
         /\ onto' = onto /\ origHead' = origHead
<1>1. PICK reverted \in SUBSET dirty :
        dirty' = IF midRebase THEN dirty \ reverted ELSE dirty
  BY DEF AbortRebase
<1>2. dirty' \subseteq dirty
  BY <1>1
<1>3. committed' \subseteq Save
  BY DEF AbortRebase, TypeOK
<1>4. discarded' \subseteq Save
  BY <1>2, <1>3 DEF AbortRebase, TypeOK
<1>5. QED
  BY <1>2, <1>3, <1>4 DEF AbortRebase

(* A round keeps within MAX_REBASE_ROUNDS, and the base is one to stand on. *)
LEMMA MayRebaseType ==
  ASSUME TypeOK, MayRebase
  PROVE  round' \in 0..MaxRounds /\ base \in 0..MaxBase /\ base \in base..MaxBase
BY DEF TypeOK, MayRebase

(* An abort that fails counts as a mishap and changes nothing. *)
LEMMA AbortFailsType ==
  ASSUME TypeOK, AbortFails
  PROVE  mishaps' \in 0..MaxMishaps /\ UNCHANGED <<treeVars, takeovers>>
BY DEF TypeOK, AbortFails

(* Every step keeps the types. *)
LEMMA TypeStep ==
  ASSUME TypeOK, [Next]_vars
  PROVE  TypeOK'
<1> USE DEF TypeOK, Pending, Answered, Stages, LockStages, InLock
<1>1. ASSUME NEW r \in Request, Admit(r) PROVE TypeOK'
  BY <1>1 DEF Admit
<1>2. ASSUME NEW r \in Request, Enter(r) PROVE TypeOK'
  BY <1>2, AcquireType DEF Enter
<1>3. ASSUME NEW r \in Request, GiveUp(r) PROVE TypeOK'
  BY <1>3 DEF GiveUp
<1>4. ASSUME NEW r \in Request, Write(r) PROVE TypeOK'
  BY <1>4 DEF Write
<1>5. ASSUME NEW r \in Request, WriteRefused(r) PROVE TypeOK'
  BY <1>5 DEF WriteRefused
<1>6. ASSUME NEW r \in Request, CommitAndPush(r) PROVE TypeOK'
  BY <1>6 DEF CommitAndPush
<1>7. ASSUME NEW r \in Request, SubmitRefused(r) PROVE TypeOK'
  BY <1>7 DEF SubmitRefused
<1>8. ASSUME NEW r \in Request, RecordSubmitted(r) PROVE TypeOK'
  BY <1>8 DEF RecordSubmitted
<1>9. ASSUME NEW r \in Request, Leave(r) PROVE TypeOK'
  BY <1>9 DEF Leave, ReleaseLock
<1>10. ASSUME NEW r \in Request, RequestDies(r) PROVE TypeOK'
  BY <1>10 DEF RequestDies
<1>11. ASSUME NEW p \in Proc, Notice(p) PROVE TypeOK'
  BY <1>11 DEF Notice
<1>12. CASE Withdraw \/ BaseAdvances
  BY <1>12 DEF Withdraw, BaseAdvances
<1>13. CASE ReadStatus \/ WorkerRestarts
  BY <1>13 DEF ReadStatus, WorkerRestarts
<1>14. CASE TryLock
  BY <1>14, AcquireType DEF TryLock
<1>15. CASE Recovery
  BY <1>15, AbortType, AbortFailsType
     DEF Recovery, RecoverInterrupted, RecoveryFails
<1>16. CASE CheckClean \/ CheckBehind
  BY <1>16 DEF CheckClean, CheckBehind
<1>17. CASE RebaseCompletes
  BY <1>17, MayRebaseType DEF RebaseCompletes
<1>18. CASE RebaseStops
  BY <1>18 DEF RebaseStops, MayRebase
<1>19. CASE ResolveConflicts
  BY <1>19 DEF ResolveConflicts
<1>20. CASE RebaseErrors
  <2>1. CASE AbortRebase /\ UNCHANGED boundVars
    BY <1>20, <2>1, AbortType, MayRebaseType DEF RebaseErrors
  <2>2. CASE AbortFails
    BY <1>20, <2>2, AbortFailsType, MayRebaseType DEF RebaseErrors
  <2>3. QED
    BY <1>20, <2>1, <2>2 DEF RebaseErrors
<1>21. CASE RebaseGivesUp
  BY <1>21 DEF RebaseGivesUp
<1>22. CASE AbortUnfinished \/ AbortOnExit
  BY <1>22, AbortType, AbortFailsType DEF AbortUnfinished, AbortOnExit
<1>23. CASE FinishRebase \/ Throws
  BY <1>23 DEF FinishRebase, Throws
<1>24. CASE Release
  BY <1>24 DEF Release, ReleaseLock
<1>25. CASE WorkerDies
  BY <1>25 DEF WorkerDies
<1>26. CASE UNCHANGED vars
  BY <1>26
<1>27. QED
  BY <1>1, <1>2, <1>3, <1>4, <1>5, <1>6, <1>7, <1>8, <1>9, <1>10, <1>11,
     <1>12, <1>13, <1>14, <1>15, <1>16, <1>17, <1>18, <1>19, <1>20, <1>21,
     <1>22, <1>23, <1>24, <1>25, <1>26
     DEF Next, RequestStep, SaveStep, SubmitStep, WorkerStep, Rounds, Exit

(* Every step keeps the lock exclusive. *)
LEMMA LockStep ==
  ASSUME TypeOK, LockInv, [Next]_vars
  PROVE  LockInv'
<1> USE DEF TypeOK, LockInv, Holds, InLock, LockStages, Pending
<1>1. ASSUME NEW r \in Request, Admit(r) PROVE LockInv'
  BY <1>1 DEF Admit
<1>2. ASSUME NEW r \in Request, Enter(r) PROVE LockInv'
  BY <1>2 DEF Enter, Acquire
<1>3. ASSUME NEW r \in Request, GiveUp(r) PROVE LockInv'
  BY <1>3 DEF GiveUp
<1>4. ASSUME NEW r \in Request, Write(r) PROVE LockInv'
  BY <1>4 DEF Write
<1>5. ASSUME NEW r \in Request, WriteRefused(r) PROVE LockInv'
  BY <1>5 DEF WriteRefused
<1>6. ASSUME NEW r \in Request, CommitAndPush(r) PROVE LockInv'
  BY <1>6 DEF CommitAndPush
<1>7. ASSUME NEW r \in Request, SubmitRefused(r) PROVE LockInv'
  BY <1>7 DEF SubmitRefused
<1>8. ASSUME NEW r \in Request, RecordSubmitted(r) PROVE LockInv'
  BY <1>8 DEF RecordSubmitted
<1>9. ASSUME NEW r \in Request, Leave(r) PROVE LockInv'
  BY <1>9 DEF Leave, ReleaseLock
<1>10. ASSUME NEW r \in Request, RequestDies(r) PROVE LockInv'
  BY <1>10 DEF RequestDies
<1>11. ASSUME NEW p \in Proc, Notice(p) PROVE LockInv'
  BY <1>11 DEF Notice
<1>12. CASE Withdraw \/ BaseAdvances
  BY <1>12 DEF Withdraw, BaseAdvances
<1>13. CASE ReadStatus \/ WorkerRestarts
  BY <1>13 DEF ReadStatus, WorkerRestarts
<1>14. CASE TryLock
  BY <1>14 DEF TryLock, Acquire
<1>15. CASE Recovery
  BY <1>15
     DEF Recovery, RecoverInterrupted, RecoveryFails, AbortRebase,
         AbortFails
<1>16. CASE CheckClean \/ CheckBehind
  BY <1>16 DEF CheckClean, CheckBehind
<1>17. CASE RebaseCompletes
  BY <1>17 DEF RebaseCompletes, MayRebase
<1>18. CASE RebaseStops
  BY <1>18 DEF RebaseStops, MayRebase
<1>19. CASE ResolveConflicts
  BY <1>19 DEF ResolveConflicts
<1>20. CASE RebaseErrors
  BY <1>20 DEF RebaseErrors, MayRebase, AbortRebase, AbortFails
<1>21. CASE RebaseGivesUp
  BY <1>21 DEF RebaseGivesUp
<1>22. CASE AbortUnfinished \/ AbortOnExit
  BY <1>22 DEF AbortUnfinished, AbortOnExit, AbortRebase, AbortFails
<1>23. CASE FinishRebase \/ Throws
  BY <1>23 DEF FinishRebase, Throws
<1>24. CASE Release
  BY <1>24 DEF Release, ReleaseLock
<1>25. CASE WorkerDies
  BY <1>25 DEF WorkerDies
<1>26. CASE UNCHANGED vars
  BY <1>26
<1>27. QED
  BY <1>1, <1>2, <1>3, <1>4, <1>5, <1>6, <1>7, <1>8, <1>9, <1>10, <1>11,
     <1>12, <1>13, <1>14, <1>15, <1>16, <1>17, <1>18, <1>19, <1>20, <1>21,
     <1>22, <1>23, <1>24, <1>25, <1>26
     DEF Next, RequestStep, SaveStep, SubmitStep, WorkerStep, Rounds, Exit

(* Every step keeps the worker's tree clean past its check. *)
LEMMA CleanStep ==
  ASSUME TypeOK, LockInv, CleanInv, [Next]_vars
  PROVE  CleanInv'
<1> USE DEF TypeOK, LockInv, CleanInv, Holds, InLock, LockStages
<1>1. ASSUME NEW r \in Request, Admit(r) PROVE CleanInv'
  BY <1>1 DEF Admit
<1>2. ASSUME NEW r \in Request, Enter(r) PROVE CleanInv'
  BY <1>2 DEF Enter, Acquire
<1>3. ASSUME NEW r \in Request, GiveUp(r) PROVE CleanInv'
  BY <1>3 DEF GiveUp
<1>4. ASSUME NEW r \in Request, Write(r) PROVE CleanInv'
  BY <1>4 DEF Write
<1>5. ASSUME NEW r \in Request, WriteRefused(r) PROVE CleanInv'
  BY <1>5 DEF WriteRefused
<1>6. ASSUME NEW r \in Request, CommitAndPush(r) PROVE CleanInv'
  BY <1>6 DEF CommitAndPush
<1>7. ASSUME NEW r \in Request, SubmitRefused(r) PROVE CleanInv'
  BY <1>7 DEF SubmitRefused
<1>8. ASSUME NEW r \in Request, RecordSubmitted(r) PROVE CleanInv'
  BY <1>8 DEF RecordSubmitted
<1>9. ASSUME NEW r \in Request, Leave(r) PROVE CleanInv'
  BY <1>9 DEF Leave, ReleaseLock
<1>10. ASSUME NEW r \in Request, RequestDies(r) PROVE CleanInv'
  BY <1>10 DEF RequestDies
<1>11. ASSUME NEW p \in Proc, Notice(p) PROVE CleanInv'
  BY <1>11 DEF Notice
<1>12. CASE Withdraw \/ BaseAdvances
  BY <1>12 DEF Withdraw, BaseAdvances
<1>13. CASE ReadStatus \/ WorkerRestarts
  BY <1>13 DEF ReadStatus, WorkerRestarts
<1>14. CASE TryLock
  BY <1>14 DEF TryLock, Acquire
<1>15. CASE Recovery
  BY <1>15
     DEF Recovery, RecoverInterrupted, RecoveryFails, AbortRebase,
         AbortFails
<1>16. CASE CheckClean \/ CheckBehind
  BY <1>16 DEF CheckClean, CheckBehind
<1>17. CASE RebaseCompletes
  BY <1>17 DEF RebaseCompletes, MayRebase
<1>18. CASE RebaseStops
  BY <1>18 DEF RebaseStops, MayRebase
<1>19. CASE ResolveConflicts
  BY <1>19 DEF ResolveConflicts
<1>20. CASE RebaseErrors
  BY <1>20 DEF RebaseErrors, MayRebase, AbortRebase, AbortFails
<1>21. CASE RebaseGivesUp
  BY <1>21 DEF RebaseGivesUp
<1>22. CASE AbortUnfinished \/ AbortOnExit
  BY <1>22 DEF AbortUnfinished, AbortOnExit, AbortRebase, AbortFails
<1>23. CASE FinishRebase \/ Throws
  BY <1>23 DEF FinishRebase, Throws
<1>24. CASE Release
  BY <1>24 DEF Release, ReleaseLock
<1>25. CASE WorkerDies
  BY <1>25 DEF WorkerDies
<1>26. CASE UNCHANGED vars
  BY <1>26
<1>27. QED
  BY <1>1, <1>2, <1>3, <1>4, <1>5, <1>6, <1>7, <1>8, <1>9, <1>10, <1>11,
     <1>12, <1>13, <1>14, <1>15, <1>16, <1>17, <1>18, <1>19, <1>20, <1>21,
     <1>22, <1>23, <1>24, <1>25, <1>26
     DEF Next, RequestStep, SaveStep, SubmitStep, WorkerStep, Rounds, Exit

(* Every step keeps the worker's own rebase harmless to abort. *)
LEMMA RebaseStep ==
  ASSUME TypeOK, LockInv, CleanInv, RebaseInv, [Next]_vars
  PROVE  RebaseInv'
<1> USE DEF TypeOK, LockInv, CleanInv, RebaseInv, Holds, InLock, LockStages
<1>1. ASSUME NEW r \in Request, Admit(r) PROVE RebaseInv'
  BY <1>1 DEF Admit
<1>2. ASSUME NEW r \in Request, Enter(r) PROVE RebaseInv'
  BY <1>2 DEF Enter, Acquire
<1>3. ASSUME NEW r \in Request, GiveUp(r) PROVE RebaseInv'
  BY <1>3 DEF GiveUp
<1>4. ASSUME NEW r \in Request, Write(r) PROVE RebaseInv'
  BY <1>4 DEF Write
<1>5. ASSUME NEW r \in Request, WriteRefused(r) PROVE RebaseInv'
  BY <1>5 DEF WriteRefused
<1>6. ASSUME NEW r \in Request, CommitAndPush(r) PROVE RebaseInv'
  BY <1>6 DEF CommitAndPush
<1>7. ASSUME NEW r \in Request, SubmitRefused(r) PROVE RebaseInv'
  BY <1>7 DEF SubmitRefused
<1>8. ASSUME NEW r \in Request, RecordSubmitted(r) PROVE RebaseInv'
  BY <1>8 DEF RecordSubmitted
<1>9. ASSUME NEW r \in Request, Leave(r) PROVE RebaseInv'
  BY <1>9 DEF Leave, ReleaseLock
<1>10. ASSUME NEW r \in Request, RequestDies(r) PROVE RebaseInv'
  BY <1>10 DEF RequestDies
<1>11. ASSUME NEW p \in Proc, Notice(p) PROVE RebaseInv'
  BY <1>11 DEF Notice
<1>12. CASE Withdraw \/ BaseAdvances
  BY <1>12 DEF Withdraw, BaseAdvances
<1>13. CASE ReadStatus \/ WorkerRestarts
  BY <1>13 DEF ReadStatus, WorkerRestarts
<1>14. CASE TryLock
  BY <1>14 DEF TryLock, Acquire
<1>15. CASE Recovery
  BY <1>15
     DEF Recovery, RecoverInterrupted, RecoveryFails, AbortRebase,
         AbortFails
<1>16. CASE CheckClean \/ CheckBehind
  BY <1>16 DEF CheckClean, CheckBehind
<1>17. CASE RebaseCompletes
  BY <1>17 DEF RebaseCompletes, MayRebase
<1>18. CASE RebaseStops
  BY <1>18 DEF RebaseStops, MayRebase
<1>19. CASE ResolveConflicts
  BY <1>19 DEF ResolveConflicts
<1>20. CASE RebaseErrors
  BY <1>20 DEF RebaseErrors, MayRebase, AbortRebase, AbortFails
<1>21. CASE RebaseGivesUp
  BY <1>21 DEF RebaseGivesUp
<1>22. CASE AbortUnfinished \/ AbortOnExit
  BY <1>22 DEF AbortUnfinished, AbortOnExit, AbortRebase, AbortFails
<1>23. CASE FinishRebase \/ Throws
  BY <1>23 DEF FinishRebase, Throws
<1>24. CASE Release
  BY <1>24 DEF Release, ReleaseLock
<1>25. CASE WorkerDies
  BY <1>25 DEF WorkerDies
<1>26. CASE UNCHANGED vars
  BY <1>26
<1>27. QED
  BY <1>1, <1>2, <1>3, <1>4, <1>5, <1>6, <1>7, <1>8, <1>9, <1>10, <1>11,
     <1>12, <1>13, <1>14, <1>15, <1>16, <1>17, <1>18, <1>19, <1>20, <1>21,
     <1>22, <1>23, <1>24, <1>25, <1>26
     DEF Next, RequestStep, SaveStep, SubmitStep, WorkerStep, Rounds, Exit

(* Without a mishap no step leaves a rebase behind. *)
LEMMA WedgeStep ==
  ASSUME TypeOK, WedgeInv, [Next]_vars
  PROVE  WedgeInv'
<1> USE DEF TypeOK, WedgeInv, LockStages
<1>1. ASSUME NEW r \in Request, Admit(r) PROVE WedgeInv'
  BY <1>1 DEF Admit
<1>2. ASSUME NEW r \in Request, Enter(r) PROVE WedgeInv'
  BY <1>2 DEF Enter, Acquire
<1>3. ASSUME NEW r \in Request, GiveUp(r) PROVE WedgeInv'
  BY <1>3 DEF GiveUp
<1>4. ASSUME NEW r \in Request, Write(r) PROVE WedgeInv'
  BY <1>4 DEF Write
<1>5. ASSUME NEW r \in Request, WriteRefused(r) PROVE WedgeInv'
  BY <1>5 DEF WriteRefused
<1>6. ASSUME NEW r \in Request, CommitAndPush(r) PROVE WedgeInv'
  BY <1>6 DEF CommitAndPush
<1>7. ASSUME NEW r \in Request, SubmitRefused(r) PROVE WedgeInv'
  BY <1>7 DEF SubmitRefused
<1>8. ASSUME NEW r \in Request, RecordSubmitted(r) PROVE WedgeInv'
  BY <1>8 DEF RecordSubmitted
<1>9. ASSUME NEW r \in Request, Leave(r) PROVE WedgeInv'
  BY <1>9 DEF Leave, ReleaseLock
<1>10. ASSUME NEW r \in Request, RequestDies(r) PROVE WedgeInv'
  BY <1>10 DEF RequestDies
<1>11. ASSUME NEW p \in Proc, Notice(p) PROVE WedgeInv'
  BY <1>11 DEF Notice
<1>12. CASE Withdraw \/ BaseAdvances
  BY <1>12 DEF Withdraw, BaseAdvances
<1>13. CASE ReadStatus \/ WorkerRestarts
  BY <1>13 DEF ReadStatus, WorkerRestarts
<1>14. CASE TryLock
  BY <1>14 DEF TryLock, Acquire
<1>15. CASE Recovery
  BY <1>15
     DEF Recovery, RecoverInterrupted, RecoveryFails, AbortRebase,
         AbortFails
<1>16. CASE CheckClean \/ CheckBehind
  BY <1>16 DEF CheckClean, CheckBehind
<1>17. CASE RebaseCompletes
  BY <1>17 DEF RebaseCompletes, MayRebase
<1>18. CASE RebaseStops
  BY <1>18 DEF RebaseStops, MayRebase
<1>19. CASE ResolveConflicts
  BY <1>19 DEF ResolveConflicts
<1>20. CASE RebaseErrors
  BY <1>20 DEF RebaseErrors, MayRebase, AbortRebase, AbortFails
<1>21. CASE RebaseGivesUp
  BY <1>21 DEF RebaseGivesUp
<1>22. CASE AbortUnfinished \/ AbortOnExit
  BY <1>22 DEF AbortUnfinished, AbortOnExit, AbortRebase, AbortFails
<1>23. CASE FinishRebase \/ Throws
  BY <1>23 DEF FinishRebase, Throws
<1>24. CASE Release
  BY <1>24 DEF Release, ReleaseLock
<1>25. CASE WorkerDies
  BY <1>25 DEF WorkerDies
<1>26. CASE UNCHANGED vars
  BY <1>26
<1>27. QED
  BY <1>1, <1>2, <1>3, <1>4, <1>5, <1>6, <1>7, <1>8, <1>9, <1>10, <1>11,
     <1>12, <1>13, <1>14, <1>15, <1>16, <1>17, <1>18, <1>19, <1>20, <1>21,
     <1>22, <1>23, <1>24, <1>25, <1>26
     DEF Next, RequestStep, SaveStep, SubmitStep, WorkerStep, Rounds, Exit

(* Every step keeps what was saved. *)
LEMMA SaveStepKeeps ==
  ASSUME TypeOK, CleanInv, RebaseInv, WedgeInv, SaveInv, [Next]_vars
  PROVE  SaveInv'
<1> USE DEF TypeOK, CleanInv, RebaseInv, WedgeInv, SaveInv, Kept
<1>1. ASSUME NEW r \in Request, Admit(r) PROVE SaveInv'
  BY <1>1 DEF Admit
<1>2. ASSUME NEW r \in Request, Enter(r) PROVE SaveInv'
  BY <1>2 DEF Enter, Acquire
<1>3. ASSUME NEW r \in Request, GiveUp(r) PROVE SaveInv'
  BY <1>3 DEF GiveUp
<1>4. ASSUME NEW r \in Request, Write(r) PROVE SaveInv'
  BY <1>4 DEF Write
<1>5. ASSUME NEW r \in Request, WriteRefused(r) PROVE SaveInv'
  BY <1>5 DEF WriteRefused
<1>6. ASSUME NEW r \in Request, CommitAndPush(r) PROVE SaveInv'
  BY <1>6 DEF CommitAndPush
<1>7. ASSUME NEW r \in Request, SubmitRefused(r) PROVE SaveInv'
  BY <1>7 DEF SubmitRefused
<1>8. ASSUME NEW r \in Request, RecordSubmitted(r) PROVE SaveInv'
  BY <1>8 DEF RecordSubmitted
<1>9. ASSUME NEW r \in Request, Leave(r) PROVE SaveInv'
  BY <1>9 DEF Leave, ReleaseLock
<1>10. ASSUME NEW r \in Request, RequestDies(r) PROVE SaveInv'
  BY <1>10 DEF RequestDies
<1>11. ASSUME NEW p \in Proc, Notice(p) PROVE SaveInv'
  BY <1>11 DEF Notice
<1>12. CASE Withdraw \/ BaseAdvances
  BY <1>12 DEF Withdraw, BaseAdvances
<1>13. CASE ReadStatus \/ WorkerRestarts
  BY <1>13 DEF ReadStatus, WorkerRestarts
<1>14. CASE TryLock
  BY <1>14 DEF TryLock, Acquire
<1>15. CASE Recovery
  BY <1>15
     DEF Recovery, RecoverInterrupted, RecoveryFails, AbortRebase,
         AbortFails
<1>16. CASE CheckClean \/ CheckBehind
  BY <1>16 DEF CheckClean, CheckBehind
<1>17. CASE RebaseCompletes
  BY <1>17 DEF RebaseCompletes, MayRebase
<1>18. CASE RebaseStops
  BY <1>18 DEF RebaseStops, MayRebase
<1>19. CASE ResolveConflicts
  BY <1>19 DEF ResolveConflicts
<1>20. CASE RebaseErrors
  BY <1>20 DEF RebaseErrors, MayRebase, AbortRebase, AbortFails
<1>21. CASE RebaseGivesUp
  BY <1>21 DEF RebaseGivesUp
<1>22. CASE AbortUnfinished \/ AbortOnExit
  BY <1>22 DEF AbortUnfinished, AbortOnExit, AbortRebase, AbortFails
<1>23. CASE FinishRebase \/ Throws
  BY <1>23 DEF FinishRebase, Throws
<1>24. CASE Release
  BY <1>24 DEF Release, ReleaseLock
<1>25. CASE WorkerDies
  BY <1>25 DEF WorkerDies
<1>26. CASE UNCHANGED vars
  BY <1>26
<1>27. QED
  BY <1>1, <1>2, <1>3, <1>4, <1>5, <1>6, <1>7, <1>8, <1>9, <1>10, <1>11,
     <1>12, <1>13, <1>14, <1>15, <1>16, <1>17, <1>18, <1>19, <1>20, <1>21,
     <1>22, <1>23, <1>24, <1>25, <1>26
     DEF Next, RequestStep, SaveStep, SubmitStep, WorkerStep, Rounds, Exit

-----------------------------------------------------------------------------
(* Every reachable state is well typed. *)
THEOREM TypeCorrect == Spec => []TypeOK
<1>1. Init => TypeOK
  BY InitInv DEF SyncInv
<1>2. TypeOK /\ [Next]_vars => TypeOK'
  BY TypeStep
<1>3. QED
  BY <1>1, <1>2, PTL DEF Spec

(* The inductive invariant. *)
THEOREM SyncInvariant == Spec => []SyncInv
<1>1. Init => SyncInv
  BY InitInv
<1>2. SyncInv /\ [Next]_vars => SyncInv'
  BY TypeStep, LockStep, CleanStep, RebaseStep, WedgeStep, SaveStepKeeps
     DEF SyncInv
<1>3. QED
  BY <1>1, <1>2, PTL DEF Spec

(* A save that was answered 200 survives whatever the worker does, while no  *)
(* live holder's marker is taken over: only the recovery of a rebase left by *)
(* a crash or a failed abort reverts one.                                    *)
THEOREM SavesAreKept == Spec => []SavesSurvive
<1>1. SyncInv => SavesSurvive
  BY DEF SyncInv, SaveInv, SavesSurvive
<1>2. QED
  BY <1>1, SyncInvariant, PTL

(* Without a crash or a failed abort, the clone is mid-rebase only inside    *)
(* the worker's hold of the lock, on every path through rebaseOneBranch.     *)
THEOREM NoExitLeavesARebase == Spec => []NeverWedged
<1>1. SyncInv => NeverWedged
  BY DEF SyncInv, LockInv, WedgeInv, NeverWedged, Holds
<1>2. QED
  BY <1>1, SyncInvariant, PTL
=============================================================================
