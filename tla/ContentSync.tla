----------------------------- MODULE ContentSync -----------------------------
(* The working tree of one branch clone, which the API's containers (saves,  *)
(* submits, withdraws) and the EC2 worker's rebase loop change over one      *)
(* shared file system, and the content-write lock between them [SYNC-C1]:    *)
(* utils/content-write-lock.ts, ContentStore's write path, submitBranch and  *)
(* rebaseOneBranch.                                                          *)
(*                                                                           *)
(* The tree is the set of saves it holds uncommitted, the branch the set it  *)
(* holds committed and the base commit it stands on.  Every save edits an    *)
(* entry of its own, so no save replaces another.  remote.git, GitHub and    *)
(* the merges of commits made there are not in this module: the branch holds *)
(* the editors' commits alone.                                               *)
EXTENDS Naturals, FiniteSets

CONSTANTS
  Save,          \* save requests, each of one entry
  Submit,        \* submit requests
  Worker,        \* the worker's rebase loop
  Free,          \* the lock's marker is not on disk
  MaxBase,       \* commits the base branch gains
  MaxRounds,     \* MAX_REBASE_ROUNDS
  MaxMishaps,    \* crashes and aborts that fail
  MaxTakeovers   \* live holders whose marker looks stale

Request == Save \union Submit
Proc == Request \union {Worker}

ASSUME ProcAssumption ==
  /\ Save \intersect Submit = {}
  /\ Worker \notin Request
  /\ Free \notin Proc

ASSUME BoundAssumption ==
  /\ MaxBase \in Nat /\ MaxRounds \in Nat \ {0}
  /\ MaxMishaps \in Nat /\ MaxTakeovers \in Nat

VARIABLES
  holder,      \* whose marker is on disk
  stale,       \* its owner is dead, and no longer refreshes it
  noticed,     \* holders whose onCompromised has fired
  dirty,       \* saves in the working tree, uncommitted
  committed,   \* saves in the branch's commits
  onto,        \* the base commit the branch stands on
  base,        \* the base branch's tip
  midRebase,   \* .git/rebase-merge is there
  origHead,    \* the commits an abort goes back to
  abandoned,   \* that rebase was left behind by a worker that is gone
  discarded,   \* saves that aborting an abandoned rebase reverted
  status,      \* branch.json's workflow status
  pc,          \* where each request is, and what it was answered
  stage,       \* where the worker is in rebaseOneBranch
  round,       \* git rebase calls of this rebase
  mishaps, takeovers

lockVars == <<holder, stale, noticed>>
treeVars == <<dirty, committed, onto, midRebase, origHead, abandoned,
              discarded>>
boundVars == <<mishaps, takeovers>>
vars == <<lockVars, treeVars, base, status, pc, stage, round, boundVars>>

Pending ==
  {"idle", "waiting", "inside", "written", "failing", "pushed", "released"}
Answered ==
  {"saved", "submitted", "busy", "unknown", "failed", "refused", "dead"}
InLock == {"inside", "written", "failing", "pushed"}
LockStages == {"recovering", "checking", "clean", "rebasing", "conflicted",
               "completed", "unfinished", "exiting", "releasing"}
Stages == {"idle", "asked", "down"} \union LockStages

Init ==
  /\ holder = Free /\ stale = FALSE /\ noticed = {}
  /\ dirty = {} /\ committed = {} /\ onto = 0 /\ base = 0
  /\ midRebase = FALSE /\ origHead = {} /\ abandoned = FALSE /\ discarded = {}
  /\ status = "editing"
  /\ pc = [r \in Request |-> "idle"]
  /\ stage = "idle" /\ round = 0
  /\ mishaps = 0 /\ takeovers = 0

-----------------------------------------------------------------------------
(* The lock: a marker directory that mkdir creates and its owner refreshes.  *)

Holds(p) == IF p = Worker THEN stage \in LockStages ELSE pc[p] \in InLock

(* A marker is taken when there is none, when its owner is dead, or when a   *)
(* live owner's refreshes do not show through the attribute cache.           *)
Acquire(p) ==
  /\ \/ (holder = Free \/ stale) /\ UNCHANGED takeovers
     \/ /\ holder # Free /\ ~stale
        /\ takeovers < MaxTakeovers /\ takeovers' = takeovers + 1
  /\ holder' = p /\ stale' = FALSE
  /\ noticed' = noticed \ {p}
  /\ UNCHANGED mishaps

(* Contention: ELOCKED. *)
Contended == holder # Free /\ ~stale

(* A release removes the marker, whoever's it is by now; after a compromise  *)
(* it is refused with ERELEASED, which is ignored.                           *)
ReleaseLock(p) ==
  IF p \in noticed
    THEN UNCHANGED lockVars
    ELSE holder' = Free /\ stale' = FALSE /\ UNCHANGED noticed

(* The refresh timer finds the marker gone or someone else's. *)
Notice(p) ==
  /\ Holds(p) /\ holder # p /\ p \notin noticed
  /\ noticed' = noticed \union {p}
  /\ UNCHANGED <<holder, stale, treeVars, base, status, pc, stage, round>>
  /\ UNCHANGED boundVars

-----------------------------------------------------------------------------
(* git rebase --abort: the branch goes back to where the rebase found it,    *)
(* and the tracked files with it.  An untracked new entry survives, so which *)
(* saves are reverted is open.  Without a rebase in progress git refuses.    *)
AbortRebase ==
  /\ midRebase' = FALSE /\ abandoned' = FALSE
  /\ \E reverted \in SUBSET dirty :
       dirty' = IF midRebase THEN dirty \ reverted ELSE dirty
  /\ committed' = IF midRebase THEN origHead ELSE committed
  /\ discarded' = IF abandoned
                    THEN discarded \union
                           ((dirty \union committed) \ (dirty' \union committed'))
                    ELSE discarded
  /\ UNCHANGED <<onto, origHead>>

AbortFails ==
  /\ midRebase
  /\ mishaps < MaxMishaps /\ mishaps' = mishaps + 1
  /\ UNCHANGED <<treeVars, takeovers>>

-----------------------------------------------------------------------------
(* Requests.  Each answers once.                                             *)

GoTo(r, to) == pc' = [pc EXCEPT ![r] = to]
Elsewhere == <<base, stage, round>>

(* The guards read branch.json: only an editing branch is written or         *)
(* submitted.                                                                *)
Admit(r) ==
  /\ pc[r] = "idle"
  /\ GoTo(r, IF status = "editing" THEN "waiting" ELSE "refused")
  /\ UNCHANGED <<lockVars, treeVars, status, Elsewhere, boundVars>>

Enter(r) ==
  /\ pc[r] = "waiting"
  /\ Acquire(r)
  /\ GoTo(r, "inside")
  /\ UNCHANGED <<treeVars, status, Elsewhere>>

(* The bounded wait runs out. *)
GiveUp(r) ==
  /\ pc[r] = "waiting" /\ Contended
  /\ GoTo(r, "busy")
  /\ UNCHANGED <<lockVars, treeVars, status, Elsewhere, boundVars>>

(* ContentStore.write puts the entry's file in the tree. *)
Write(s) ==
  /\ s \in Save /\ pc[s] = "inside"
  /\ dirty' = dirty \union {s}
  /\ GoTo(s, "written")
  /\ UNCHANGED <<committed, onto, midRebase, origHead, abandoned, discarded>>
  /\ UNCHANGED <<lockVars, status, Elsewhere, boundVars>>

(* A version conflict or an I/O error: nothing was written. *)
WriteRefused(s) ==
  /\ s \in Save /\ pc[s] = "inside"
  /\ GoTo(s, "failing")
  /\ UNCHANGED <<lockVars, treeVars, status, Elsewhere, boundVars>>

(* submitBranch commits the whole tree and pushes.  Its checkout can succeed *)
(* in a clone whose rebase is stopped: the commit is then on the branch, and *)
(* an abort goes back past it.  A branch with no changes is refused.         *)
CommitAndPush(b) ==
  /\ b \in Submit /\ pc[b] = "inside"
  /\ dirty \union committed # {}
  /\ committed' = committed \union dirty /\ dirty' = {}
  /\ \/ GoTo(b, "pushed")
     \/ GoTo(b, "failing")
  /\ UNCHANGED <<onto, midRebase, origHead, abandoned, discarded>>
  /\ UNCHANGED <<lockVars, status, Elsewhere, boundVars>>

(* Nothing to submit (a commit made for it is taken back, its changes kept), *)
(* or a git step before the commit fails.                                    *)
SubmitRefused(b) ==
  /\ b \in Submit /\ pc[b] = "inside"
  /\ GoTo(b, "failing")
  /\ UNCHANGED <<lockVars, treeVars, status, Elsewhere, boundVars>>

(* withContentWriteLock's finally.  A write that was done is reported        *)
(* unknown when the lock was lost by then.                                   *)
Leave(r) ==
  /\ pc[r] \in {"written", "failing", "pushed"}
  /\ ReleaseLock(r)
  /\ GoTo(r, CASE pc[r] = "failing" -> "failed"
               [] pc[r] # "failing" /\ r \in noticed -> "unknown"
               [] pc[r] = "written" /\ r \notin noticed -> "saved"
               [] pc[r] = "pushed" /\ r \notin noticed -> "released")
  /\ UNCHANGED <<treeVars, status, Elsewhere, boundVars>>

(* The submit handler's last save of branch.json, outside the lock, unless   *)
(* GitHub finds nothing between the branch and its base.                     *)
RecordSubmitted(b) ==
  /\ pc[b] = "released"
  /\ \/ status' = "submitted" /\ GoTo(b, "submitted")
     \/ GoTo(b, "failed") /\ UNCHANGED status
  /\ UNCHANGED <<lockVars, treeVars, Elsewhere, boundVars>>

Withdraw ==
  /\ status = "submitted"
  /\ status' = "editing"
  /\ UNCHANGED <<lockVars, treeVars, pc, Elsewhere, boundVars>>

(* The container is killed: its marker stays, and goes stale. *)
RequestDies(r) ==
  /\ pc[r] \in Pending \ {"idle"}
  /\ mishaps < MaxMishaps /\ mishaps' = mishaps + 1
  /\ GoTo(r, "dead")
  /\ stale' = (stale \/ holder = r)
  /\ UNCHANGED <<holder, noticed, treeVars, status, Elsewhere, takeovers>>

-----------------------------------------------------------------------------
(* The rebase loop, one branch.                                              *)

Step(from, to) == stage = from /\ stage' = to
Outside == <<base, status, pc>>

BaseAdvances ==
  /\ base < MaxBase /\ base' = base + 1
  /\ UNCHANGED <<lockVars, treeVars, status, pc, stage, round, boundVars>>

(* The status is read before the lock is taken; a branch in review is left   *)
(* alone.                                                                    *)
ReadStatus ==
  /\ status = "editing"
  /\ Step("idle", "asked")
  /\ UNCHANGED <<lockVars, treeVars, Outside, round, boundVars>>

(* A fault of TryLock that WedgeHeals excludes: a marker is honoured however *)
(* old it is, a crashed worker's own too.                                    *)
TryLockNeverStale ==
  /\ \/ Step("asked", "recovering") /\ holder = Free /\ Acquire(Worker)
     \/ /\ holder # Free /\ Step("asked", "idle")
        /\ UNCHANGED <<lockVars, boundVars>>
  /\ UNCHANGED <<treeVars, Outside, round>>

(* One try: on contention the branch is skipped until the next cycle. *)
TryLock ==
  /\ \/ Step("asked", "recovering") /\ Acquire(Worker)
     \/ Contended /\ Step("asked", "idle") /\ UNCHANGED <<lockVars, boundVars>>
  /\ UNCHANGED <<treeVars, Outside, round>>

(* A rebase left by a crash is this worker's own: abort it.  What was saved  *)
(* into the clone meanwhile is reverted.                                     *)
RecoverInterrupted ==
  /\ Step("recovering", "checking")
  /\ AbortRebase
  /\ UNCHANGED <<lockVars, Outside, round, boundVars>>

RecoveryFails ==
  /\ Step("recovering", "exiting")
  /\ AbortFails
  /\ UNCHANGED <<lockVars, Outside, round>>

(* A fault of CheckClean that SavesSurvive excludes: the check is passed     *)
(* whatever the tree holds.                                                  *)
CheckCleanIgnored ==
  /\ Step("checking", "clean")
  /\ UNCHANGED <<lockVars, treeVars, Outside, round, boundVars>>

(* The dirty check, inside the lock. *)
CheckClean ==
  /\ stage = "checking"
  /\ stage' = IF dirty = {} THEN "clean" ELSE "exiting"
  /\ UNCHANGED <<lockVars, treeVars, Outside, round, boundVars>>

(* The base is fetched and compared. *)
CheckBehind ==
  /\ stage = "clean"
  /\ stage' = IF onto < base THEN "rebasing" ELSE "exiting"
  /\ round' = 0
  /\ UNCHANGED <<lockVars, treeVars, Outside, boundVars>>

(* A fault of MayRebase that TypeOK excludes: the rounds are not limited. *)
MayRebaseUnbounded ==
  /\ stage = "rebasing"
  /\ Worker \notin noticed
  /\ round' = round + 1

(* runRebaseRounds: before every git call the loop looks whether the lock    *)
(* was lost.                                                                 *)
MayRebase ==
  /\ stage = "rebasing"
  /\ Worker \notin noticed
  /\ round < MaxRounds /\ round' = round + 1

RebaseCompletes ==
  /\ MayRebase
  /\ midRebase => committed = origHead
  /\ stage' = "completed"
  /\ onto' = base /\ midRebase' = FALSE
  /\ UNCHANGED <<dirty, committed, origHead, abandoned, discarded>>
  /\ UNCHANGED <<lockVars, Outside, boundVars>>

RebaseStops ==
  /\ MayRebase
  /\ stage' = "conflicted"
  /\ midRebase' = TRUE
  /\ origHead' = IF midRebase THEN origHead ELSE committed
  /\ UNCHANGED <<dirty, committed, onto, abandoned, discarded>>
  /\ UNCHANGED <<lockVars, Outside, boundVars>>

(* git checkout --theirs: whatever was saved over a conflicted file since    *)
(* is overwritten with the branch's committed version.                       *)
ResolveConflicts ==
  /\ stage = "conflicted"
  /\ \E overwritten \in SUBSET dirty : dirty' = dirty \ overwritten
  /\ stage' \in {"rebasing", "unfinished"}
  /\ UNCHANGED <<committed, onto, midRebase, origHead, abandoned, discarded>>
  /\ UNCHANGED <<lockVars, Outside, round, boundVars>>

(* An unexpected error, which aborts at once and ignores the abort's own. *)
RebaseErrors ==
  /\ MayRebase
  /\ stage' = "unfinished"
  /\ \/ AbortRebase /\ UNCHANGED boundVars
     \/ AbortFails
  /\ UNCHANGED <<lockVars, Outside>>

(* The rounds run out, or the lock was lost. *)
RebaseGivesUp ==
  /\ Step("rebasing", "unfinished")
  /\ round = MaxRounds \/ Worker \in noticed
  /\ UNCHANGED <<lockVars, treeVars, Outside, round, boundVars>>

(* Skipped when the lock was lost, a recorded failure otherwise: aborted     *)
(* either way.                                                               *)
AbortUnfinished ==
  /\ Step("unfinished", "exiting")
  /\ \/ AbortRebase /\ UNCHANGED boundVars
     \/ AbortFails
  /\ UNCHANGED <<lockVars, Outside, round>>

(* The caches' markers, the conflict record and the rewritten history are    *)
(* carried forward whatever became of the lock.                              *)
FinishRebase ==
  /\ Step("completed", "exiting")
  /\ UNCHANGED <<lockVars, treeVars, Outside, round, boundVars>>

(* A git step throws past everything but the finally. *)
Throws ==
  /\ stage \in {"checking", "clean", "conflicted", "completed"}
  /\ stage' = "exiting"
  /\ UNCHANGED <<lockVars, treeVars, Outside, round, boundVars>>

(* A fault of AbortOnExit that NeverWedged excludes: an exit that a throw    *)
(* took does not abort.                                                      *)
AbortOnExitOmitted ==
  /\ Step("exiting", "releasing")
  /\ UNCHANGED <<lockVars, treeVars, Outside, round, boundVars>>

(* The finally: no exit leaves the clone mid-rebase while the lock is held. *)
AbortOnExit ==
  /\ Step("exiting", "releasing")
  /\ \/ AbortRebase /\ UNCHANGED boundVars
     \/ AbortFails
  /\ UNCHANGED <<lockVars, Outside, round>>

Release ==
  /\ Step("releasing", "idle")
  /\ ReleaseLock(Worker)
  /\ abandoned' = midRebase
  /\ UNCHANGED <<dirty, committed, onto, midRebase, origHead, discarded>>
  /\ UNCHANGED <<Outside, round, boundVars>>

WorkerDies ==
  /\ stage \notin {"idle", "down"}
  /\ mishaps < MaxMishaps /\ mishaps' = mishaps + 1
  /\ stage' = "down"
  /\ stale' = (stale \/ holder = Worker)
  /\ noticed' = noticed \ {Worker}
  /\ abandoned' = midRebase
  /\ UNCHANGED <<dirty, committed, onto, midRebase, origHead, discarded>>
  /\ UNCHANGED <<holder, Outside, round, takeovers>>

WorkerRestarts ==
  /\ Step("down", "idle")
  /\ UNCHANGED <<lockVars, treeVars, Outside, round, boundVars>>

-----------------------------------------------------------------------------
(* The next-state relation and the specification.                            *)

SaveStep(s) == Write(s) \/ WriteRefused(s)
SubmitStep(b) == CommitAndPush(b) \/ SubmitRefused(b) \/ RecordSubmitted(b)
RequestStep(r) ==
  Enter(r) \/ GiveUp(r) \/ SaveStep(r) \/ SubmitStep(r) \/ Leave(r)

Recovery == RecoverInterrupted \/ RecoveryFails
Rounds ==
  \/ RebaseCompletes \/ RebaseStops \/ ResolveConflicts \/ RebaseErrors
  \/ RebaseGivesUp
Exit == AbortUnfinished \/ FinishRebase \/ AbortOnExit \/ Release
WorkerStep ==
  \/ ReadStatus \/ TryLock \/ Recovery \/ CheckClean \/ CheckBehind \/ Rounds
  \/ Exit \/ WorkerRestarts

Next ==
  \/ \E r \in Request : Admit(r) \/ RequestStep(r) \/ RequestDies(r)
  \/ \E p \in Proc : Notice(p)
  \/ Withdraw \/ BaseAdvances
  \/ WorkerStep \/ Throws \/ WorkerDies

Spec == Init /\ [][Next]_vars

(* A Lambda runs a request it has taken to an answer or is killed; the       *)
(* worker's sync loop runs every few minutes and systemd restarts it.        *)
Fairness ==
  /\ \A r \in Request : WF_vars(RequestStep(r))
  /\ WF_vars(WorkerStep)

FairSpec == Spec /\ Fairness

-----------------------------------------------------------------------------
(* Properties.                                                               *)

TypeOK ==
  /\ holder \in Proc \union {Free} /\ stale \in BOOLEAN
  /\ noticed \subseteq Proc
  /\ dirty \subseteq Save /\ committed \subseteq Save
  /\ origHead \subseteq Save /\ discarded \subseteq Save
  /\ onto \in 0..MaxBase /\ base \in onto..MaxBase
  /\ midRebase \in BOOLEAN /\ abandoned \in BOOLEAN
  /\ status \in {"editing", "submitted"}
  /\ pc \in [Request -> Pending \union Answered]
  /\ stage \in Stages /\ round \in 0..MaxRounds
  /\ mishaps \in 0..MaxMishaps /\ takeovers \in 0..MaxTakeovers

Kept == dirty \union committed

(* A save that was answered 200 stays in the tree or in the branch while no  *)
(* live holder's marker is taken over.  Only a crash or a failed abort costs *)
(* one, by the recovery of the rebase it left behind: the loss that          *)
(* rebaseOneBranch accepts.                                                  *)
SavesSurvive ==
  takeovers = 0 =>
    \A s \in Save : pc[s] = "saved" =>
                      s \in Kept \/ (mishaps > 0 /\ s \in discarded)

(* While every process lives and every abort works, no exit of               *)
(* rebaseOneBranch leaves the clone mid-rebase: it is so only inside the     *)
(* worker's hold of the content-write lock, which is then on disk unless a   *)
(* live holder's marker was taken over.                                      *)
NeverWedged ==
  mishaps = 0 /\ midRebase =>
    Holds(Worker) /\ (takeovers = 0 => holder = Worker)

(* An interrupted rebase does not stay: an editing branch's clone is         *)
(* eventually out of it, although such a clone is never clean.               *)
WedgeHeals == midRebase ~> (~midRebase \/ status = "submitted")

(* What rebaseOneBranch says of a branch in review: its history is not       *)
(* rewritten by a rebase.                                                    *)
ReviewIsUntouched == [][status = "submitted" => onto' = onto]_vars
=============================================================================
