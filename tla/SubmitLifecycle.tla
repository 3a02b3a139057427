-------------------------- MODULE SubmitLifecycle --------------------------
(* One branch on its way through review: the requests that submit, withdraw,  *)
(* send back, approve and archive it (api/branch-status.ts, branch-           *)
(* withdraw.ts, branch-review.ts, branch-merge.ts over api/github-sync.ts),   *)
(* the tasks they queue and the worker that runs them (executeTask and the    *)
(* outcome writes of worker/task-runner.ts), the poll of pull requests        *)
(* (pollMergeState of worker/rebase.ts), and the pull requests on GitHub.     *)
(*                                                                            *)
(* A request reads branch.json, commits, queues its task and saves: other     *)
(* requests and the worker act between these.  A submit is numbered by its    *)
(* submittedAt; clocks of different hosts are taken to agree.  What a pull    *)
(* request shows is the submit whose title and body it has.  The queue keeps  *)
(* the promise of TaskLedger; its files and crashes are TaskRunner's, and     *)
(* what a push carries is HistorySync's.                                      *)
EXTENDS Naturals, FiniteSets

CONSTANTS
  User,          \* whoever sends requests, one at a time each
  MaxSubmits,    \* submits that reach the queue
  MaxReviews,    \* approvals, branches taken back, tasks requeued, and wrong
                 \* marks as merged (a bound)
  MaxRetries,    \* of a task (DEFAULT_MAX_RETRIES)
  MaxEnded,      \* pull requests that people merge or close (a bound)
  MaxMishaps,    \* failures, releases and requests that die
  NoTask,
  NoAnswer       \* no answer of GitHub is waiting to be recorded

ASSUME BoundAssumption ==
  /\ MaxSubmits \in Nat /\ MaxReviews \in Nat
  /\ MaxRetries \in Nat /\ MaxEnded \in Nat /\ MaxMishaps \in Nat

Submits == 1..MaxSubmits
Pulls == 1..(MaxEnded + 1)
None == 0        \* no submit, no pull request

Task == [id : Nat, kind : {"submit", "draft"}, at : 0..MaxSubmits,
         pr : Pulls \union {None}, again : BOOLEAN, tries : 0..MaxRetries]

ASSUME UserAssumption == IsFiniteSet(User)

ASSUME SentinelAssumption ==
  NoTask \notin Task /\ NoAnswer \notin [pr : Pulls, state : {"open", "closed", "merged"}]

VARIABLES
  meta,          \* branch.json
  remote,        \* submits whose commits are in remote.git
  github,        \* those on GitHub's branch
  pulls,         \* the pull requests
  queue,         \* pending tasks
  failed,        \* failed tasks
  running,       \* the task the worker has
  stage,         \* how far its attempt is
  result,        \* the pull request it has opened or updated
  answer,        \* what the poll read
  step,          \* where each user's request is
  held,          \* what it keeps of the branch.json it read, or the submit it queued
  stamped,       \* the newest submittedAt
  carries,       \* the commits each submit had in remote.git
  drafted,       \* pull requests drafted for a withdrawal nothing has followed
  raced,         \* someone acted between a request's queueing and its save
  ids,           \* of tasks
  reviews,       \* reviews, withdrawals and retries asked for
  mishaps

githubVars == <<github, pulls>>
queueVars == <<queue, failed, ids>>
workerVars == <<running, stage, result>>
requestVars == <<step, held>>
historyVars == <<stamped, carries, drafted, raced>>
boundVars == <<reviews, mishaps>>
vars == <<meta, remote, githubVars, queueVars, workerVars, answer, requestVars,
          historyVars, boundVars>>

InReview == meta.status \in {"submitted", "approved"}

(* What a request keeps between its reading and its save. *)
NothingHeld == [pr |-> None, closed |-> FALSE, at |-> None, sync |-> "none",
                unfinished |-> FALSE]

NoPull == [state |-> "none", draft |-> FALSE, shows |-> None, head |-> 0]

Init ==
  /\ meta = [status |-> "editing", at |-> None, sync |-> "none",
             unfinished |-> FALSE, pr |-> None, prState |-> "none", left |-> FALSE]
  /\ remote = 0 /\ github = 0
  /\ pulls = [p \in Pulls |-> NoPull]
  /\ queue = {} /\ failed = {} /\ ids = 0
  /\ running = NoTask /\ stage = "idle" /\ result = None
  /\ answer = NoAnswer
  /\ step = [u \in User |-> "idle"] /\ held = [u \in User |-> NothingHeld]
  /\ stamped = 0 /\ carries = [n \in Submits |-> 0]
  /\ drafted = {} /\ raced = FALSE
  /\ reviews = 0 /\ mishaps = 0

(* Between its queueing and its save, a request is ahead of branch.json. *)
Unsaved(u) == step[u] \in {"record", "withdraw", "reopen"}

SeenBy(u) == raced' = (raced \/ \E v \in User \ {u} : Unsaved(v))
SeenByWorker == raced' = (raced \/ \E v \in User : Unsaved(v))

Reads(u, next) ==
  /\ held' = [held EXCEPT ![u].pr = meta.pr, ![u].closed = (meta.prState = "closed")]
  /\ step' = [step EXCEPT ![u] = next]

GoTo(u, next) == step' = [step EXCEPT ![u] = next]

Answered(u) == GoTo(u, "idle") /\ held' = [held EXCEPT ![u] = NothingHeld]

(* enqueueTask. *)
Enqueue(kind, at, pr) ==
  /\ queue' = queue \union {[id |-> ids + 1, kind |-> kind, at |-> at, pr |-> pr,
                             again |-> FALSE, tries |-> 0]}
  /\ ids' = ids + 1

-----------------------------------------------------------------------------
(* submitBranchHandler. *)

RequestRest == <<githubVars, workerVars, answer, failed>>

(* Only an editing branch; its content is committed and pushed to remote.git. *)
Submit(u) ==
  /\ step[u] = "idle" /\ meta.status = "editing"
  /\ stamped + Cardinality({v \in User : step[v] \in {"commit", "queue"}}) < MaxSubmits
  /\ Reads(u, "commit")
  /\ UNCHANGED <<meta, remote, queue, ids, historyVars, boundVars, RequestRest>>

(* What was saved since the last submit is committed and pushed, if anything; *)
(* or the branch has nothing its base lacks, or the push is refused.          *)
SubmitBranch(u) ==
  /\ step[u] = "commit"
  /\ \/ /\ remote' \in {remote, remote + 1} \ {0} /\ remote' <= MaxSubmits
        /\ GoTo(u, "queue") /\ UNCHANGED held
     \/ Answered(u) /\ UNCHANGED remote
  /\ UNCHANGED <<meta, queue, ids, historyVars, boundVars, RequestRest>>

(* syncSubmitPr: the submit is stamped and its task queued, or that fails and *)
(* only a new submit can finish it.                                          *)
SyncSubmitPr(u) ==
  /\ step[u] = "queue"
  /\ stamped' = stamped + 1
  /\ carries' = [carries EXCEPT ![stamped + 1] = remote]
  /\ drafted' = {}
  /\ \/ /\ Enqueue("submit", stamped + 1, None)
        /\ held' = [held EXCEPT ![u] = [@ EXCEPT !.at = stamped + 1,
                                          !.sync = "pending", !.unfinished = FALSE]]
        /\ UNCHANGED mishaps
     \/ /\ mishaps < MaxMishaps /\ mishaps' = mishaps + 1
        /\ held' = [held EXCEPT ![u] = [@ EXCEPT !.at = stamped + 1,
                                          !.sync = "failed", !.unfinished = TRUE]]
        /\ UNCHANGED <<queue, ids>>
  /\ GoTo(u, "record")
  /\ UNCHANGED <<meta, remote, raced, reviews, RequestRest>>

(* The save is unconditional, and puts back the number the request read. *)
RecordSubmitted(u) ==
  /\ step[u] = "record"
  /\ meta' = [meta EXCEPT !.status = "submitted", !.at = held[u].at,
                !.sync = held[u].sync, !.unfinished = held[u].unfinished,
                !.pr = held[u].pr]
  /\ SeenBy(u)
  /\ Answered(u)
  /\ UNCHANGED <<remote, queue, ids, stamped, carries, drafted, boundVars,
                 RequestRest>>

-----------------------------------------------------------------------------
(* withdrawBranchHandler, requestChangesHandler, approveBranchHandler and     *)
(* markAsMergedHandler.                                                      *)

(* syncConvertToDraft, which gives up when the task cannot be queued.        *)
SyncConvertToDraft ==
  IF meta.pr = None THEN UNCHANGED <<queue, ids, mishaps>>
  ELSE \/ Enqueue("draft", stamped, meta.pr) /\ UNCHANGED mishaps
       \/ /\ mishaps < MaxMishaps /\ mishaps' = mishaps + 1
          /\ UNCHANGED <<queue, ids>>

Withdraw(u) ==
  /\ step[u] = "idle" /\ InReview
  /\ reviews < MaxReviews /\ reviews' = reviews + 1
  /\ IF meta.prState = "closed" THEN UNCHANGED <<queue, ids, mishaps>>
     ELSE SyncConvertToDraft
  /\ Reads(u, "withdraw")
  /\ UNCHANGED <<meta, remote, historyVars, RequestRest>>

RecordWithdrawn(u) ==
  /\ step[u] = "withdraw"
  /\ meta' = IF held[u].closed
               THEN [meta EXCEPT !.status = "editing", !.pr = None, !.prState = "none"]
               ELSE [meta EXCEPT !.status = "editing"]
  /\ SeenBy(u)
  /\ Answered(u)
  /\ UNCHANGED <<remote, queue, ids, stamped, carries, drafted, boundVars,
                 RequestRest>>

RequestChanges(u) ==
  /\ step[u] = "idle" /\ InReview
  /\ reviews < MaxReviews /\ reviews' = reviews + 1
  /\ SyncConvertToDraft
  /\ Reads(u, "reopen")
  /\ UNCHANGED <<meta, remote, historyVars, RequestRest>>

(* saveIf: a branch that left review meanwhile is refused. *)
RecordChangesRequested(u) ==
  /\ step[u] = "reopen"
  /\ meta' = IF InReview THEN [meta EXCEPT !.status = "editing"] ELSE meta
  /\ SeenBy(u)
  /\ Answered(u)
  /\ UNCHANGED <<remote, queue, ids, stamped, carries, drafted, boundVars,
                 RequestRest>>

Approve(u) ==
  /\ step[u] = "idle" /\ meta.status = "submitted" /\ meta.prState # "closed"
  /\ reviews < MaxReviews /\ reviews' = reviews + 1
  /\ Reads(u, "approve")
  /\ UNCHANGED <<meta, remote, queue, ids, historyVars, mishaps, RequestRest>>

MayApprove == meta.status = "submitted" /\ ~meta.unfinished

RecordApproved(u) ==
  /\ step[u] = "approve"
  /\ meta' = IF MayApprove THEN [meta EXCEPT !.status = "approved"] ELSE meta
  /\ SeenBy(u)
  /\ Answered(u)
  /\ UNCHANGED <<remote, queue, ids, stamped, carries, drafted, boundVars,
                 RequestRest>>

(* owesSubmit: only a submit writes pending-sync. *)
OwesSubmit == InReview /\ (meta.unfinished \/ meta.sync = "pending")

(* buildMergedBranchUpdate. *)
Merged ==
  [meta EXCEPT !.status = "archived", !.prState = "merged", !.unfinished = FALSE,
               !.left = @ \/ OwesSubmit]

(* An admin says that the pull request has merged.  A deployment that queues  *)
(* its work has no GitHub to ask whether it has: how often an admin is wrong  *)
(* is bounded.                                                               *)
MarkAsMerged(u) ==
  /\ step[u] = "idle" /\ InReview /\ meta.pr # None
  /\ \/ pulls[meta.pr].state = "merged" /\ UNCHANGED reviews
     \/ /\ pulls[meta.pr].state # "merged"
        /\ reviews < MaxReviews /\ reviews' = reviews + 1
  /\ Reads(u, "archive")
  /\ UNCHANGED <<meta, remote, queue, ids, historyVars, mishaps, RequestRest>>

Archive(u) ==
  /\ step[u] = "archive"
  /\ meta' = Merged
  /\ SeenBy(u)
  /\ Answered(u)
  /\ UNCHANGED <<remote, queue, ids, stamped, carries, drafted, boundVars,
                 RequestRest>>

(* A request that dies leaves what it has done so far. *)
Die(u) ==
  /\ step[u] # "idle"
  /\ mishaps < MaxMishaps /\ mishaps' = mishaps + 1
  /\ raced' = (raced \/ Unsaved(u))
  /\ Answered(u)
  /\ UNCHANGED <<meta, remote, queue, ids, stamped, carries, drafted,
                 reviews, RequestRest>>

Request(u) ==
  \/ SubmitBranch(u) \/ SyncSubmitPr(u) \/ RecordSubmitted(u)
  \/ RecordWithdrawn(u) \/ RecordChangesRequested(u) \/ RecordApproved(u)
  \/ Archive(u)

NewRequest(u) ==
  Submit(u) \/ Withdraw(u) \/ RequestChanges(u) \/ Approve(u) \/ MarkAsMerged(u)

-----------------------------------------------------------------------------
(* The worker: processTaskQueue and executeTask.  A task's outcome is written  *)
(* to the queue and to branch.json in one step; TaskRunner has what a crash    *)
(* between the two loses.                                                     *)

WorkerRest == <<remote, answer, requestVars, stamped, carries, reviews>>

(* A fault of IsSupersededSubmit that WithdrawnStaysDraft excludes: only a     *)
(* newer submit supersedes one.                                              *)
SupersededByNewerOnly(t) ==
  \/ meta.status = "archived"
  \/ ~(t.tries = 0 /\ ~t.again /\ meta.at < t.at) /\ meta.at # t.at

(* A fault of IsSupersededSubmit that LatestSubmitStands excludes: any submit  *)
(* of a branch in review is its latest.                                      *)
SupersededByLeavingOnly(t) ==
  \/ meta.status = "archived"
  \/ ~(t.tries = 0 /\ ~t.again /\ meta.at < t.at) /\ ~InReview

(* A first run may come before the save of the submit that queued it. *)
IsSupersededSubmit(t) ==
  \/ meta.status = "archived"
  \/ /\ ~(t.tries = 0 /\ ~t.again /\ meta.at < t.at)
     /\ ~InReview \/ meta.at # t.at

(* Whether the worker reads branch.json ahead of the save of another request   *)
(* than the submit that queued the task.                                     *)
SeenByRunOf(t) ==
  raced' = (raced \/ \E v \in User : Unsaved(v) /\ ~(step[v] = "record" /\ held[v].at = t.at))

(* The oldest task is claimed, those that back off aside. *)
Dequeue(t) ==
  /\ stage = "idle" /\ t \in queue
  /\ \A q \in queue : q.id < t.id => q.tries > 0
  /\ queue' = queue \ {t}
  /\ running' = t
  /\ \/ t.kind = "draft" /\ stage' = "draft" /\ UNCHANGED raced
     \/ /\ t.kind = "submit"
        /\ IF IsSupersededSubmit(t)
             THEN stage' = "superseded" /\ SeenByWorker
             ELSE stage' = "push" /\ SeenByRunOf(t)
  /\ UNCHANGED <<meta, githubVars, failed, ids, result, drafted, mishaps,
                 WorkerRest>>

PushBranch ==
  /\ stage = "push" /\ stage' = "pull"
  /\ github' = remote
  /\ UNCHANGED <<meta, pulls, queueVars, running, result, drafted, raced, mishaps,
                 WorkerRest>>

IsOpen(p) == pulls[p].state = "open"
MergedHeads == {pulls[p].head : p \in {p \in Pulls : pulls[p].state = "merged"}}
NoCommitsBetween == \E h \in MergedHeads : github <= h

Unopened == {p \in Pulls : pulls[p].state = "none"}

(* createOrUpdatePullRequest: an open pull request gets the submit's text and  *)
(* leaves draft, if GitHub lets it; otherwise one is opened.                 *)
OpenPull ==
  /\ stage = "pull"
  /\ IF \E p \in Pulls : IsOpen(p)
       THEN \E p \in Pulls :
              /\ IsOpen(p)
              /\ \/ /\ pulls' = [pulls EXCEPT ![p].shows = running.at,
                                              ![p].draft = FALSE]
                    /\ UNCHANGED mishaps
                 \/ /\ pulls[p].draft
                    /\ mishaps < MaxMishaps /\ mishaps' = mishaps + 1
                    /\ pulls' = [pulls EXCEPT ![p].shows = running.at]
              /\ result' = p
              /\ stage' = "answered"
       ELSE /\ IF NoCommitsBetween
                 THEN stage' = "nothing" /\ UNCHANGED <<pulls, result>>
                 ELSE \E p \in Unopened :
                        /\ \A q \in Unopened : p <= q
                        /\ pulls' = [pulls EXCEPT ![p] =
                                       [state |-> "open", draft |-> FALSE,
                                        shows |-> running.at, head |-> 0]]
                        /\ result' = p
                        /\ stage' = "answered"
            /\ UNCHANGED mishaps
  /\ UNCHANGED <<meta, github, queueVars, running, drafted, raced, WorkerRest>>

(* GitHub converts no pull request that is merged or closed. *)
ConvertToDraft ==
  /\ stage = "draft"
  /\ IF IsOpen(running.pr)
       THEN /\ pulls' = [pulls EXCEPT ![running.pr].draft = TRUE]
            /\ drafted' = IF running.at = stamped THEN drafted \union {running.pr}
                                                  ELSE drafted
            /\ result' = running.pr
            /\ stage' = "answered"
       ELSE stage' = "refused" /\ UNCHANGED <<pulls, drafted, result>>
  /\ UNCHANGED <<meta, github, queueVars, running, raced, mishaps, WorkerRest>>

Finished == running' = NoTask /\ stage' = "idle" /\ result' = None

IsOlderSubmit == running.kind = "submit" /\ meta.at # running.at

AwaitsSubmitRetry == meta.unfinished /\ InReview

(* A fault of LeavesSync that OwedIsTold excludes: any task that succeeds      *)
(* clears the failure of a submit.                                           *)
LeavesSyncOfOlderOnly == IsOlderSubmit

(* Whether the success of the task says nothing of the latest submit. *)
LeavesSync == IsOlderSubmit \/ (running.kind = "draft" /\ AwaitsSubmitRetry)

(* updateBranchMetadata.  A pull request opened as the branch merged is not    *)
(* its own, and a state that ends a pull request stands until the next poll.  *)
RecordSuccess ==
  /\ stage = "answered"
  /\ meta' =
       LET synced == IF LeavesSync THEN meta
                     ELSE [meta EXCEPT !.sync = "synced", !.unfinished = FALSE]
       IN IF meta.status = "archived" THEN synced
          ELSE [synced EXCEPT !.pr = result,
                  !.prState = IF @ \in {"merged", "closed"} THEN @ ELSE "open"]
  /\ SeenByWorker
  /\ Finished
  /\ UNCHANGED <<githubVars, queueVars, drafted, mishaps, WorkerRest>>

(* A fault of SettlesSuperseded that PendingEnds excludes: an editing branch   *)
(* is left as it is.                                                         *)
SettlesArchivedOnly == meta.status = "archived" /\ meta.sync \in {"pending", "failed"}

(* Whether a superseded submit was the last thing the branch waited for. *)
SettlesSuperseded ==
  \/ meta.status = "editing" /\ (meta.sync = "pending" \/ meta.unfinished)
  \/ meta.status = "archived" /\ meta.sync \in {"pending", "failed"}

RecordSuperseded ==
  /\ stage = "superseded"
  /\ meta' = IF SettlesSuperseded
               THEN [meta EXCEPT !.sync = "synced", !.unfinished = FALSE]
               ELSE meta
  /\ SeenByWorker
  /\ Finished
  /\ UNCHANGED <<githubVars, queueVars, drafted, mishaps, WorkerRest>>

(* updateBranchMetadataOnFailure.  Only a submit that failed before its pull   *)
(* request is unlocked; an approval that covers what won't be published goes. *)
OnFailure(unlock) ==
  CASE /\ unlock /\ meta.status = "submitted"
       /\ meta.pr = None /\ meta.at = running.at
         -> [meta EXCEPT !.status = "editing", !.sync = "failed"]
    [] IsOlderSubmit -> meta
    [] unlock \/ running.kind = "draft" -> [meta EXCEPT !.sync = "failed"]
    [] meta.status = "archived" -> [meta EXCEPT !.sync = "failed", !.left = TRUE]
    [] OTHER -> [meta EXCEPT !.sync = "failed", !.unfinished = TRUE,
                   !.status = IF @ = "approved" THEN "submitted" ELSE @]

FailTask(unlock) ==
  /\ failed' = failed \union {running}
  /\ meta' = OnFailure(unlock)
  /\ SeenByWorker
  /\ UNCHANGED <<queue, ids>>

(* A fault of RetryTask that TypeOK excludes: the retries are not counted. *)
RetryTaskForEver ==
  /\ queue' = queue \union {[running EXCEPT !.tries = @ + 1]}
  /\ UNCHANGED <<meta, raced, failed, ids>>

RetryTask ==
  /\ running.tries < MaxRetries
  /\ queue' = queue \union {[running EXCEPT !.tries = @ + 1]}
  /\ UNCHANGED <<meta, raced, failed, ids>>

(* GitHub's own refusals: nothing between branch and base is permanent, a      *)
(* conversion is tried again.                                                *)
Refused ==
  /\ \/ stage = "nothing" /\ FailTask(TRUE)
     \/ stage = "refused" /\ IF running.tries < MaxRetries THEN RetryTask
                                                          ELSE FailTask(FALSE)
  /\ Finished
  /\ UNCHANGED <<githubVars, drafted, mishaps, WorkerRest>>

(* A step fails, or its answer is lost: for now, or for good. *)
Fail ==
  /\ stage \in {"push", "pull", "draft", "answered"}
  /\ mishaps < MaxMishaps /\ mishaps' = mishaps + 1
  /\ RetryTask \/ FailTask(FALSE)
  /\ Finished
  /\ UNCHANGED <<githubVars, drafted, WorkerRest>>

(* A drain gives the task back as it was, and so does the recovery of one a    *)
(* dead worker had.                                                          *)
Release ==
  /\ stage \in {"push", "pull", "draft", "answered"}
  /\ mishaps < MaxMishaps /\ mishaps' = mishaps + 1
  /\ queue' = queue \union {running}
  /\ Finished
  /\ UNCHANGED <<meta, githubVars, failed, ids, drafted, raced, WorkerRest>>

(* An admin tries a failed task again, under a new id. *)
RequeueFailed(t) ==
  /\ t \in failed
  /\ reviews < MaxReviews /\ reviews' = reviews + 1
  /\ failed' = failed \ {t}
  /\ queue' = queue \union {[t EXCEPT !.id = ids + 1, !.again = TRUE, !.tries = 0]}
  /\ ids' = ids + 1
  /\ UNCHANGED <<meta, remote, githubVars, workerVars, answer, requestVars,
                 historyVars, mishaps>>

-----------------------------------------------------------------------------
(* pollMergeState, and the people on GitHub. *)

PollRest == <<remote, queueVars, workerVars, requestVars, stamped, carries,
              drafted, boundVars>>

PollRead ==
  /\ answer = NoAnswer
  /\ InReview /\ meta.pr # None
  /\ answer' = [pr |-> meta.pr, state |-> pulls[meta.pr].state]
  /\ UNCHANGED <<meta, githubVars, raced, PollRest>>

(* What is recorded is not held against the pull request the branch has now. *)
PollRecord ==
  /\ answer # NoAnswer
  /\ meta' = IF answer.state = "merged" THEN Merged
             ELSE [meta EXCEPT !.prState = answer.state]
  /\ answer' = NoAnswer
  /\ SeenByWorker
  /\ UNCHANGED <<githubVars, PollRest>>

Ended == {p \in Pulls : pulls[p].state \in {"closed", "merged"}}

MergePull(p) ==
  /\ IsOpen(p) /\ ~pulls[p].draft
  /\ Cardinality(Ended) < MaxEnded
  /\ pulls' = [pulls EXCEPT ![p].state = "merged", ![p].head = github]
  /\ UNCHANGED <<meta, github, answer, raced, PollRest>>

ClosePull(p) ==
  /\ IsOpen(p)
  /\ Cardinality(Ended) < MaxEnded
  /\ pulls' = [pulls EXCEPT ![p].state = "closed"]
  /\ UNCHANGED <<meta, github, answer, raced, PollRest>>

-----------------------------------------------------------------------------
WorkerStep ==
  \/ \E t \in queue : Dequeue(t)
  \/ PushBranch \/ OpenPull \/ ConvertToDraft
  \/ RecordSuccess \/ RecordSuperseded \/ Refused

Requests == \E u \in User : NewRequest(u) \/ Request(u) \/ Die(u)

Troubles == Fail \/ Release \/ \E t \in failed : RequeueFailed(t)

Polling == PollRead \/ PollRecord

People == \E p \in Pulls : MergePull(p) \/ ClosePull(p)

Next == Requests \/ WorkerStep \/ Troubles \/ Polling \/ People

Spec == Init /\ [][Next]_vars

(* The task loop runs every five seconds, and a request that is begun ends.    *)
(* Nobody has to review, poll or retry.                                      *)
FairSpec == Spec /\ WF_vars(WorkerStep) /\ \A u \in User : WF_vars(Request(u))

-----------------------------------------------------------------------------
Meta == [status : {"editing", "submitted", "approved", "archived"},
         at : 0..MaxSubmits, sync : {"none", "pending", "synced", "failed"},
         unfinished : BOOLEAN, pr : Pulls \union {None},
         prState : {"none", "open", "closed", "merged"}, left : BOOLEAN]

(* Every record, task and pull request has its type: no task is tried more     *)
(* often than it may be, and a pull request is numbered when it is opened.    *)
TypeOK ==
  /\ meta \in Meta
  /\ remote \in 0..MaxSubmits /\ github \in 0..remote
  /\ pulls \in [Pulls -> [state : {"none", "open", "closed", "merged"},
                          draft : BOOLEAN, shows : 0..MaxSubmits, head : 0..MaxSubmits]]
  /\ queue \subseteq Task /\ failed \subseteq Task /\ ids \in Nat
  /\ running \in Task \union {NoTask}
  /\ stage \in {"idle", "push", "pull", "draft", "answered", "superseded",
                "nothing", "refused"}
  /\ (running = NoTask) <=> (stage = "idle")
  /\ result \in Pulls \union {None}
  /\ answer \in [pr : Pulls, state : {"open", "closed", "merged"}] \union {NoAnswer}
  /\ step \in [User -> {"idle", "commit", "queue", "record", "withdraw", "reopen",
                        "approve", "archive"}]
  /\ stamped \in 0..MaxSubmits /\ carries \in [Submits -> 0..MaxSubmits]
  /\ drafted \subseteq Pulls /\ raced \in BOOLEAN
  /\ reviews \in 0..MaxReviews /\ mishaps \in 0..MaxMishaps

Live(n) ==
  \E t \in queue \union ({running} \ {NoTask}) : t.kind = "submit" /\ t.at = n

(* A pull request has the text of the submit or of a newer one, or has merged with its commits. *)
Published(n) ==
  \E p \in Pulls :
    \/ n <= pulls[p].shows
    \/ pulls[p].state = "merged" /\ carries[n] <= pulls[p].head

(* A branch in review whose submit is neither published nor still on its way   *)
(* says so: its sync reads failed, it is flagged unfinished and it is not      *)
(* approved.  (updateBranchMetadata, updateBranchMetadataOnFailure,            *)
(* awaitsSubmitRetry and approve's saveIf.)                                   *)
OwedIsTold ==
  ~raced /\ InReview /\ ~Live(meta.at) /\ ~Published(meta.at)
    => meta.sync = "failed" /\ meta.unfinished /\ meta.status # "approved"

(* A pull request never goes back to an older submit's title and body, however *)
(* late a retried, released or requeued task runs.  (isSupersededSubmit.)     *)
LatestSubmitStands ==
  [][\A p \in Pulls :
       \/ raced' \/ pulls'[p].shows = pulls[p].shows
       \/ \A q \in Pulls : pulls[q].shows <= pulls'[p].shows]_vars

(* A pull request drafted for a branch taken back stays a draft until the next *)
(* submit, whatever older tasks are still tried.  (isSupersededSubmit.)       *)
WithdrawnStaysDraft ==
  ~raced => \A p \in drafted : pulls[p].draft

(* A branch that waits for its sync does not wait for ever: its submit is      *)
(* published, superseded or given up, and branch.json says so.               *)
PendingEnds == (meta.sync = "pending") ~> (meta.sync # "pending" \/ raced)

(* What the documentation says of a withdrawal: it converts the pull request   *)
(* to a draft.  Once every task of a withdrawn branch has run, none having     *)
(* failed, its pull request is a draft or has ended.                         *)
WithdrawnIsDraft ==
  (/\ ~raced /\ mishaps = 0 /\ meta.status = "editing"
   /\ queue = {} /\ running = NoTask /\ \A u \in User : step[u] = "idle")
  => \A p \in Pulls : IsOpen(p) => pulls[p].draft
=============================================================================
