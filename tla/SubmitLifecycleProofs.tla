------------------------ MODULE SubmitLifecycleProofs ------------------------
(* Proofs about SubmitLifecycle, for any number of users, submits, reviews,   *)
(* retries, ended pull requests and mishaps: its types, and that what a pull  *)
(* request shows and what branch.json says of it stay true.                   *)
EXTENDS SubmitLifecycle, FiniteSetTheorems, TLAPS

USE BoundAssumption, UserAssumption, SentinelAssumption

Held == [pr : Pulls \union {None}, closed : BOOLEAN, at : 0..MaxSubmits,
         sync : {"none", "pending", "failed"}, unfinished : BOOLEAN]

Tasks == queue \union failed \union ({running} \ {NoTask})

(* Requests whose submit is still to be stamped. *)
Writing == {v \in User : step[v] \in {"commit", "queue"}}

(* What a request keeps and what the worker has, by the stage it is at. *)
StageInv ==
  /\ held \in [User -> Held]
  /\ stage \in {"push", "pull", "superseded", "nothing"} => running.kind = "submit"
  /\ stage \in {"draft", "refused"} => running.kind = "draft"
  /\ \A t \in Tasks : t.kind = "submit" => t.at # None
  /\ \A t \in Tasks : t.kind = "draft" => t.pr # None

(* Every submit that is begun has a number left. *)
NumberInv == stamped + Cardinality(Writing) <= MaxSubmits

Opened(p) == p # None => pulls[p].state # "none"

(* A number of a pull request is known only once it is opened. *)
OpenedInv == Opened(meta.pr) /\ Opened(result) /\ \A u \in User : Opened(held[u].pr)

TypeInv == TypeOK /\ StageInv /\ NumberInv /\ OpenedInv

(* Nothing is newer than the newest submit, nor carries what is not in        *)
(* remote.git.                                                               *)
AgeInv ==
  /\ meta.at <= stamped
  /\ \A u \in User : held[u].at <= stamped
  /\ \A t \in Tasks : t.at <= stamped
  /\ \A p \in Pulls : pulls[p].shows <= stamped
  /\ \A n \in Submits : carries[n] <= remote

Recording(v) == step[v] = "record"
Returning(v) == step[v] \in {"withdraw", "reopen"}

(* branch.json has the newest submit, or that is about to be saved. *)
NewestSaved == meta.at = stamped /\ \A v \in User : ~Recording(v)
SaveInv ==
  /\ ~raced => NewestSaved \/ \E v \in User : Recording(v) /\ held[v].at = stamped
  /\ \A v \in User : Recording(v) =>
       \/ held[v].sync = "failed" /\ held[v].unfinished
       \/ held[v].sync = "pending" /\ (raced \/ Live(held[v].at))

(* While a task or its effect stands for a withdrawal nothing has followed,    *)
(* the branch is out of review, or about to be.                              *)
Withdrawn ==
  \/ \E v \in User : Returning(v)
  \/ NewestSaved /\ ~InReview
DraftInv ==
  /\ ~raced => \A p \in drafted : pulls[p].draft
  /\ ~raced /\ drafted # {} => Withdrawn
  /\ ~raced /\ (\E t \in Tasks : t.kind = "draft" /\ t.at = stamped) => Withdrawn

(* A submit that is published is the newest so far, and one passed over is not *)
(* the one in review.                                                        *)
RunInv ==
  /\ ~raced /\ stage \in {"push", "pull"}
       => drafted = {} /\ \A p \in Pulls : pulls[p].shows <= running.at
  /\ ~raced /\ stage = "superseded"
       => /\ ~(InReview /\ meta.at = running.at)
          /\ \A v \in User : Recording(v) => held[v].at # running.at

(* What the worker has done for a submit: pushed its commits, and then shown   *)
(* it or found them merged.                                                  *)
PublishInv ==
  /\ stage \in {"pull", "nothing"} => carries[running.at] <= github
  /\ stage = "nothing" => NoCommitsBetween
  /\ stage = "answered" /\ running.kind = "submit"
       => \E p \in Pulls : running.at <= pulls[p].shows

ReviewInv == AgeInv /\ SaveInv /\ DraftInv /\ RunInv /\ PublishInv /\ OwedIsTold
-----------------------------------------------------------------------------
(* Types, part by part. *)

MetaType == meta \in Meta
PullType ==
  /\ remote \in 0..MaxSubmits /\ github \in 0..remote
  /\ pulls \in [Pulls -> [state : {"none", "open", "closed", "merged"},
                          draft : BOOLEAN, shows : 0..MaxSubmits, head : 0..MaxSubmits]]
  /\ answer \in [pr : Pulls, state : {"open", "closed", "merged"}] \union {NoAnswer}
QueueType ==
  /\ queue \subseteq Task /\ failed \subseteq Task /\ ids \in Nat
  /\ running \in Task \union {NoTask}
  /\ \A t \in Tasks : (t.kind = "submit" => t.at # None) /\ (t.kind = "draft" => t.pr # None)
RunType ==
  /\ stage \in {"idle", "push", "pull", "draft", "answered", "superseded",
                "nothing", "refused"}
  /\ (running = NoTask) <=> (stage = "idle")
  /\ result \in Pulls \union {None}
  /\ stage \in {"push", "pull", "superseded", "nothing"} => running.kind = "submit"
  /\ stage \in {"draft", "refused"} => running.kind = "draft"
RequestType ==
  /\ step \in [User -> {"idle", "commit", "queue", "record", "withdraw", "reopen",
                        "approve", "archive"}]
  /\ held \in [User -> Held]
HistoryType ==
  /\ stamped \in 0..MaxSubmits /\ carries \in [Submits -> 0..MaxSubmits]
  /\ drafted \subseteq Pulls /\ raced \in BOOLEAN
  /\ reviews \in 0..MaxReviews /\ mishaps \in 0..MaxMishaps

LEMMA TypeInPrimedParts ==
  MetaType' /\ PullType' /\ QueueType' /\ RunType' /\ RequestType' /\ HistoryType'
    <=> TypeOK' /\ StageInv'
BY DEF MetaType, PullType, QueueType, RunType, RequestType, HistoryType, TypeOK, StageInv

LEMMA TypeInParts ==
  MetaType /\ PullType /\ QueueType /\ RunType /\ RequestType /\ HistoryType
    <=> TypeOK /\ StageInv
BY DEF MetaType, PullType, QueueType, RunType, RequestType, HistoryType, TypeOK, StageInv

(* Every action, by its name. *)
Action ==
  \/ \E u \in User :
       \/ Submit(u) \/ SubmitBranch(u) \/ SyncSubmitPr(u) \/ RecordSubmitted(u)
       \/ Withdraw(u) \/ RecordWithdrawn(u) \/ RequestChanges(u)
       \/ RecordChangesRequested(u) \/ Approve(u) \/ RecordApproved(u)
       \/ MarkAsMerged(u) \/ Archive(u) \/ Die(u)
  \/ (\E t \in queue : Dequeue(t)) \/ PushBranch \/ OpenPull \/ ConvertToDraft
  \/ RecordSuccess \/ RecordSuperseded \/ Refused
  \/ Fail \/ Release \/ (\E t \in failed : RequeueFailed(t))
  \/ PollRead \/ PollRecord \/ (\E p \in Pulls : MergePull(p) \/ ClosePull(p))

LEMMA NextIsAction == Next => Action
BY DEF Next, Action, Requests, NewRequest, Request, WorkerStep, Troubles, Polling, People

LEMMA OnFailureType ==
  ASSUME TypeInv, NEW unlock \in BOOLEAN
  PROVE  OnFailure(unlock) \in Meta
<1>1. meta \in Meta
  BY DEF TypeInv, TypeOK
<1>2. CASE /\ unlock /\ meta.status = "submitted"
           /\ meta.pr = None /\ meta.at = running.at
  BY <1>1, <1>2 DEF OnFailure, Meta
<1>3. CASE ~(/\ unlock /\ meta.status = "submitted"
             /\ meta.pr = None /\ meta.at = running.at)
  BY <1>1, <1>3 DEF OnFailure, Meta
<1>4. QED
  BY <1>2, <1>3

LEMMA MetaStep ==
  ASSUME TypeInv, Action
  PROVE  MetaType'
<1> USE DEF TypeInv, TypeOK, StageInv, MetaType
<1>1. ASSUME NEW u \in User,
             \/ RecordSubmitted(u) \/ RecordWithdrawn(u) \/ RecordChangesRequested(u)
             \/ RecordApproved(u) \/ Archive(u)
      PROVE  MetaType'
  <2>1. CASE RecordSubmitted(u)
    <3>1. held[u].at \in 0..MaxSubmits /\ held[u].sync \in {"none", "pending", "failed"}
          /\ held[u].unfinished \in BOOLEAN /\ held[u].pr \in Pulls \union {None}
      BY DEF Held
    <3>2. QED
      BY <2>1, <3>1 DEF RecordSubmitted, Meta
  <2>2. CASE RecordWithdrawn(u)
    BY <2>2 DEF RecordWithdrawn, Meta
  <2>3. CASE RecordChangesRequested(u)
    BY <2>3 DEF RecordChangesRequested, Meta
  <2>4. CASE RecordApproved(u)
    BY <2>4 DEF RecordApproved, Meta
  <2>5. CASE Archive(u)
    BY <2>5 DEF Archive, Merged, Meta
  <2>6. QED
    BY <1>1, <2>1, <2>2, <2>3, <2>4, <2>5
<1>2. CASE RecordSuccess \/ RecordSuperseded
  <2>1. CASE RecordSuccess
    <3> DEFINE synced == IF LeavesSync THEN meta
                         ELSE [meta EXCEPT !.sync = "synced", !.unfinished = FALSE]
    <3>1. synced \in Meta
      BY DEF Meta
    <3>2. meta' = IF meta.status = "archived" THEN synced
                  ELSE [synced EXCEPT !.pr = result,
                          !.prState = IF @ \in {"merged", "closed"} THEN @ ELSE "open"]
      BY <2>1 DEF RecordSuccess
    <3> HIDE DEF synced
    <3>3. QED
      BY <3>1, <3>2 DEF Meta
  <2>2. CASE RecordSuperseded
    BY <2>2 DEF RecordSuperseded, Meta
  <2>3. QED
    BY <1>2, <2>1, <2>2
<1>3. CASE Refused \/ Fail
  BY <1>3, OnFailureType DEF Refused, Fail, FailTask, RetryTask
<1>4. CASE PollRecord
  BY <1>4 DEF PollRecord, Merged, Meta
<1>5. CASE UNCHANGED meta
  BY <1>5
<1>6. QED
  BY <1>1, <1>2, <1>3, <1>4, <1>5 DEF Action, Submit, SubmitBranch, SyncSubmitPr, Withdraw,
     RequestChanges, Approve, MarkAsMerged, Die, Dequeue, PushBranch, OpenPull, ConvertToDraft,
     Release, RequeueFailed, PollRead, MergePull, ClosePull

(* A pull request with another text or draft state, or opened, is still one. *)
PullRecord == [state : {"none", "open", "closed", "merged"}, draft : BOOLEAN,
               shows : 0..MaxSubmits, head : 0..MaxSubmits]

LEMMA PullsType ==
  ASSUME NEW f \in [Pulls -> PullRecord], NEW g, NEW p \in Pulls, NEW n \in 0..MaxSubmits,
         \/ g = [f EXCEPT ![p].draft = TRUE]
         \/ g = [f EXCEPT ![p].shows = n]
         \/ g = [f EXCEPT ![p].shows = n, ![p].draft = FALSE]
         \/ g = [f EXCEPT ![p] = [state |-> "open", draft |-> FALSE, shows |-> n, head |-> 0]]
  PROVE  g \in [Pulls -> PullRecord]
<1>1. CASE g = [f EXCEPT ![p].draft = TRUE]
  BY <1>1 DEF PullRecord
<1>2. CASE g = [f EXCEPT ![p].shows = n]
  BY <1>2 DEF PullRecord
<1>3. CASE g = [f EXCEPT ![p].shows = n, ![p].draft = FALSE]
  <2>1. f[p] \in PullRecord
    OBVIOUS
  <2>2. [f[p] EXCEPT !.shows = n, !.draft = FALSE] \in PullRecord
    BY <2>1 DEF PullRecord
  <2>3. g = [f EXCEPT ![p] = [f[p] EXCEPT !.shows = n, !.draft = FALSE]]
    BY <1>3
  <2>4. QED
    BY <2>2, <2>3
<1>4. CASE g = [f EXCEPT ![p] = [state |-> "open", draft |-> FALSE, shows |-> n, head |-> 0]]
  BY <1>4 DEF PullRecord
<1>5. QED
  BY <1>1, <1>2, <1>3, <1>4

LEMMA PullStep ==
  ASSUME TypeInv, Action
  PROVE  PullType'
<1> USE DEF TypeInv, TypeOK, StageInv, PullType
<1>1. ASSUME NEW u \in User, SubmitBranch(u)
      PROVE  PullType'
  BY <1>1 DEF SubmitBranch, RequestRest, githubVars
<1>2. CASE PushBranch
  BY <1>2 DEF PushBranch, WorkerRest
<1>3. CASE OpenPull \/ ConvertToDraft
  <2>1. running.at \in 0..MaxSubmits /\ running.pr \in Pulls \union {None}
    BY <1>3 DEF OpenPull, ConvertToDraft, Task
  <2>2a. pulls \in [Pulls -> PullRecord]
    BY DEF PullRecord
  <2>2. CASE ConvertToDraft
    <3>1. UNCHANGED <<remote, github, answer>>
      BY <2>2 DEF ConvertToDraft, WorkerRest
    <3>2. running.pr \in Pulls
      BY <1>3, <2>1, <2>2 DEF ConvertToDraft, Tasks
    <3>3. pulls' = pulls \/ pulls' = [pulls EXCEPT ![running.pr].draft = TRUE]
      BY <2>2 DEF ConvertToDraft
    <3>4. pulls' \in [Pulls -> PullRecord]
      BY <2>1, <2>2a, <3>2, <3>3, PullsType
    <3>5. QED
      BY <3>1, <3>4 DEF PullRecord
  <2>3. CASE OpenPull
    <3>1. UNCHANGED <<remote, github, answer>>
      BY <2>3 DEF OpenPull, WorkerRest
    <3>2. pulls' = pulls \/ \E p \in Pulls :
            \/ pulls' = [pulls EXCEPT ![p].shows = running.at, ![p].draft = FALSE]
            \/ pulls' = [pulls EXCEPT ![p].shows = running.at]
            \/ pulls' = [pulls EXCEPT ![p] = [state |-> "open", draft |-> FALSE,
                                             shows |-> running.at, head |-> 0]]
      BY <2>3 DEF OpenPull, Unopened
    <3>3. pulls' \in [Pulls -> PullRecord]
      BY <2>1, <2>2a, <3>2, PullsType
    <3>4. QED
      BY <3>1, <3>3 DEF PullRecord
  <2>4. QED
    BY <1>3, <2>2, <2>3
<1>4. CASE PollRead
  <2>1. meta.pr \in Pulls /\ pulls[meta.pr].state \in {"open", "closed", "merged"}
    BY <1>4 DEF PollRead, OpenedInv, Opened, Meta
  <2>2. QED
    BY <1>4, <2>1 DEF PollRead, PollRest, githubVars
<1>5. ASSUME NEW p \in Pulls, MergePull(p) \/ ClosePull(p)
      PROVE  PullType'
  BY <1>5 DEF MergePull, ClosePull, PollRest
<1>6. CASE UNCHANGED <<remote, github, pulls>> /\ answer' \in {answer, NoAnswer}
  BY <1>6
<1>7. QED
  BY <1>1, <1>2, <1>3, <1>4, <1>5, <1>6 DEF Action, Submit, SyncSubmitPr, RecordSubmitted,
     Withdraw, RecordWithdrawn, RequestChanges, RecordChangesRequested, Approve, RecordApproved,
     MarkAsMerged, Archive, Die, Dequeue, RecordSuccess, RecordSuperseded, Refused, Fail,
     Release, RequeueFailed, PollRecord, RequestRest, WorkerRest, PollRest, githubVars

(* A task is one there was, perhaps after another try, or one that a request  *)
(* has just queued.                                                          *)
NewTask(t) ==
  \/ \E s \in Tasks : t.kind = s.kind /\ t.at = s.at /\ t.pr = s.pr
  \/ /\ \E u \in User : SyncSubmitPr(u)
     /\ t.kind = "submit" /\ t.at = stamped + 1
  \/ /\ \E u \in User : Withdraw(u) \/ RequestChanges(u)
     /\ t.kind = "draft" /\ t.at = stamped /\ t.pr = meta.pr /\ meta.pr # None

LEMMA NumberLeft ==
  ASSUME TypeInv, NEW u \in User, step[u] \in {"commit", "queue"}
  PROVE  stamped < MaxSubmits
<1>1. IsFiniteSet(Writing)
  BY FS_Subset DEF Writing
<1>2. Cardinality(Writing) \in Nat /\ Cardinality(Writing) # 0
  BY <1>1, FS_CardinalityType, FS_EmptySet DEF Writing
<1>3. QED
  BY <1>2 DEF TypeInv, TypeOK, NumberInv

(* A requeued task is the same task under another id. *)
LEMMA RequeuedTask ==
  ASSUME NEW s \in Task, NEW t, t = [s EXCEPT !.id = ids + 1, !.again = TRUE, !.tries = 0],
         ids \in Nat
  PROVE  t \in Task /\ t.kind = s.kind /\ t.at = s.at /\ t.pr = s.pr
<1> DEFINE r == [id |-> ids + 1, kind |-> s.kind, at |-> s.at, pr |-> s.pr, again |-> TRUE,
                 tries |-> 0]
<1>1. t = r
  BY DEF Task
<1>2. s.kind \in {"submit", "draft"} /\ s.at \in 0..MaxSubmits /\ s.pr \in Pulls \union {None}
  BY DEF Task
<1>3. ids + 1 \in Nat /\ 0 \in 0..MaxRetries
  OBVIOUS
<1>4. r \in Task
  BY <1>2, <1>3 DEF Task
<1>5. r.kind = s.kind /\ r.at = s.at /\ r.pr = s.pr
  OBVIOUS
<1> HIDE DEF r
<1>6. QED
  BY <1>1, <1>4, <1>5

LEMMA TaskStep ==
  ASSUME TypeInv, Action, NEW t \in Tasks'
  PROVE  t \in Task /\ NewTask(t)
<1> USE DEF TypeInv, TypeOK, StageInv, NewTask
<1>1. \A s \in Tasks : s \in Task
  BY DEF Tasks
<1>2. ASSUME NEW u \in User, SyncSubmitPr(u)
      PROVE  t \in Task /\ NewTask(t)
  <2> DEFINE new == [id |-> ids + 1, kind |-> "submit", at |-> stamped + 1, pr |-> None,
                     again |-> FALSE, tries |-> 0]
  <2>1. t \in Tasks \/ t = new
    BY <1>2 DEF SyncSubmitPr, Enqueue, Tasks, RequestRest, workerVars
  <2>2. stamped + 1 \in 0..MaxSubmits
    BY <1>2, NumberLeft DEF SyncSubmitPr
  <2>3. new \in Task /\ new.kind = "submit" /\ new.at = stamped + 1
    BY <2>2 DEF Task
  <2> HIDE DEF new
  <2>4. QED
    BY <1>1, <1>2, <2>1, <2>3
<1>3. ASSUME NEW u \in User, Withdraw(u) \/ RequestChanges(u)
      PROVE  t \in Task /\ NewTask(t)
  <2> DEFINE new == [id |-> ids + 1, kind |-> "draft", at |-> stamped, pr |-> meta.pr,
                     again |-> FALSE, tries |-> 0]
  <2>1. t \in Tasks \/ (t = new /\ meta.pr # None)
    BY <1>3 DEF Withdraw, RequestChanges, SyncConvertToDraft, Enqueue, Tasks, RequestRest,
       workerVars
  <2>2. new \in Task /\ new.kind = "draft" /\ new.at = stamped /\ new.pr = meta.pr
    BY DEF Task, Meta
  <2> HIDE DEF new
  <2>3. QED
    BY <1>1, <1>3, <2>1, <2>2
<1>4. ASSUME NEW s \in queue, Dequeue(s)
      PROVE  t \in Tasks
  BY <1>4 DEF Dequeue, Tasks
<1>5. CASE RecordSuccess \/ RecordSuperseded
  BY <1>1, <1>5 DEF RecordSuccess, RecordSuperseded, Finished, Tasks, queueVars
<1>6. CASE Refused \/ Fail \/ Release
  <2> DEFINE more == [running EXCEPT !.tries = @ + 1]
  <2>1. running \in Tasks /\ running \in Task
    BY <1>6 DEF Refused, Fail, Release, Tasks
  <2>2. t \in Tasks \/ (t = more /\ running.tries < MaxRetries)
    BY <1>6, <2>1 DEF Refused, Fail, Release, FailTask, RetryTask, Finished, Tasks
  <2>3. running.tries < MaxRetries => more \in Task
    BY <2>1 DEF Task
  <2>4. more.kind = running.kind /\ more.at = running.at /\ more.pr = running.pr
    BY <2>1 DEF Task
  <2>5. QED
    BY <1>1, <2>1, <2>2, <2>3, <2>4
<1>7. ASSUME NEW s \in failed, RequeueFailed(s)
      PROVE  t \in Task /\ NewTask(t)
  <2> DEFINE again == [s EXCEPT !.id = ids + 1, !.again = TRUE, !.tries = 0]
  <2>1. s \in Tasks /\ s \in Task
    BY DEF Tasks
  <2>2. t \in Tasks \/ t = again
    BY <1>7 DEF RequeueFailed, Tasks, workerVars
  <2>3. again \in Task /\ again.kind = s.kind /\ again.at = s.at /\ again.pr = s.pr
    BY <2>1, RequeuedTask
  <2> HIDE DEF again
  <2>4. QED
    BY <1>1, <2>1, <2>2, <2>3
<1>8. CASE UNCHANGED <<queue, failed, running>>
  BY <1>1, <1>8 DEF Tasks
<1>9. QED
  BY <1>1, <1>2, <1>3, <1>4, <1>5, <1>6, <1>7, <1>8 DEF Action, Submit, SubmitBranch,
     RecordSubmitted, RecordWithdrawn, RecordChangesRequested, Approve, RecordApproved,
     MarkAsMerged, Archive, Die, PushBranch, OpenPull, ConvertToDraft, PollRead, PollRecord,
     MergePull, ClosePull, RequestRest, WorkerRest, PollRest, queueVars, workerVars

LEMMA QueueStep ==
  ASSUME TypeInv, Action
  PROVE  QueueType'
<1>1. ids' \in Nat
  <2>1. ids' \in {ids, ids + 1}
    BY DEF Action, Submit, SubmitBranch, SyncSubmitPr, RecordSubmitted, Withdraw,
       RecordWithdrawn, RequestChanges, RecordChangesRequested, Approve, RecordApproved,
       MarkAsMerged, Archive, Die, Dequeue, PushBranch, OpenPull, ConvertToDraft, RecordSuccess,
       RecordSuperseded, Refused, Fail, Release, RequeueFailed, PollRead, PollRecord, MergePull,
       ClosePull, SyncConvertToDraft, Enqueue, FailTask, RetryTask, RequestRest, WorkerRest,
       PollRest, queueVars
  <2>2. QED
    BY <2>1 DEF TypeInv, TypeOK
<1>2. \A t \in Tasks : (t.kind = "submit" => t.at # None) /\ (t.kind = "draft" => t.pr # None)
  BY DEF TypeInv, StageInv
<1>3. stamped + 1 # None
  BY DEF TypeInv, TypeOK, None
<1>4. \A t \in Tasks' : /\ t \in Task
                        /\ t.kind = "submit" => t.at # None
                        /\ t.kind = "draft" => t.pr # None
  <2> SUFFICES ASSUME NEW t \in Tasks'
               PROVE  /\ t \in Task
                      /\ t.kind = "submit" => t.at # None
                      /\ t.kind = "draft" => t.pr # None
    OBVIOUS
  <2>1. t \in Task /\ NewTask(t)
    BY TaskStep
  <2>2. QED
    BY <1>2, <1>3, <2>1 DEF NewTask
<1>5. QED
  BY <1>1, <1>4 DEF QueueType, Tasks

LEMMA RunStep ==
  ASSUME TypeInv, Action
  PROVE  RunType'
<1> USE DEF TypeInv, TypeOK, StageInv, RunType
<1>1. ASSUME NEW t \in queue, Dequeue(t)
      PROVE  RunType'
  BY <1>1 DEF Dequeue, Task
<1>2. CASE PushBranch \/ ConvertToDraft
  <2>1. running # NoTask => running.pr \in Pulls \union {None}
    BY DEF Task
  <2>2. QED
    BY <1>2, <2>1 DEF PushBranch, ConvertToDraft
<1>3. CASE OpenPull
  BY <1>3 DEF OpenPull, Unopened
<1>4. CASE RecordSuccess \/ RecordSuperseded \/ Refused \/ Fail \/ Release
  BY <1>4 DEF RecordSuccess, RecordSuperseded, Refused, Fail, Release, Finished
<1>5. CASE UNCHANGED workerVars
  BY <1>5 DEF workerVars
<1>6. QED
  BY <1>1, <1>2, <1>3, <1>4, <1>5 DEF Action, Submit, SubmitBranch, SyncSubmitPr,
     RecordSubmitted, Withdraw, RecordWithdrawn, RequestChanges, RecordChangesRequested,
     Approve, RecordApproved, MarkAsMerged, Archive, Die, RequeueFailed, PollRead, PollRecord,
     MergePull, ClosePull, RequestRest, PollRest

LEMMA RequestStep ==
  ASSUME TypeInv, Action
  PROVE  RequestType'
<1> USE DEF TypeInv, TypeOK, StageInv, RequestType
<1>1. ASSUME NEW u \in User,
             \/ Submit(u) \/ Withdraw(u) \/ RequestChanges(u) \/ Approve(u) \/ MarkAsMerged(u)
      PROVE  RequestType'
  <2>1. \E next \in {"commit", "withdraw", "reopen", "approve", "archive"} : Reads(u, next)
    BY <1>1 DEF Submit, Withdraw, RequestChanges, Approve, MarkAsMerged
  <2>2. held[u] \in Held /\ meta.pr \in Pulls \union {None}
    BY DEF Meta
  <2> DEFINE h == [held[u] EXCEPT !.pr = meta.pr, !.closed = (meta.prState = "closed")]
  <2>3. h \in Held
    <3>1. CASE meta.prState = "closed"
      BY <2>2, <3>1 DEF Held
    <3>2. CASE meta.prState # "closed"
      BY <2>2, <3>2 DEF Held
    <3>3. QED
      BY <3>1, <3>2
  <2>4. held' = [held EXCEPT ![u] = h]
    BY <2>1 DEF Reads
  <2>5. \E next \in {"commit", "withdraw", "reopen", "approve", "archive"} :
          step' = [step EXCEPT ![u] = next]
    BY <2>1 DEF Reads
  <2> HIDE DEF h
  <2>6. QED
    BY <2>3, <2>4, <2>5
<1>2. NothingHeld \in Held
  BY DEF NothingHeld, Held, None
<1>3. ASSUME NEW u \in User, Answered(u)
      PROVE  RequestType'
  BY <1>2, <1>3 DEF Answered, GoTo
<1>4. ASSUME NEW u \in User, SubmitBranch(u)
      PROVE  RequestType'
  BY <1>3, <1>4 DEF SubmitBranch, GoTo
<1>5. ASSUME NEW u \in User, SyncSubmitPr(u)
      PROVE  RequestType'
  <2>1. held[u] \in Held /\ stamped + 1 \in 0..MaxSubmits
    BY <1>5, NumberLeft DEF SyncSubmitPr
  <2> DEFINE h(s, b) == [held[u] EXCEPT !.at = stamped + 1, !.sync = s, !.unfinished = b]
  <2>2. h("pending", FALSE) \in Held
    BY <2>1 DEF Held
  <2>3. h("failed", TRUE) \in Held
    BY <2>1 DEF Held
  <2>4. \/ held' = [held EXCEPT ![u] = h("pending", FALSE)]
        \/ held' = [held EXCEPT ![u] = h("failed", TRUE)]
    BY <1>5 DEF SyncSubmitPr
  <2>5. step' = [step EXCEPT ![u] = "record"]
    BY <1>5 DEF SyncSubmitPr, GoTo
  <2> HIDE DEF h
  <2>6. QED
    BY <2>2, <2>3, <2>4, <2>5
<1>6. CASE UNCHANGED requestVars
  BY <1>6 DEF requestVars
<1>7. QED
  BY <1>1, <1>3, <1>4, <1>5, <1>6 DEF Action, RecordSubmitted, RecordWithdrawn,
     RecordChangesRequested, RecordApproved, Archive, Die, Dequeue, PushBranch, OpenPull,
     ConvertToDraft, RecordSuccess, RecordSuperseded, Refused, Fail, Release, RequeueFailed,
     PollRead, PollRecord, MergePull, ClosePull, WorkerRest, PollRest

LEMMA HistoryStep ==
  ASSUME TypeInv, Action
  PROVE  HistoryType'
<1> USE DEF TypeInv, TypeOK, StageInv, HistoryType
<1>1. stamped' \in 0..MaxSubmits /\ carries' \in [Submits -> 0..MaxSubmits]
  <2>1. ASSUME NEW u \in User, SyncSubmitPr(u)
        PROVE  stamped' \in 0..MaxSubmits /\ carries' \in [Submits -> 0..MaxSubmits]
    <3>1. stamped + 1 \in 0..MaxSubmits
      BY <2>1, NumberLeft DEF SyncSubmitPr
    <3>2. stamped' = stamped + 1 /\ carries' = [carries EXCEPT ![stamped + 1] = remote]
      BY <2>1 DEF SyncSubmitPr
    <3>3. QED
      BY <3>1, <3>2
  <2>2. CASE UNCHANGED <<stamped, carries>>
    BY <2>2
  <2>3. QED
    BY <2>1, <2>2 DEF Action, Submit, SubmitBranch, RecordSubmitted, Withdraw,
       RecordWithdrawn, RequestChanges, RecordChangesRequested, Approve, RecordApproved,
       MarkAsMerged, Archive, Die, Dequeue, PushBranch, OpenPull, ConvertToDraft, RecordSuccess,
       RecordSuperseded, Refused, Fail, Release, RequeueFailed, PollRead, PollRecord, MergePull,
       ClosePull, historyVars, WorkerRest, PollRest
<1>2. drafted' \subseteq Pulls
  <2>1. CASE ConvertToDraft
    <3>1. running \in Tasks /\ running.kind = "draft"
      BY <2>1 DEF ConvertToDraft, Tasks
    <3>2. running.pr \in Pulls
      BY <3>1 DEF Task, Tasks
    <3>3. QED
      BY <2>1, <3>2 DEF ConvertToDraft
  <2>2. CASE drafted' \in {drafted, {}}
    BY <2>2
  <2>3. QED
    BY <2>1, <2>2 DEF Action, Submit, SubmitBranch, SyncSubmitPr, RecordSubmitted, Withdraw,
       RecordWithdrawn, RequestChanges, RecordChangesRequested, Approve, RecordApproved,
       MarkAsMerged, Archive, Die, Dequeue, PushBranch, OpenPull, RecordSuccess,
       RecordSuperseded, Refused, Fail, Release, RequeueFailed, PollRead, PollRecord, MergePull,
       ClosePull, historyVars, WorkerRest, PollRest
<1>3. raced' \in BOOLEAN
  BY DEF Action, Submit, SubmitBranch, SyncSubmitPr, RecordSubmitted, Withdraw,
     RecordWithdrawn, RequestChanges, RecordChangesRequested, Approve, RecordApproved,
     MarkAsMerged, Archive, Die, Dequeue, PushBranch, OpenPull, ConvertToDraft, RecordSuccess,
     RecordSuperseded, Refused, Fail, Release, RequeueFailed, PollRead, PollRecord, MergePull,
     ClosePull, historyVars, WorkerRest, PollRest, SeenBy, SeenByWorker, SeenByRunOf, FailTask,
     RetryTask
<1>4. reviews' \in 0..MaxReviews /\ mishaps' \in 0..MaxMishaps
  <2>1. /\ reviews' = reviews \/ (reviews < MaxReviews /\ reviews' = reviews + 1)
        /\ mishaps' = mishaps \/ (mishaps < MaxMishaps /\ mishaps' = mishaps + 1)
    BY DEF Action, Submit, SubmitBranch, SyncSubmitPr, RecordSubmitted, Withdraw,
       RecordWithdrawn, RequestChanges, RecordChangesRequested, Approve, RecordApproved,
       MarkAsMerged, Archive, Die, Dequeue, PushBranch, OpenPull, ConvertToDraft, RecordSuccess,
       RecordSuperseded, Refused, Fail, Release, RequeueFailed, PollRead, PollRecord, MergePull,
       ClosePull, boundVars, WorkerRest, PollRest, SyncConvertToDraft
  <2>2. QED
    BY <2>1
<1>5. QED
  BY <1>1, <1>2, <1>3, <1>4

LEMMA NumberStep ==
  ASSUME TypeInv, Action, RequestType', HistoryType'
  PROVE  NumberInv'
<1> USE DEF TypeInv, TypeOK, StageInv, NumberInv
<1>1. IsFiniteSet(Writing) /\ IsFiniteSet(Writing')
  <2>1. Writing \subseteq User /\ Writing' \subseteq User
    BY DEF Writing
  <2>2. QED
    BY <2>1, FS_Subset
<1>2. Cardinality(Writing) \in Nat /\ Cardinality(Writing') \in Nat
  BY <1>1, FS_CardinalityType
<1>3. ASSUME NEW u \in User, Submit(u)
      PROVE  NumberInv'
  <2>1. Writing' = Writing \union {u} /\ u \notin Writing
    BY <1>3 DEF Submit, Reads, Writing
  <2>2. Cardinality(Writing') = Cardinality(Writing) + 1
    BY <1>1, <2>1, FS_AddElement
  <2>3. QED
    BY <1>2, <1>3, <2>2 DEF Submit, Writing, historyVars
<1>4. ASSUME NEW u \in User, SyncSubmitPr(u)
      PROVE  NumberInv'
  <2>1. Writing' = Writing \ {u} /\ u \in Writing
    BY <1>4 DEF SyncSubmitPr, GoTo, Writing
  <2>2. Cardinality(Writing') = Cardinality(Writing) - 1
    BY <1>1, <2>1, FS_RemoveElement
  <2>3. QED
    BY <1>2, <1>4, <2>2 DEF SyncSubmitPr
<1>5. CASE Writing' \subseteq Writing /\ UNCHANGED stamped
  <2>1. Cardinality(Writing') <= Cardinality(Writing)
    BY <1>1, <1>5, FS_Subset
  <2>2. QED
    BY <1>2, <1>5, <2>1
<1>6. ASSUME NEW u \in User, \/ SubmitBranch(u) \/ Answered(u)
                             \/ GoTo(u, "withdraw") \/ GoTo(u, "reopen")
                             \/ GoTo(u, "approve") \/ GoTo(u, "archive")
      PROVE  Writing' \subseteq Writing
  BY <1>6 DEF SubmitBranch, Answered, GoTo, Writing
<1>7. ASSUME UNCHANGED step
      PROVE  Writing' \subseteq Writing
  BY <1>7 DEF Writing
<1>8. QED
  BY <1>3, <1>4, <1>5, <1>6, <1>7 DEF Action, SubmitBranch, RecordSubmitted, Withdraw,
     RecordWithdrawn, RequestChanges, RecordChangesRequested, Approve, RecordApproved,
     MarkAsMerged, Archive, Die, Dequeue, PushBranch, OpenPull, ConvertToDraft, RecordSuccess,
     RecordSuperseded, Refused, Fail, Release, RequeueFailed, PollRead, PollRecord, MergePull,
     ClosePull, Reads, GoTo, historyVars, requestVars, WorkerRest, PollRest

(* What a step keeps for user v: what it had, nothing, what it reads, or the   *)
(* submit it has stamped.                                                    *)
HeldChange(v) ==
  \/ held'[v] = held[v]
  \/ held'[v] = NothingHeld /\ step'[v] = "idle"
  \/ /\ held'[v].pr = meta.pr /\ held'[v].at = held[v].at
     /\ step'[v] \in {"commit", "withdraw", "reopen", "approve", "archive"}
  \/ /\ SyncSubmitPr(v)
     /\ held'[v].pr = held[v].pr /\ held'[v].at = stamped + 1
     /\ \/ held'[v].sync = "pending"
        \/ held'[v].sync = "failed" /\ held'[v].unfinished

LEMMA StampedSubmit ==
  ASSUME TypeInv, NEW v \in User, SyncSubmitPr(v)
  PROVE  /\ held'[v].pr = held[v].pr /\ held'[v].at = stamped + 1
         /\ \/ held'[v].sync = "pending" /\ Enqueue("submit", stamped + 1, None)
            \/ held'[v].sync = "failed" /\ held'[v].unfinished
<1>1. held[v] \in Held /\ held \in [User -> Held]
  BY DEF TypeInv, StageInv
<1>2. CASE /\ Enqueue("submit", stamped + 1, None)
           /\ held' = [held EXCEPT ![v] = [@ EXCEPT !.at = stamped + 1, !.sync = "pending",
                                                   !.unfinished = FALSE]]
  <2>1. held'[v] = [held[v] EXCEPT !.at = stamped + 1, !.sync = "pending", !.unfinished = FALSE]
    BY <1>1, <1>2
  <2>2. QED
    BY <1>1, <1>2, <2>1 DEF Held
<1>3. CASE held' = [held EXCEPT ![v] = [@ EXCEPT !.at = stamped + 1, !.sync = "failed",
                                                 !.unfinished = TRUE]]
  <2>1. held'[v] = [held[v] EXCEPT !.at = stamped + 1, !.sync = "failed", !.unfinished = TRUE]
    BY <1>1, <1>3
  <2>2. QED
    BY <1>1, <2>1 DEF Held
<1>4. QED
  BY <1>2, <1>3 DEF SyncSubmitPr

LEMMA HeldSteps ==
  ASSUME TypeInv, Action, NEW v \in User
  PROVE  HeldChange(v)
<1> USE DEF TypeInv, TypeOK, StageInv, HeldChange
<1>1. ASSUME NEW u \in User, Answered(u)
      PROVE  HeldChange(v)
  BY <1>1 DEF Answered, GoTo
<1>2. ASSUME NEW u \in User, NEW next \in {"commit", "withdraw", "reopen", "approve", "archive"},
             Reads(u, next)
      PROVE  HeldChange(v)
  BY <1>2 DEF Reads, Held
<1>3. ASSUME NEW u \in User, SyncSubmitPr(u)
      PROVE  HeldChange(v)
  <2>1. CASE u # v
    BY <1>3, <2>1 DEF SyncSubmitPr
  <2>2. CASE u = v
    BY <1>3, <2>2, StampedSubmit
  <2>3. QED
    BY <2>1, <2>2
<1>4. CASE UNCHANGED held
  BY <1>4
<1>5. QED
  BY <1>1, <1>2, <1>3, <1>4 DEF Action, Submit, SubmitBranch, RecordSubmitted, Withdraw,
     RecordWithdrawn, RequestChanges, RecordChangesRequested, Approve, RecordApproved,
     MarkAsMerged, Archive, Die, Dequeue, PushBranch, OpenPull, ConvertToDraft, RecordSuccess,
     RecordSuperseded, Refused, Fail, Release, RequeueFailed, PollRead, PollRecord, MergePull,
     ClosePull, requestVars, WorkerRest, PollRest

(* What a step does to the pull requests: nothing, a new text, a draft or an   *)
(* end for an open one, or one more.                                         *)
PullChange ==
  \/ UNCHANGED pulls
  \/ /\ OpenPull
     /\ \E q \in Pulls :
          \/ pulls' = [pulls EXCEPT ![q].shows = running.at, ![q].draft = FALSE]
          \/ pulls' = [pulls EXCEPT ![q].shows = running.at]
          \/ /\ pulls[q].state = "none"
             /\ pulls' = [pulls EXCEPT ![q] = [state |-> "open", draft |-> FALSE,
                                              shows |-> running.at, head |-> 0]]
  \/ ConvertToDraft /\ pulls' = [pulls EXCEPT ![running.pr].draft = TRUE]
  \/ \E q \in Pulls : /\ MergePull(q) \/ ClosePull(q)
                      /\ IsOpen(q)
                      /\ \/ pulls' = [pulls EXCEPT ![q].state = "merged", ![q].head = github]
                         \/ pulls' = [pulls EXCEPT ![q].state = "closed"]

LEMMA PullSteps == Action => PullChange
<1>1. OpenPull => PullChange
  BY DEF OpenPull, PullChange, Unopened
<1>2. ConvertToDraft => PullChange
  BY DEF ConvertToDraft, PullChange
<1>3. ASSUME NEW p \in Pulls, MergePull(p) \/ ClosePull(p)
      PROVE  PullChange
  BY <1>3 DEF MergePull, ClosePull, PullChange
<1>4. UNCHANGED pulls => PullChange
  BY DEF PullChange
<1>5. QED
  BY <1>1, <1>2, <1>3, <1>4 DEF Action, Submit, SubmitBranch, SyncSubmitPr, RecordSubmitted,
     Withdraw, RecordWithdrawn, RequestChanges, RecordChangesRequested, Approve, RecordApproved,
     MarkAsMerged, Archive, Die, Dequeue, PushBranch, RecordSuccess, RecordSuperseded, Refused,
     Fail, Release, RequeueFailed, PollRead, PollRecord, RequestRest, WorkerRest, PollRest,
     githubVars

(* No pull request goes back to being unopened. *)
LEMMA StaysOpened ==
  ASSUME TypeInv, Action, NEW p \in Pulls, pulls[p].state # "none"
  PROVE  pulls'[p].state # "none"
<1> USE DEF TypeInv, TypeOK
<1>1. CASE OpenPull
  <2>1. pulls' = pulls \/ \E q \in Pulls :
          \/ pulls' = [pulls EXCEPT ![q].shows = running.at, ![q].draft = FALSE]
          \/ pulls' = [pulls EXCEPT ![q].shows = running.at]
          \/ pulls' = [pulls EXCEPT ![q] = [state |-> "open", draft |-> FALSE,
                                           shows |-> running.at, head |-> 0]]
    BY <1>1 DEF OpenPull, Unopened
  <2>2. ASSUME NEW q \in Pulls, pulls' = [pulls EXCEPT ![q].shows = running.at,
                                                     ![q].draft = FALSE]
        PROVE  pulls'[p].state # "none"
    <3>1. pulls'[p].state = pulls[p].state
      BY <2>2
    <3>2. QED
      BY <3>1
  <2>3. ASSUME NEW q \in Pulls, pulls' = [pulls EXCEPT ![q].shows = running.at]
        PROVE  pulls'[p].state # "none"
    BY <2>3
  <2>4. ASSUME NEW q \in Pulls,
               pulls' = [pulls EXCEPT ![q] = [state |-> "open", draft |-> FALSE,
                                           shows |-> running.at, head |-> 0]]
        PROVE  pulls'[p].state # "none"
    BY <2>4
  <2>5. QED
    BY <2>1, <2>2, <2>3, <2>4
<1>2. CASE ConvertToDraft
  BY <1>2 DEF ConvertToDraft
<1>3. ASSUME NEW q \in Pulls, MergePull(q) \/ ClosePull(q)
      PROVE  pulls'[p].state # "none"
  BY <1>3 DEF MergePull, ClosePull
<1>4. QED
  BY <1>1, <1>2, <1>3, PullSteps DEF PullChange

LEMMA OpenedStep ==
  ASSUME TypeInv, Action, RequestType'
  PROVE  OpenedInv'
<1> USE DEF TypeInv, TypeOK, OpenedInv, Opened
<1>1. \A p \in Pulls : pulls[p].state # "none" => pulls'[p].state # "none"
  BY StaysOpened
<1>2. result' # None => pulls'[result'].state # "none"
  <2>1. CASE OpenPull
    <3>1. CASE \E p \in Pulls : IsOpen(p)
      <4>1. result' \in Pulls /\ pulls[result'].state # "none"
        BY <2>1, <3>1 DEF OpenPull, IsOpen
      <4>2. QED
        BY <1>1, <4>1
    <3>2. CASE ~(\E p \in Pulls : IsOpen(p))
      <4>1. \/ result' = result
            \/ /\ result' \in Pulls
               /\ pulls' = [pulls EXCEPT ![result'] = [state |-> "open", draft |-> FALSE,
                                                       shows |-> running.at, head |-> 0]]
        BY <2>1, <3>2 DEF OpenPull, Unopened
      <4>2. QED
        BY <1>1, <4>1
    <3>3. QED
      BY <3>1, <3>2
  <2>2. CASE ConvertToDraft
    BY <2>2, <1>1 DEF ConvertToDraft, IsOpen
  <2>3. CASE result' \in {result, None}
    BY <2>3, <1>1
  <2>4. QED
    BY <2>1, <2>2, <2>3 DEF Action, Submit, SubmitBranch, SyncSubmitPr, RecordSubmitted,
       Withdraw, RecordWithdrawn, RequestChanges, RecordChangesRequested, Approve,
       RecordApproved, MarkAsMerged, Archive, Die, Dequeue, PushBranch, RecordSuccess,
       RecordSuperseded, Refused, Fail, Release, RequeueFailed, PollRead, PollRecord,
       MergePull, ClosePull, RequestRest, WorkerRest, PollRest, workerVars, Finished
<1>3. meta.pr \in Pulls \union {None} /\ \A u \in User : held[u].pr \in Pulls \union {None}
  BY DEF StageInv, Held, Meta
<1>4. meta'.pr # None => pulls'[meta'.pr].state # "none"
  <2>1. \/ meta'.pr \in {meta.pr, result, None}
        \/ \E u \in User : meta'.pr = held[u].pr
    <3>1. ASSUME NEW unlock \in BOOLEAN
          PROVE  OnFailure(unlock).pr = meta.pr
      BY DEF OnFailure, Meta
    <3>2. ASSUME NEW u \in User, RecordSubmitted(u)
          PROVE  meta'.pr = held[u].pr
      BY <3>2 DEF RecordSubmitted, Meta
    <3>3. CASE RecordSuccess
      BY <3>3 DEF RecordSuccess, Meta
    <3>4. CASE Refused \/ Fail
      BY <3>1, <3>4 DEF Refused, Fail, FailTask, RetryTask
    <3>5. CASE PollRecord \/ (\E u \in User : Archive(u))
      BY <3>5 DEF PollRecord, Archive, Merged, Meta
    <3>6. CASE \E u \in User : \/ RecordWithdrawn(u) \/ RecordChangesRequested(u)
                               \/ RecordApproved(u)
      BY <3>6 DEF RecordWithdrawn, RecordChangesRequested, RecordApproved, Meta
    <3>7. CASE RecordSuperseded
      BY <3>7 DEF RecordSuperseded, Meta
    <3>8. CASE UNCHANGED meta
      BY <3>8
    <3>9. QED
      BY <3>2, <3>3, <3>4, <3>5, <3>6, <3>7, <3>8 DEF Action, Submit, SubmitBranch,
         SyncSubmitPr, Withdraw, RequestChanges, Approve, MarkAsMerged, Die, Dequeue, PushBranch,
         OpenPull, ConvertToDraft, Release, RequeueFailed, PollRead, MergePull, ClosePull
  <2>2. QED
    BY <1>1, <1>3, <2>1
<1>5. \A u \in User : held'[u].pr # None => pulls'[held'[u].pr].state # "none"
  <2>1. \A u \in User : held'[u].pr \in {held[u].pr, meta.pr, None}
    BY HeldSteps DEF HeldChange, StageInv, Held, NothingHeld
  <2>2. QED
    BY <1>1, <1>3, <2>1
<1>6. QED
  BY <1>2, <1>4, <1>5

(* A pull request has another text only by a run of a submit. *)
LEMMA ShowsSteps ==
  ASSUME TypeInv, Action, NEW p \in Pulls
  PROVE  \/ pulls'[p].shows = pulls[p].shows
         \/ OpenPull /\ pulls'[p].shows = running.at
<1> USE DEF TypeInv, TypeOK
<1>1. ASSUME OpenPull, NEW q \in Pulls,
             \/ pulls' = [pulls EXCEPT ![q].shows = running.at, ![q].draft = FALSE]
             \/ pulls' = [pulls EXCEPT ![q].shows = running.at]
             \/ pulls' = [pulls EXCEPT ![q] = [state |-> "open", draft |-> FALSE,
                                              shows |-> running.at, head |-> 0]]
      PROVE  pulls'[p].shows = pulls[p].shows \/ pulls'[p].shows = running.at
  <2>1. CASE pulls' = [pulls EXCEPT ![q].shows = running.at, ![q].draft = FALSE]
    BY <2>1
  <2>2. CASE pulls' = [pulls EXCEPT ![q].shows = running.at]
    BY <2>2
  <2>3. CASE pulls' = [pulls EXCEPT ![q] = [state |-> "open", draft |-> FALSE,
                                          shows |-> running.at, head |-> 0]]
    BY <2>3
  <2>4. QED
    BY <1>1, <2>1, <2>2, <2>3
<1>2. CASE pulls' = [pulls EXCEPT ![running.pr].draft = TRUE]
  BY <1>2
<1>3. ASSUME NEW q \in Pulls,
             \/ pulls' = [pulls EXCEPT ![q].state = "merged", ![q].head = github]
             \/ pulls' = [pulls EXCEPT ![q].state = "closed"]
      PROVE  pulls'[p].shows = pulls[p].shows
  BY <1>3
<1>4. QED
  BY <1>1, <1>2, <1>3, PullSteps DEF PullChange

(* What has merged is not opened, closed or merged again. *)
LEMMA HeadSteps ==
  ASSUME TypeInv, Action, NEW p \in Pulls, pulls[p].state = "merged"
  PROVE  pulls'[p].state = "merged" /\ pulls'[p].head = pulls[p].head
<1> USE DEF TypeInv, TypeOK
<1>1. ASSUME NEW q \in Pulls,
             pulls' = [pulls EXCEPT ![q].shows = running.at, ![q].draft = FALSE]
      PROVE  pulls'[p].state = pulls[p].state /\ pulls'[p].head = pulls[p].head
  BY <1>1
<1>2. ASSUME NEW q \in Pulls, pulls' = [pulls EXCEPT ![q].shows = running.at]
      PROVE  pulls'[p].state = pulls[p].state /\ pulls'[p].head = pulls[p].head
  BY <1>2
<1>3. ASSUME NEW q \in Pulls, pulls[q].state \in {"none", "open"},
             \/ pulls' = [pulls EXCEPT ![q] = [state |-> "open", draft |-> FALSE,
                                              shows |-> running.at, head |-> 0]]
             \/ pulls' = [pulls EXCEPT ![q].state = "merged", ![q].head = github]
             \/ pulls' = [pulls EXCEPT ![q].state = "closed"]
      PROVE  pulls'[p] = pulls[p]
  BY <1>3
<1>4. ASSUME pulls' = [pulls EXCEPT ![running.pr].draft = TRUE]
      PROVE  pulls'[p].state = pulls[p].state /\ pulls'[p].head = pulls[p].head
  BY <1>4
<1>5. QED
  BY <1>1, <1>2, <1>3, <1>4, PullSteps DEF PullChange, IsOpen

(* A run that has an answer has shown its submit. *)
LEMMA ShownSteps ==
  ASSUME TypeInv, OpenPull, stage' = "answered"
  PROVE  \E p \in Pulls : pulls'[p].shows = running.at
<1> USE DEF TypeInv, TypeOK
<1>1. PICK q \in Pulls :
        \/ pulls' = [pulls EXCEPT ![q].shows = running.at, ![q].draft = FALSE]
        \/ pulls' = [pulls EXCEPT ![q].shows = running.at]
        \/ pulls' = [pulls EXCEPT ![q] = [state |-> "open", draft |-> FALSE,
                                         shows |-> running.at, head |-> 0]]
  BY DEF OpenPull, Unopened
<1>2. CASE pulls' = [pulls EXCEPT ![q].shows = running.at, ![q].draft = FALSE]
  <2>1. pulls'[q].shows = running.at
    BY <1>2
  <2>2. QED
    BY <2>1
<1>3. CASE \/ pulls' = [pulls EXCEPT ![q].shows = running.at]
           \/ pulls' = [pulls EXCEPT ![q] = [state |-> "open", draft |-> FALSE,
                                            shows |-> running.at, head |-> 0]]
  <2>1. pulls'[q].shows = running.at
    BY <1>3
  <2>2. QED
    BY <2>1
<1>4. QED
  BY <1>1, <1>2, <1>3

LEMMA TypeStep ==
  ASSUME TypeInv, [Next]_vars
  PROVE  TypeInv'
<1>1. CASE Action
  <2>1. RequestType' /\ HistoryType'
    BY <1>1, RequestStep, HistoryStep
  <2>2. TypeOK' /\ StageInv'
    BY <1>1, <2>1, MetaStep, PullStep, QueueStep, RunStep, TypeInPrimedParts
  <2>3. NumberInv' /\ OpenedInv'
    BY <1>1, <2>1, NumberStep, OpenedStep
  <2>4. QED
    BY <2>2, <2>3 DEF TypeInv
<1>2. CASE UNCHANGED vars
  BY <1>2 DEF vars, githubVars, queueVars, workerVars, requestVars, historyVars, boundVars,
     TypeInv, TypeOK, StageInv, NumberInv, OpenedInv, Opened, Tasks, Writing
<1>3. QED
  BY <1>1, <1>2, NextIsAction

LEMMA TypeInit ==
  ASSUME Init
  PROVE  TypeInv
<1>1. TypeOK
  <2>1. MetaType
    BY DEF Init, MetaType, Meta, None
  <2>2. PullType
    <3>1. NoPull \in PullRecord
      BY DEF NoPull, PullRecord, None
    <3>2. pulls \in [Pulls -> PullRecord]
      BY <3>1 DEF Init
    <3>3. QED
      BY <3>2 DEF Init, PullType, PullRecord
  <2>3. HistoryType
    <3>1. carries \in [Submits -> 0..MaxSubmits]
      BY DEF Init
    <3>2. raced \in BOOLEAN /\ drafted \subseteq Pulls
      BY DEF Init
    <3>3. stamped \in 0..MaxSubmits /\ reviews \in 0..MaxReviews /\ mishaps \in 0..MaxMishaps
      BY DEF Init
    <3>4. QED
      BY <3>1, <3>2, <3>3 DEF HistoryType
  <2>4. QED
    BY <2>1, <2>2, <2>3 DEF Init, TypeOK, MetaType, PullType, HistoryType
<1>2. StageInv
  BY DEF Init, StageInv, Tasks, Held, NothingHeld, None
<1>3. NumberInv
  <2>1. Writing = {}
    BY DEF Init, Writing
  <2>2. QED
    BY <2>1, FS_EmptySet DEF Init, NumberInv
<1>4. OpenedInv
  BY DEF Init, OpenedInv, Opened, NothingHeld
<1>5. QED
  BY <1>1, <1>2, <1>3, <1>4 DEF TypeInv
-----------------------------------------------------------------------------
(* What a step may change, for the invariants of the review. *)

(* Submits are stamped one after the other, each with what is in remote.git. *)
LEMMA StampSteps ==
  ASSUME TypeInv, Action
  PROVE  /\ remote' \in {remote, remote + 1}
         /\ \/ UNCHANGED <<stamped, carries>>
            \/ /\ \E u \in User : SyncSubmitPr(u)
               /\ stamped' = stamped + 1 /\ carries' = [carries EXCEPT ![stamped + 1] = remote]
BY DEF Action, Submit, SubmitBranch, SyncSubmitPr, RecordSubmitted, Withdraw,
   RecordWithdrawn, RequestChanges, RecordChangesRequested, Approve, RecordApproved,
   MarkAsMerged, Archive, Die, Dequeue, PushBranch, OpenPull, ConvertToDraft, RecordSuccess,
   RecordSuperseded, Refused, Fail, Release, RequeueFailed, PollRead, PollRecord, MergePull,
   ClosePull, historyVars, WorkerRest, PollRest

LEMMA RacedSteps ==
  ASSUME TypeInv, Action, raced
  PROVE  raced'
BY DEF Action, Submit, SubmitBranch, SyncSubmitPr, RecordSubmitted, Withdraw,
   RecordWithdrawn, RequestChanges, RecordChangesRequested, Approve, RecordApproved,
   MarkAsMerged, Archive, Die, Dequeue, PushBranch, OpenPull, ConvertToDraft, RecordSuccess,
   RecordSuperseded, Refused, Fail, Release, RequeueFailed, PollRead, PollRecord, MergePull,
   ClosePull, historyVars, WorkerRest, PollRest, SeenBy, SeenByWorker, SeenByRunOf, FailTask,
   RetryTask

(* Only a saved submit gives branch.json another number, or brings it to review. *)
LEMMA MetaSteps ==
  ASSUME TypeInv, Action, ~(\E u \in User : RecordSubmitted(u))
  PROVE  meta'.at = meta.at /\ (InReview' => InReview)
<1> USE DEF TypeInv, TypeOK, InReview
<1>1. CASE \E u \in User : RecordWithdrawn(u) \/ RecordChangesRequested(u) \/ RecordApproved(u)
  <2>1. CASE \E u \in User : RecordWithdrawn(u)
    BY <2>1 DEF RecordWithdrawn, Meta
  <2>2. CASE \E u \in User : RecordChangesRequested(u)
    BY <2>2 DEF RecordChangesRequested, Meta
  <2>3. CASE \E u \in User : RecordApproved(u)
    BY <2>3 DEF RecordApproved, MayApprove, Meta
  <2>4. QED
    BY <1>1, <2>1, <2>2, <2>3
<1>2. CASE (\E u \in User : Archive(u)) \/ PollRecord
  <2>1. meta' = Merged \/ meta' = [meta EXCEPT !.prState = answer.state]
    BY <1>2 DEF Archive, PollRecord
  <2>2. QED
    BY <2>1 DEF Merged, Meta
<1>3. CASE RecordSuccess
  BY <1>3 DEF RecordSuccess, Meta
<1>4. CASE RecordSuperseded
  BY <1>4 DEF RecordSuperseded, Meta
<1>5. CASE Refused \/ Fail
  <2>1. ASSUME NEW unlock \in BOOLEAN
        PROVE  /\ OnFailure(unlock).at = meta.at
               /\ OnFailure(unlock).status \in {"submitted", "approved"} => InReview
    BY DEF OnFailure, Meta
  <2>2. QED
    BY <1>5, <2>1 DEF Refused, Fail, FailTask, RetryTask
<1>6. CASE UNCHANGED meta
  BY <1>6
<1>7. QED
  BY <1>1, <1>2, <1>3, <1>4, <1>5, <1>6 DEF Action, Submit, SubmitBranch, SyncSubmitPr,
     Withdraw, RequestChanges, Approve, MarkAsMerged, Die, Dequeue, PushBranch, OpenPull,
     ConvertToDraft, Release, RequeueFailed, PollRead, MergePull, ClosePull

(* A submit is recorded once, by the request that queued it, unless that dies. *)
LEMMA RecordingSteps ==
  ASSUME TypeInv, Action, NEW v \in User
  PROVE  /\ Recording(v)' => SyncSubmitPr(v) \/ (Recording(v) /\ held'[v] = held[v])
         /\ Recording(v) /\ ~Recording(v)' => RecordSubmitted(v) \/ raced'
         /\ Returning(v) /\ ~Returning(v)' =>
              RecordWithdrawn(v) \/ RecordChangesRequested(v) \/ raced'
<1> USE DEF TypeInv, TypeOK, Recording, Returning
<1>1. ASSUME NEW u \in User, u # v, step'[v] = step[v], held'[v] = held[v]
      PROVE  /\ Recording(v)' => Recording(v) /\ held'[v] = held[v]
             /\ Recording(v) => Recording(v)'
             /\ Returning(v) => Returning(v)'
  BY <1>1
<1>2. CASE \/ Submit(v) \/ Withdraw(v) \/ RequestChanges(v) \/ Approve(v) \/ MarkAsMerged(v)
           \/ SubmitBranch(v)
  BY <1>2 DEF Submit, Withdraw, RequestChanges, Approve, MarkAsMerged, Reads, SubmitBranch,
     GoTo, Answered
<1>3. CASE SyncSubmitPr(v)
  BY <1>3 DEF SyncSubmitPr
<1>4. CASE RecordSubmitted(v) \/ RecordWithdrawn(v) \/ RecordChangesRequested(v)
           \/ RecordApproved(v) \/ Archive(v)
  BY <1>4 DEF RecordSubmitted, RecordWithdrawn, RecordChangesRequested, RecordApproved,
     Archive, Answered, GoTo
<1>5. CASE Die(v)
  BY <1>5 DEF Die, Unsaved, Answered, GoTo
<1>6. ASSUME NEW u \in User, u # v,
             \/ Submit(u) \/ Withdraw(u) \/ RequestChanges(u) \/ Approve(u) \/ MarkAsMerged(u)
             \/ SubmitBranch(u) \/ SyncSubmitPr(u)
             \/ RecordSubmitted(u) \/ RecordWithdrawn(u) \/ RecordChangesRequested(u)
             \/ RecordApproved(u) \/ Archive(u) \/ Die(u)
      PROVE  step'[v] = step[v] /\ held'[v] = held[v]
  BY <1>6 DEF Submit, Withdraw, RequestChanges, Approve, MarkAsMerged, Reads, SubmitBranch,
     GoTo, Answered, SyncSubmitPr, RecordSubmitted, RecordWithdrawn, RecordChangesRequested,
     RecordApproved, Archive, Die, StageInv
<1>7. CASE UNCHANGED requestVars
  BY <1>7 DEF requestVars
<1>8. QED
  BY <1>1, <1>2, <1>3, <1>4, <1>5, <1>6, <1>7 DEF Action, Dequeue, PushBranch, OpenPull,
     ConvertToDraft, RecordSuccess, RecordSuperseded, Refused, Fail, Release, RequeueFailed,
     PollRead, PollRecord, MergePull, ClosePull, WorkerRest, PollRest

(* A submit leaves the queue with the outcome of its run, which is recorded. *)
LEMMA LiveSteps ==
  ASSUME TypeInv, Action, NEW n, Live(n), ~Live(n)'
  PROVE  /\ running # NoTask /\ running.kind = "submit" /\ running.at = n
         /\ SeenByWorker
         /\ \/ RecordSuccess \/ RecordSuperseded
            \/ stage = "nothing" /\ Refused /\ FailTask(TRUE)
            \/ Fail /\ FailTask(FALSE)
<1> USE DEF TypeInv, TypeOK, StageInv
<1>1. ASSUME NEW t \in queue, Dequeue(t)
      PROVE  Live(n)'
  BY <1>1 DEF Dequeue, Live
<1>2. CASE RecordSuccess \/ RecordSuperseded
  BY <1>2 DEF RecordSuccess, RecordSuperseded, Live, queueVars, Finished
<1>3. ASSUME RetryTask, Finished, running # NoTask
      PROVE  Live(n)'
  <2>1. running \in Task
    BY <1>3
  <2> DEFINE more == [running EXCEPT !.tries = @ + 1]
  <2>2. more.kind = running.kind /\ more.at = running.at
    BY <2>1 DEF Task
  <2>3. more # NoTask /\ queue' = queue \union {more}
    BY <1>3, <2>1 DEF Task, RetryTask
  <2> HIDE DEF more
  <2>4. QED
    BY <2>2, <2>3 DEF Live
<1>4. CASE Refused
  <2>1. running # NoTask
    BY <1>4 DEF Refused
  <2>2. (stage = "nothing" /\ FailTask(TRUE)) \/ (running.kind = "draft" /\ FailTask(FALSE))
    BY <1>3, <1>4, <2>1 DEF Refused
  <2>3. \E t \in queue \union {running} : t.kind = "submit" /\ t.at = n
    BY DEF Live
  <2>4. queue' = queue
    BY <2>2 DEF FailTask
  <2>5. QED
    BY <1>4, <2>1, <2>2, <2>3, <2>4 DEF FailTask, Live
<1>5. CASE Fail
  <2>1. running # NoTask
    BY <1>5 DEF Fail
  <2>2. FailTask(FALSE)
    BY <1>3, <1>5, <2>1 DEF Fail
  <2>3. QED
    BY <1>5, <2>1, <2>2 DEF FailTask, Live
<1>6. CASE Release
  BY <1>6 DEF Release, Finished, Live
<1>7. CASE queue \subseteq queue' /\ running' = running
  BY <1>7 DEF Live
<1>8. QED
  BY <1>1, <1>2, <1>4, <1>5, <1>6, <1>7 DEF Action, Submit, SubmitBranch, SyncSubmitPr,
     RecordSubmitted, Withdraw, RecordWithdrawn, RequestChanges, RecordChangesRequested,
     Approve, RecordApproved, MarkAsMerged, Archive, Die, PushBranch, OpenPull, ConvertToDraft,
     RequeueFailed, PollRead, PollRecord, MergePull, ClosePull, RequestRest, WorkerRest,
     PollRest, SyncConvertToDraft, Enqueue, queueVars, workerVars

(* Only the conversion of a pull request adds to those drafted. *)
LEMMA DraftedSteps ==
  ASSUME TypeInv, Action
  PROVE  drafted' \subseteq drafted \/ (stage = "draft" /\ stage' # stage)
BY DEF Action, Submit, SubmitBranch, SyncSubmitPr, RecordSubmitted, Withdraw,
   RecordWithdrawn, RequestChanges, RecordChangesRequested, Approve, RecordApproved,
   MarkAsMerged, Archive, Die, Dequeue, PushBranch, OpenPull, ConvertToDraft, RecordSuccess,
   RecordSuperseded, Refused, Fail, Release, RequeueFailed, PollRead, PollRecord, MergePull,
   ClosePull, historyVars, WorkerRest, PollRest
-----------------------------------------------------------------------------
(* The invariants of the review. *)

LEMMA AgeStep ==
  ASSUME TypeInv, AgeInv, Action
  PROVE  AgeInv'
<1> USE DEF TypeInv, TypeOK, StageInv, AgeInv
<1>1. stamped' \in Nat /\ stamped <= stamped'
  BY StampSteps
<1>2. meta'.at <= stamped'
  <2>1. meta'.at = meta.at \/ \E u \in User : meta'.at = held[u].at
    <3>1. ASSUME NEW u \in User, RecordSubmitted(u)
          PROVE  meta'.at = held[u].at
      BY <3>1 DEF RecordSubmitted, Meta
    <3>2. QED
      BY <3>1, MetaSteps
  <2>2. meta.at \in Nat /\ \A u \in User : held[u].at \in Nat
    BY DEF Meta, Held
  <2>3. QED
    BY <1>1, <2>1, <2>2
<1>3. \A u \in User : held'[u].at <= stamped'
  <2> SUFFICES ASSUME NEW u \in User
               PROVE  held'[u].at <= stamped'
    OBVIOUS
  <2>1. held[u].at \in Nat
    BY DEF Held
  <2>2. HeldChange(u)
    BY HeldSteps
  <2>3. held'[u].at \in {held[u].at, 0} \/ (SyncSubmitPr(u) /\ held'[u].at = stamped + 1)
    BY <2>2 DEF HeldChange, NothingHeld, None
  <2>4. SyncSubmitPr(u) => stamped' = stamped + 1
    BY DEF SyncSubmitPr
  <2>5. QED
    BY <1>1, <2>1, <2>3, <2>4
<1>4. \A t \in Tasks' : t.at <= stamped'
  <2> SUFFICES ASSUME NEW t \in Tasks'
               PROVE  t.at <= stamped'
    OBVIOUS
  <2>1. t \in Task /\ NewTask(t)
    BY TaskStep
  <2>2. t.at \in Nat
    BY <2>1 DEF Task
  <2>3. \/ \E s \in Tasks : t.at = s.at
        \/ t.at = stamped
        \/ (\E u \in User : SyncSubmitPr(u)) /\ t.at = stamped + 1
    BY <2>1 DEF NewTask
  <2>4. (\E u \in User : SyncSubmitPr(u)) => stamped' = stamped + 1
    BY DEF SyncSubmitPr
  <2>5. QED
    BY <1>1, <2>2, <2>3, <2>4
<1>5. \A p \in Pulls : pulls'[p].shows <= stamped'
  <2> SUFFICES ASSUME NEW p \in Pulls
               PROVE  pulls'[p].shows <= stamped'
    OBVIOUS
  <2>1. pulls[p].shows \in Nat /\ pulls[p].shows <= stamped
    OBVIOUS
  <2>2. pulls'[p].shows = pulls[p].shows \/ (OpenPull /\ pulls'[p].shows = running.at)
    BY ShowsSteps
  <2>3. OpenPull => running.at \in Nat /\ running.at <= stamped
    BY DEF OpenPull, Tasks, Task
  <2>4. QED
    BY <1>1, <2>1, <2>2, <2>3
<1>6. \A n \in Submits : carries'[n] <= remote'
  <2>1. remote' \in {remote, remote + 1} /\ \A n \in Submits : carries[n] \in Nat
    BY StampSteps
  <2>2. CASE UNCHANGED carries
    BY <2>1, <2>2
  <2>3. CASE carries' = [carries EXCEPT ![stamped + 1] = remote]
    BY <2>1, <2>3
  <2>4. QED
    BY <2>2, <2>3, StampSteps
<1>7. QED
  BY <1>2, <1>3, <1>4, <1>5, <1>6

LEMMA SaveStep ==
  ASSUME TypeInv, AgeInv, SaveInv, Action
  PROVE  SaveInv'
<1> USE DEF TypeInv, TypeOK, StageInv, SaveInv
<1>1. ASSUME ~raced'
      PROVE  NewestSaved' \/ \E v \in User : Recording(v)' /\ held'[v].at = stamped'
  <2>1. ~raced
    BY <1>1, RacedSteps
  <2>2. ASSUME NEW u \in User, SyncSubmitPr(u)
        PROVE  Recording(u)' /\ held'[u].at = stamped'
    BY <2>2, StampedSubmit DEF SyncSubmitPr, Recording, GoTo
  <2>3. ASSUME NEW u \in User, RecordSubmitted(u)
        PROVE  NewestSaved'
    <3>1. \A v \in User \ {u} : ~Recording(v)
      BY <1>1, <2>3 DEF RecordSubmitted, SeenBy, Unsaved, Recording
    <3>2. held[u].at = stamped
      BY <2>1, <2>3, <3>1 DEF RecordSubmitted, NewestSaved, Recording
    <3>3. meta'.at = stamped /\ stamped' = stamped
      BY <2>3, <3>2 DEF RecordSubmitted, Meta
    <3>4. \A v \in User : ~Recording(v)'
      BY <2>3, <3>1 DEF RecordSubmitted, Answered, GoTo, Recording
    <3>5. QED
      BY <3>3, <3>4 DEF NewestSaved
  <2>4. CASE ~(\E u \in User : SyncSubmitPr(u) \/ RecordSubmitted(u))
    <3>1. meta'.at = meta.at /\ stamped' = stamped
      BY <2>4, MetaSteps, StampSteps
    <3>2. \A v \in User : /\ Recording(v)' => Recording(v) /\ held'[v] = held[v]
                          /\ Recording(v) => Recording(v)'
      BY <1>1, <2>4, RecordingSteps
    <3>3. QED
      BY <2>1, <3>1, <3>2 DEF NewestSaved
  <2>5. QED
    BY <2>2, <2>3, <2>4
<1>2. ASSUME NEW v \in User, Recording(v)', ~raced'
      PROVE  \/ held'[v].sync = "failed" /\ held'[v].unfinished
             \/ /\ held'[v].sync = "pending"
                /\ \E t \in queue' \union ({running'} \ {NoTask}) :
                     t.kind = "submit" /\ t.at = held'[v].at
  <2>1. CASE SyncSubmitPr(v)
    <3>1. CASE held'[v].sync = "pending" /\ Enqueue("submit", stamped + 1, None)
      <4> DEFINE new == [id |-> ids + 1, kind |-> "submit", at |-> stamped + 1, pr |-> None,
                         again |-> FALSE, tries |-> 0]
      <4>1. new \in queue' /\ new.kind = "submit" /\ new.at = stamped + 1
        BY <3>1 DEF Enqueue
      <4> HIDE DEF new
      <4>2. held'[v].at = stamped + 1
        BY <2>1, StampedSubmit
      <4>3. QED
        BY <3>1, <4>1, <4>2
    <3>2. CASE held'[v].sync = "failed" /\ held'[v].unfinished
      BY <3>2
    <3>3. QED
      BY <2>1, <3>1, <3>2, StampedSubmit
  <2>2. CASE Recording(v) /\ held'[v] = held[v]
    <3>1. \/ held[v].sync = "failed" /\ held[v].unfinished
          \/ held[v].sync = "pending" /\ Live(held[v].at)
      BY <1>2, <2>2, RacedSteps
    <3>2. ASSUME NEW n, Live(n)
          PROVE  Live(n)'
      <4>1. ~SeenByWorker
        BY <1>2, <2>2 DEF SeenByWorker, Unsaved, Recording
      <4>2. QED
        BY <3>2, <4>1, LiveSteps
    <3>3. CASE held[v].sync = "failed" /\ held[v].unfinished
      BY <2>2, <3>3
    <3>4. CASE held[v].sync = "pending" /\ Live(held[v].at)
      <4> DEFINE n == held[v].at
      <4>1. Live(n) => \E t \in queue' \union ({running'} \ {NoTask}) :
                         t.kind = "submit" /\ t.at = n
        BY <3>2 DEF Live
      <4>2. QED
        BY <2>2, <3>4, <4>1
    <3>5. QED
      BY <3>1, <3>3, <3>4
  <2>3. QED
    BY <1>2, <2>1, <2>2, RecordingSteps
<1>3. ASSUME NEW v \in User, Recording(v)'
      PROVE  (held'[v].sync = "failed" /\ held'[v].unfinished) \/ held'[v].sync = "pending"
  BY <1>3, RecordingSteps, StampedSubmit
<1>4. QED
  BY <1>1, <1>2, <1>3 DEF Live

(* A withdrawal that nothing has followed lasts until the next submit. *)
LEMMA WithdrawnSteps ==
  ASSUME TypeInv, SaveInv, Action, ~raced', ~(\E u \in User : SyncSubmitPr(u)), Withdrawn
  PROVE  Withdrawn'
<1> USE DEF TypeInv, TypeOK, StageInv
<1>1. ~raced
  BY RacedSteps
<1>2. ASSUME NEW u \in User, Returning(u)
      PROVE  Withdrawn'
  <2>1. CASE Returning(u)'
    BY <2>1 DEF Withdrawn
  <2>2. CASE RecordWithdrawn(u) \/ RecordChangesRequested(u)
    <3>1. \A v \in User \ {u} : ~Recording(v)
      BY <2>2 DEF RecordWithdrawn, RecordChangesRequested, SeenBy, Unsaved, Recording
    <3>2. ~Recording(u)
      BY <1>2 DEF Returning, Recording
    <3>3. NewestSaved
      BY <1>1, <3>1, <3>2 DEF SaveInv
    <3>4. meta'.at = meta.at /\ stamped' = stamped
      BY <2>2, StampSteps DEF RecordWithdrawn, RecordChangesRequested, Meta
    <3>5. \A v \in User : ~Recording(v)'
      BY <3>1, <3>2, RecordingSteps
    <3>6. ~InReview'
      BY <2>2 DEF RecordWithdrawn, RecordChangesRequested, InReview, Meta
    <3>7. QED
      BY <3>3, <3>4, <3>5, <3>6 DEF Withdrawn, NewestSaved
  <2>3. QED
    BY <1>2, <2>1, <2>2, RecordingSteps
<1>3. CASE NewestSaved /\ ~InReview
  <2>1. ~(\E u \in User : RecordSubmitted(u))
    BY <1>3 DEF NewestSaved, RecordSubmitted, Recording
  <2>2. meta'.at = meta.at /\ stamped' = stamped /\ ~InReview'
    BY <1>3, <2>1, MetaSteps, StampSteps
  <2>3. \A v \in User : ~Recording(v)'
    BY <1>3, RecordingSteps DEF NewestSaved
  <2>4. QED
    BY <1>3, <2>2, <2>3 DEF Withdrawn, NewestSaved
<1>4. QED
  BY <1>2, <1>3 DEF Withdrawn

LEMMA DraftStep ==
  ASSUME TypeInv, AgeInv, SaveInv, DraftInv, RunInv, Action
  PROVE  DraftInv'
<1> USE DEF TypeInv, TypeOK, StageInv
<1>1. ASSUME ~raced', NEW p \in drafted'
      PROVE  pulls'[p].draft
  <2>1. ~raced /\ \A q \in drafted : q \in Pulls /\ pulls[q].draft
    BY <1>1, RacedSteps DEF DraftInv
  <2>2. CASE OpenPull
    BY <1>1, <2>1, <2>2 DEF OpenPull, RunInv
  <2>3. CASE ConvertToDraft
    <3>1. p \in Pulls
      BY <1>1, HistoryStep DEF HistoryType
    <3>2. \/ pulls' = pulls /\ drafted' = drafted
          \/ /\ pulls' = [pulls EXCEPT ![running.pr].draft = TRUE]
             /\ drafted' \subseteq drafted \union {running.pr}
      BY <2>3 DEF ConvertToDraft
    <3>3. CASE pulls' = pulls /\ drafted' = drafted
      BY <1>1, <2>1, <3>3
    <3>4. CASE pulls' = [pulls EXCEPT ![running.pr].draft = TRUE] /\ p = running.pr
      BY <3>1, <3>4
    <3>5. CASE pulls' = [pulls EXCEPT ![running.pr].draft = TRUE] /\ p \in drafted
      BY <2>1, <3>5
    <3>6. QED
      BY <1>1, <3>2, <3>3, <3>4, <3>5
  <2>4. CASE \E q \in Pulls : MergePull(q) \/ ClosePull(q)
    BY <1>1, <2>1, <2>4 DEF MergePull, ClosePull, PollRest
  <2>5. CASE UNCHANGED pulls /\ drafted' \in {drafted, {}}
    BY <1>1, <2>1, <2>5
  <2>6. QED
    BY <2>2, <2>3, <2>4, <2>5 DEF Action, Submit, SubmitBranch, SyncSubmitPr, RecordSubmitted,
       Withdraw, RecordWithdrawn, RequestChanges, RecordChangesRequested, Approve,
       RecordApproved, MarkAsMerged, Archive, Die, Dequeue, PushBranch, RecordSuccess,
       RecordSuperseded, Refused, Fail, Release, RequeueFailed, PollRead, PollRecord,
       historyVars, githubVars, RequestRest, WorkerRest, PollRest
<1>2. ASSUME ~raced', drafted' # {}
      PROVE  Withdrawn'
  <2>1. ~raced /\ ~(\E u \in User : SyncSubmitPr(u))
    BY <1>2, RacedSteps DEF SyncSubmitPr
  <2>2. CASE ConvertToDraft /\ running.at = stamped
    <3>1. running \in Tasks /\ running.kind = "draft"
      BY <2>2 DEF ConvertToDraft, Tasks
    <3>2. QED
      BY <1>2, <2>1, <2>2, <3>1, WithdrawnSteps DEF DraftInv
  <2>3. CASE drafted' \in {drafted, {}}
    BY <1>2, <2>1, <2>3, WithdrawnSteps DEF DraftInv
  <2>4. QED
    BY <2>2, <2>3 DEF Action, Submit, SubmitBranch, SyncSubmitPr, RecordSubmitted, Withdraw,
       RecordWithdrawn, RequestChanges, RecordChangesRequested, Approve, RecordApproved,
       MarkAsMerged, Archive, Die, Dequeue, PushBranch, OpenPull, ConvertToDraft, RecordSuccess,
       RecordSuperseded, Refused, Fail, Release, RequeueFailed, PollRead, PollRecord, MergePull,
       ClosePull, historyVars, WorkerRest, PollRest
<1>3. ASSUME ~raced', NEW t \in Tasks', t.kind = "draft", t.at = stamped'
      PROVE  Withdrawn'
  <2>1. ~raced /\ t \in Task /\ NewTask(t)
    BY <1>3, RacedSteps, TaskStep
  <2>2. ~(\E u \in User : SyncSubmitPr(u)) /\ stamped' = stamped
    <3>1. t.at <= stamped
      BY <1>3, <2>1 DEF NewTask, AgeInv
    <3>2. QED
      <4>1. stamped' # stamped + 1
        BY <1>3, <3>1
      <4>2. (\E u \in User : SyncSubmitPr(u)) => stamped' = stamped + 1
        BY DEF SyncSubmitPr
      <4>3. QED
        BY <4>1, <4>2, StampSteps
  <2>3. ASSUME NEW u \in User, Withdraw(u) \/ RequestChanges(u)
        PROVE  Withdrawn'
    BY <2>3 DEF Withdraw, RequestChanges, Reads, Withdrawn, Returning
  <2>4. ASSUME NEW s \in Tasks, t.kind = s.kind, t.at = s.at
        PROVE  Withdrawn'
    BY <1>3, <2>1, <2>2, <2>4, WithdrawnSteps DEF DraftInv
  <2>5. QED
    BY <1>3, <2>1, <2>3, <2>4 DEF NewTask
<1>4. QED
  BY <1>1, <1>2, <1>3 DEF DraftInv

LEMMA RunInvStep ==
  ASSUME TypeInv, AgeInv, SaveInv, DraftInv, RunInv, Action
  PROVE  RunInv'
<1> USE DEF TypeInv, TypeOK, StageInv
<1>1. ASSUME NEW t \in queue, Dequeue(t), ~raced'
      PROVE  RunInv'
  <2>1. ~raced /\ t \in Tasks /\ t \in Task
    BY <1>1, RacedSteps DEF Tasks
  <2>2. UNCHANGED <<meta, pulls, drafted, step, held>> /\ running' = t
    BY <1>1 DEF Dequeue, githubVars, WorkerRest, requestVars
  <2>3. CASE stage' = "push"
    <3>1. \A v \in User : Unsaved(v) => step[v] = "record" /\ held[v].at = t.at
      BY <1>1, <2>3 DEF Dequeue, SeenByRunOf
    <3>2. t.at = stamped /\ ~(NewestSaved /\ ~InReview)
      <4>1. CASE NewestSaved
        <5>1. t.at <= stamped /\ meta.at = stamped
          BY <2>1, <4>1 DEF AgeInv, NewestSaved
        <5>2. ~IsSupersededSubmit(t)
          BY <1>1, <2>3 DEF Dequeue
        <5>3. ~(meta.at < t.at)
          BY <2>1, <5>1 DEF Task
        <5>4. QED
          BY <5>1, <5>2, <5>3 DEF IsSupersededSubmit
      <4>2. CASE \E v \in User : Recording(v) /\ held[v].at = stamped
        BY <3>1, <4>2 DEF Recording, Unsaved, NewestSaved
      <4>3. QED
        BY <2>1, <4>1, <4>2 DEF SaveInv
    <3>3. ~(\E v \in User : Returning(v))
      BY <3>1 DEF Returning, Unsaved
    <3>4. drafted = {}
      BY <2>1, <3>2, <3>3 DEF DraftInv, Withdrawn
    <3>5. QED
      BY <2>2, <2>3, <3>2, <3>4 DEF RunInv, AgeInv
  <2>4. CASE stage' = "superseded"
    <3>1. \A v \in User : ~Unsaved(v)
      BY <1>1, <2>4 DEF Dequeue, SeenByWorker
    <3>2. IsSupersededSubmit(t)
      BY <1>1, <2>4 DEF Dequeue
    <3>3. ~(InReview /\ meta.at = t.at)
      BY <3>2 DEF IsSupersededSubmit, InReview
    <3>4. QED
      BY <2>2, <2>4, <3>1, <3>3 DEF RunInv, InReview, Recording, Unsaved
  <2>5. QED
    BY <1>1, <2>3, <2>4 DEF Dequeue, RunInv
<1>2. ASSUME stage' = "idle" \/ stage' \in {"answered", "nothing", "refused", "draft"}
      PROVE  RunInv'
  BY <1>2 DEF RunInv
<1>3. ASSUME stage' = stage, running' = running, ~raced'
      PROVE  RunInv'
  <2>1. ~raced
    BY <1>3, RacedSteps
  <2>2. CASE stage \in {"push", "pull"}
    <3>1. drafted = {} /\ \A p \in Pulls : pulls[p].shows <= running.at
      BY <2>1, <2>2 DEF RunInv
    <3>2. drafted' = {}
      BY <1>3, <2>2, <3>1, DraftedSteps
    <3>3. \A p \in Pulls : pulls'[p].shows <= running'.at
      <4>1. running.at \in Nat
        BY <2>2 DEF Task
      <4>2. QED
        BY <1>3, <3>1, <4>1, ShowsSteps
    <3>4. QED
      BY <1>3, <2>2, <3>2, <3>3 DEF RunInv
  <2>3. CASE stage = "superseded"
    <3>1. /\ ~(InReview /\ meta.at = running.at)
          /\ \A v \in User : Recording(v) => held[v].at # running.at
      BY <2>1, <2>3 DEF RunInv
    <3>2. running.at \in Nat /\ running.at <= stamped
      BY <2>3 DEF Task, AgeInv, Tasks
    <3>3. \A v \in User : Recording(v)' => held'[v].at # running.at
      BY <3>1, <3>2, RecordingSteps, StampedSubmit
    <3>4. ~(InReview' /\ meta'.at = running.at)
      <4>1. ASSUME NEW u \in User, RecordSubmitted(u)
            PROVE  meta'.at # running.at
        <5>1. Recording(u) /\ meta'.at = held[u].at
          BY <4>1 DEF RecordSubmitted, Recording, Meta
        <5>2. QED
          BY <3>1, <5>1
      <4>2. QED
        BY <3>1, <4>1, MetaSteps
    <3>5. QED
      BY <1>3, <2>3, <3>3, <3>4 DEF RunInv
  <2>4. QED
    BY <1>3, <2>2, <2>3 DEF RunInv
<1>4. ASSUME PushBranch, ~raced'
      PROVE  RunInv'
  BY <1>4 DEF PushBranch, RunInv
<1>5. CASE raced'
  BY <1>5 DEF RunInv
<1>6. QED
  BY <1>1, <1>2, <1>3, <1>4, <1>5 DEF Action, Submit, SubmitBranch, SyncSubmitPr,
     RecordSubmitted, Withdraw, RecordWithdrawn, RequestChanges, RecordChangesRequested,
     Approve, RecordApproved, MarkAsMerged, Archive, Die, OpenPull, ConvertToDraft,
     RecordSuccess, RecordSuperseded, Refused, Fail, Release, RequeueFailed, PollRead,
     PollRecord, MergePull, ClosePull, RequestRest, PollRest, workerVars, Finished

LEMMA PublishStep ==
  ASSUME TypeInv, AgeInv, PublishInv, Action
  PROVE  PublishInv'
<1> USE DEF TypeInv, TypeOK, StageInv
<1>1. CASE PushBranch
  <2>1. running.at \in Submits
    BY <1>1 DEF PushBranch, Tasks, Task, Submits, None
  <2>2. github' = remote /\ carries' = carries /\ running' = running /\ stage' = "pull"
    BY <1>1 DEF PushBranch, WorkerRest
  <2>3. QED
    BY <2>1, <2>2 DEF AgeInv, PublishInv
<1>2. CASE OpenPull
  <2>1. UNCHANGED <<github, carries, running>> /\ stage = "pull"
    BY <1>2 DEF OpenPull, WorkerRest
  <2>2. CASE stage' = "nothing"
    <3>1. NoCommitsBetween /\ pulls' = pulls
      BY <1>2, <2>2 DEF OpenPull
    <3>2. QED
      BY <2>1, <2>2, <3>1 DEF PublishInv, NoCommitsBetween, MergedHeads
  <2>3. CASE stage' = "answered"
    <3>1. running.at \in Nat
      BY <2>1 DEF Task
    <3>2. \E p \in Pulls : pulls'[p].shows = running.at
      BY ShownSteps, <1>2, <2>3
    <3>3. QED
      BY <2>1, <2>3, <3>1, <3>2 DEF PublishInv
  <2>4. QED
    BY <1>2, <2>2, <2>3 DEF OpenPull
<1>3. CASE ConvertToDraft
  BY <1>3 DEF ConvertToDraft, PublishInv
<1>4. ASSUME stage' = "idle" \/ stage' \in {"push", "draft", "superseded"}
      PROVE  PublishInv'
  BY <1>4 DEF PublishInv
<1>5. ASSUME stage' = stage, running' = running, github' = github, ~OpenPull
      PROVE  PublishInv'
  <2>1. CASE stage \in {"pull", "nothing"}
    <3>1. running.at \in Submits /\ running.at <= stamped
      BY <2>1 DEF Tasks, Task, Submits, None, AgeInv
    <3>2. carries'[running.at] = carries[running.at]
      BY <3>1, StampSteps DEF Submits
    <3>3. NoCommitsBetween => NoCommitsBetween'
      BY <1>5, HeadSteps DEF NoCommitsBetween, MergedHeads
    <3>4. QED
      BY <1>5, <2>1, <3>2, <3>3 DEF PublishInv
  <2>2. CASE stage = "answered"
    <3>1. \A p \in Pulls : pulls'[p].shows = pulls[p].shows
      BY <1>5, ShowsSteps
    <3>2. QED
      BY <1>5, <2>2, <3>1 DEF PublishInv
  <2>3. QED
    BY <1>5, <2>1, <2>2 DEF PublishInv
<1>6. QED
  BY <1>1, <1>2, <1>3, <1>4, <1>5 DEF Action, Submit, SubmitBranch, SyncSubmitPr,
     RecordSubmitted, Withdraw, RecordWithdrawn, RequestChanges, RecordChangesRequested,
     Approve, RecordApproved, MarkAsMerged, Archive, Die, Dequeue, RecordSuccess,
     RecordSuperseded, Refused, Fail, Release, RequeueFailed, PollRead, PollRecord, MergePull,
     ClosePull, RequestRest, PollRest, workerVars, Finished, githubVars, OpenPull

(* What is published stays so, for the submits there are. *)
LEMMA PublishedSteps ==
  ASSUME TypeInv, AgeInv, RunInv, Action, ~raced', NEW n \in 0..stamped, Published(n)
  PROVE  Published(n)'
<1> USE DEF TypeInv, TypeOK
<1>1. ~raced
  BY RacedSteps
<1>2. PICK p \in Pulls : \/ n <= pulls[p].shows
                         \/ pulls[p].state = "merged" /\ carries[n] <= pulls[p].head
  BY DEF Published
<1>3. CASE n <= pulls[p].shows
  <2>1. pulls'[p].shows = pulls[p].shows \/ (OpenPull /\ pulls'[p].shows = running.at)
    BY ShowsSteps
  <2>2. OpenPull => running.at \in Nat /\ pulls[p].shows <= running.at
    BY <1>1 DEF OpenPull, RunInv, Task
  <2>3. pulls[p].shows \in Nat
    OBVIOUS
  <2>4. n <= pulls'[p].shows
    BY <1>3, <2>1, <2>2, <2>3
  <2>5. QED
    BY <2>4 DEF Published
<1>4. CASE n = 0
  <2>1. pulls'[p].shows \in Nat
    BY PullStep DEF PullType
  <2>2. QED
    BY <1>4, <2>1 DEF Published
<1>5. CASE n # 0 /\ pulls[p].state = "merged" /\ carries[n] <= pulls[p].head
  <2>1. pulls'[p].state = "merged" /\ pulls'[p].head = pulls[p].head
    BY <1>5, HeadSteps
  <2>2. n \in Submits /\ n # stamped + 1
    BY <1>5 DEF Submits
  <2>3. carries'[n] = carries[n]
    BY <2>2, StampSteps
  <2>4. QED
    BY <1>5, <2>1, <2>3 DEF Published
<1>6. QED
  BY <1>2, <1>3, <1>4, <1>5

(* Told: what branch.json says of a submit that is neither shown nor under way. *)
Told == meta.sync = "failed" /\ meta.unfinished /\ meta.status # "approved"

(* A branch in review keeps telling of its submit, or that is published. *)
LEMMA ToldSteps ==
  ASSUME TypeInv, AgeInv, PublishInv, RunInv, OwedIsTold, Action, ~raced',
         ~(\E u \in User : RecordSubmitted(u)), InReview',
         NEW n, n = meta.at, ~Live(n)', ~Published(n)
  PROVE  Told'
<1> USE DEF TypeInv, TypeOK, StageInv
<1>1. ~raced /\ InReview /\ meta'.at = meta.at
  BY RacedSteps, MetaSteps
<1>2. meta \in Meta
  OBVIOUS
<1>3. CASE Live(n)
  <2>1. running # NoTask /\ running.kind = "submit" /\ running.at = n
    BY <1>3, LiveSteps
  <2>2. ~RecordSuccess
    <3>1. stage = "answered" => Published(running.at)
      BY <2>1 DEF PublishInv, Published
    <3>2. QED
      BY <2>1, <3>1 DEF RecordSuccess
  <2>3. ~RecordSuperseded
    BY <1>1, <2>1 DEF RecordSuperseded, RunInv
  <2>4. stage # "nothing"
    <3>1. stage = "nothing" => Published(running.at)
      <4>1. ASSUME stage = "nothing"
            PROVE  Published(running.at)
        <5>1. carries[running.at] <= github /\ NoCommitsBetween
          BY <4>1 DEF PublishInv
        <5>2. PICK p \in Pulls : pulls[p].state = "merged" /\ github <= pulls[p].head
          BY <5>1 DEF NoCommitsBetween, MergedHeads
        <5>3. running.at \in Submits
          BY <2>1 DEF Task, Submits, None, Tasks
        <5>4. carries[running.at] <= pulls[p].head
          BY <5>1, <5>2, <5>3
        <5>5. QED
          BY <5>2, <5>4 DEF Published
      <4>2. QED
        BY <4>1
    <3>2. QED
      BY <2>1, <3>1
  <2>5. FailTask(FALSE)
    BY <1>3, <2>2, <2>3, <2>4, LiveSteps
  <2>6. OnFailure(FALSE) = [meta EXCEPT !.sync = "failed", !.unfinished = TRUE,
                             !.status = IF @ = "approved" THEN "submitted" ELSE @]
    BY <1>1, <2>1 DEF OnFailure, IsOlderSubmit, InReview
  <2>7. QED
    BY <1>2, <2>5, <2>6 DEF FailTask, Told, Meta
<1>4. CASE ~Live(n)
  <2>1. Told
    BY <1>1, <1>4 DEF OwedIsTold, Told
  <2>2. meta.status = "submitted"
    BY <1>1, <2>1 DEF Told, InReview
  <2>3. CASE RecordSuccess
    <3>1. LeavesSync
      <4>1. CASE running.kind = "submit"
        <5>1. running # NoTask /\ Live(running.at)
          BY <2>3, <4>1 DEF RecordSuccess, Live
        <5>2. QED
          BY <1>4, <4>1, <5>1 DEF LeavesSync, IsOlderSubmit
      <4>2. CASE running.kind = "draft"
        BY <1>1, <2>1, <4>2 DEF LeavesSync, AwaitsSubmitRetry, Told
      <4>3. QED
        BY <2>3, <4>1, <4>2 DEF RecordSuccess, Task
    <3>2. QED
      BY <1>2, <2>1, <2>2, <2>3, <3>1 DEF RecordSuccess, Told, Meta
  <2>4. CASE RecordSuperseded
    BY <2>1, <2>2, <2>4 DEF RecordSuperseded, SettlesSuperseded, Told
  <2>5. CASE Refused \/ Fail
    <3>1. ASSUME NEW unlock \in BOOLEAN
          PROVE  \/ OnFailure(unlock) = meta
                 \/ OnFailure(unlock) = [meta EXCEPT !.sync = "failed"]
                 \/ OnFailure(unlock).status = "editing"
                 \/ OnFailure(unlock) = [meta EXCEPT !.sync = "failed", !.unfinished = TRUE,
                                          !.status = IF @ = "approved" THEN "submitted" ELSE @]
      BY <1>2, <2>2 DEF OnFailure, Meta
    <3>2. ASSUME NEW unlock \in BOOLEAN, meta' = OnFailure(unlock)
          PROVE  Told'
      <4>1. CASE OnFailure(unlock).status = "editing"
        BY <3>2, <4>1 DEF InReview
      <4>2. CASE OnFailure(unlock) \in {meta, [meta EXCEPT !.sync = "failed"]}
        BY <1>2, <2>1, <3>2, <4>2 DEF Told, Meta
      <4>3. CASE OnFailure(unlock) =
                   [meta EXCEPT !.sync = "failed", !.unfinished = TRUE,
                                !.status = IF @ = "approved" THEN "submitted" ELSE @]
        BY <1>2, <3>2, <4>3 DEF Told, Meta
      <4>4. QED
        BY <3>1, <4>1, <4>2, <4>3
    <3>3. CASE UNCHANGED meta
      BY <2>1, <3>3 DEF Told
    <3>4. QED
      BY <2>5, <3>2, <3>3 DEF Refused, Fail, FailTask, RetryTask
  <2>6. CASE PollRecord \/ (\E u \in User : Archive(u))
    <3>1. meta' = Merged \/ meta' = [meta EXCEPT !.prState = answer.state]
      BY <2>6 DEF PollRecord, Archive
    <3>2. meta' # Merged
      BY <1>2 DEF Merged, InReview, Meta
    <3>3. QED
      BY <1>2, <2>1, <3>1, <3>2 DEF Told, Meta
  <2>7. CASE \E u \in User : \/ RecordWithdrawn(u) \/ RecordChangesRequested(u)
                             \/ RecordApproved(u)
    <3>1. \A u \in User : ~RecordWithdrawn(u)
      <4>1. ASSUME NEW u \in User, RecordWithdrawn(u)
            PROVE  meta'.status = "editing"
        <5>1. \/ meta' = [meta EXCEPT !.status = "editing", !.pr = None, !.prState = "none"]
              \/ meta' = [meta EXCEPT !.status = "editing"]
          BY <4>1 DEF RecordWithdrawn
        <5>2. QED
          BY <1>2, <5>1 DEF Meta
      <4>2. QED
        BY <4>1 DEF InReview
    <3>2. meta' = meta \/ meta' = [meta EXCEPT !.status = "editing"]
      BY <2>1, <2>7, <3>1 DEF RecordChangesRequested, RecordApproved, MayApprove, Told
    <3>3. QED
      BY <1>2, <2>1, <3>2 DEF Told, InReview, Meta
  <2>8. CASE UNCHANGED meta
    BY <2>1, <2>8 DEF Told
  <2>9. QED
    BY <2>3, <2>4, <2>5, <2>6, <2>7, <2>8 DEF Action, Submit, SubmitBranch, SyncSubmitPr,
       Withdraw, RequestChanges, Approve, MarkAsMerged, Die, Dequeue, PushBranch, OpenPull,
       ConvertToDraft, Release, RequeueFailed, PollRead, MergePull, ClosePull
<1>5. QED
  BY <1>3, <1>4

LEMMA OwedStep ==
  ASSUME TypeInv, AgeInv, SaveInv, RunInv, PublishInv, OwedIsTold, Action
  PROVE  OwedIsTold'
<1> USE DEF TypeInv, TypeOK, StageInv
<1>1. SUFFICES ASSUME ~raced', InReview', NEW n, n = meta'.at, ~Live(n)', ~Published(n)'
               PROVE  Told'
  BY DEF OwedIsTold, Told, Live, Published
<1>2. ~raced
  BY <1>1, RacedSteps
<1>3. ASSUME NEW u \in User, RecordSubmitted(u)
      PROVE  Told'
  <2>1. n = held[u].at /\ Recording(u)
    BY <1>1, <1>3 DEF RecordSubmitted, Recording, Meta
  <2>2. ~Live(n)
    <3>1. UNCHANGED <<queue, running>>
      BY <1>3 DEF RecordSubmitted, RequestRest, workerVars
    <3>2. QED
      BY <1>1, <3>1 DEF Live
  <2>3. held[u].sync = "failed" /\ held[u].unfinished
    BY <1>2, <2>1, <2>2 DEF SaveInv
  <2>4. held[u] \in Held /\ meta \in Meta
    OBVIOUS
  <2>5. QED
    BY <1>3, <2>3, <2>4 DEF RecordSubmitted, Told, Meta, Held
<1>4. CASE ~(\E u \in User : RecordSubmitted(u))
  <2>1. n = meta.at /\ n \in 0..stamped
    BY <1>1, <1>4, MetaSteps DEF AgeInv, Meta
  <2>2. ~Published(n)
    BY <1>1, <2>1, PublishedSteps
  <2>3. QED
    BY <1>1, <1>4, <2>1, <2>2, ToldSteps
<1>5. QED
  BY <1>3, <1>4

LEMMA ReviewStep ==
  ASSUME TypeInv, ReviewInv, [Next]_vars
  PROVE  ReviewInv'
<1>1. CASE Action
  BY <1>1, AgeStep, SaveStep, DraftStep, RunInvStep, PublishStep, OwedStep DEF ReviewInv
<1>2. CASE UNCHANGED vars
  <2>1. AgeInv'
    BY <1>2 DEF vars, githubVars, queueVars, workerVars, requestVars, historyVars, ReviewInv,
       AgeInv, Tasks
  <2>2. SaveInv'
    BY <1>2 DEF vars, githubVars, queueVars, workerVars, requestVars, historyVars, ReviewInv,
       SaveInv, NewestSaved, Recording, Live
  <2>3. DraftInv'
    BY <1>2 DEF vars, githubVars, queueVars, workerVars, requestVars, historyVars, ReviewInv,
       DraftInv, Withdrawn, Returning, NewestSaved, Recording, InReview, Tasks
  <2>4. RunInv' /\ PublishInv'
    BY <1>2 DEF vars, githubVars, queueVars, workerVars, requestVars, historyVars, ReviewInv,
       RunInv, PublishInv, Recording, InReview, NoCommitsBetween, MergedHeads
  <2>5. OwedIsTold'
    BY <1>2 DEF vars, githubVars, queueVars, workerVars, requestVars, historyVars, ReviewInv,
       OwedIsTold, InReview, Live, Published
  <2>6. QED
    BY <2>1, <2>2, <2>3, <2>4, <2>5 DEF ReviewInv
<1>3. QED
  BY <1>1, <1>2, NextIsAction

LEMMA ReviewInit ==
  ASSUME Init
  PROVE  ReviewInv
BY DEF Init, ReviewInv, AgeInv, SaveInv, NewestSaved, Recording, DraftInv, Withdrawn, Returning,
   RunInv, PublishInv, OwedIsTold, InReview, Tasks, NoPull, NothingHeld, None

(* What branch.json, the tasks, the pull requests and the requests on their     *)
(* way say of one another (syncSubmitPr, isSupersededSubmit,                    *)
(* updateBranchMetadata and updateBranchMetadataOnFailure).                     *)
THEOREM ReviewHolds == Spec => [](TypeInv /\ ReviewInv)
<1>1. Init => TypeInv /\ ReviewInv
  BY TypeInit, ReviewInit
<1>2. TypeInv /\ ReviewInv /\ [Next]_vars => TypeInv' /\ ReviewInv'
  BY TypeStep, ReviewStep
<1>3. QED
  BY <1>1, <1>2, PTL DEF Spec

(* The types of branch.json, tasks, pull requests and requests                  *)
(* (api/github-sync.ts, worker/task-runner.ts).                                 *)
THEOREM TypeCorrect == Spec => []TypeOK
<1>1. TypeInv => TypeOK
  BY DEF TypeInv
<1>2. QED
  BY <1>1, ReviewHolds, PTL

(* A branch in review whose submit is neither published nor on its way says so  *)
(* (updateBranchMetadataOnFailure, worker/task-runner.ts).                      *)
THEOREM OwedSubmitsAreTold == Spec => []OwedIsTold
<1>1. ReviewInv => OwedIsTold
  BY DEF ReviewInv
<1>2. QED
  BY <1>1, ReviewHolds, PTL

(* A pull request drafted for a withdrawal stays one until the next submit      *)
(* (isSupersededSubmit, worker/task-runner.ts).                                 *)
THEOREM DraftsStayDrafts == Spec => []WithdrawnStaysDraft
<1>1. ReviewInv => WithdrawnStaysDraft
  BY DEF ReviewInv, DraftInv, WithdrawnStaysDraft
<1>2. QED
  BY <1>1, ReviewHolds, PTL

(* A pull request never goes back to an older submit's text                     *)
(* (isSupersededSubmit, worker/task-runner.ts).                                 *)
THEOREM LatestSubmitsStand == Spec => LatestSubmitStands
<1> DEFINE Stands == \A p \in Pulls :
                       \/ raced' \/ pulls'[p].shows = pulls[p].shows
                       \/ \A q \in Pulls : pulls[q].shows <= pulls'[p].shows
<1>1. TypeInv /\ ReviewInv /\ [Next]_vars => [Stands]_vars
  <2>1. ASSUME TypeInv, ReviewInv, Action, NEW p \in Pulls, ~raced',
               pulls'[p].shows # pulls[p].shows
        PROVE  \A q \in Pulls : pulls[q].shows <= pulls'[p].shows
    <3>1. OpenPull /\ pulls'[p].shows = running.at
      BY <2>1, ShowsSteps
    <3>2. QED
      BY <2>1, <3>1, RacedSteps DEF OpenPull, ReviewInv, RunInv
  <2>2. QED
    BY <2>1, NextIsAction
<1> HIDE DEF Stands
<1>2. Spec => [][Stands]_vars
  BY <1>1, ReviewHolds, PTL DEF Spec
<1>3. QED
  BY <1>2 DEF Stands, LatestSubmitStands
=============================================================================
