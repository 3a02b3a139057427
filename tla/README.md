# CanopyCMS in TLA+

CanopyCMS is a branch-based CMS over git. This project models the protocols that
keep its shared state correct, checks them with TLC and proves the main safety
properties with TLAPS. Paths below are relative to
`src/packages/canopycms/src/` unless they start with `src/`.

## The system

The production deployment (`src/ARCHITECTURE.md`, `src/docs/concurrency.md`) has two
kinds of processes over one shared NFS/EFS directory:

- any number of API containers (Lambda), each with several requests in flight;
- one EC2 worker: it runs queued GitHub tasks, mirrors GitHub into `remote.git`, and
  rebases every branch clone onto the base branch.

There is no database. State is files: one git clone per branch with its
`.canopy-meta/branch.json`, `branches.json` (a cache of all `branch.json`), the five
directories of the task queue, `remote.git`, and lock and marker files. Four layers
order the accesses: an in-process mutex, optimistic version checks on JSON files,
lock files refreshed by their holder, and generation markers for caches.

### Inventory

| Component | State | Operations | What is hard | What makes it correct |
|---|---|---|---|---|
| Task queue (`task-queue/task-queue.ts`) | `pending/ processing/ completed/ failed/ corrupt/`, one JSON file per task | enqueue, dequeue, complete, fail, retry, release, requeue, recover, clean up, quarantine | every transition is two file steps; a crash between them, two hosts, a write that NFS reports failed but did | no task lost; none run again once finished; retries bounded; reads as one status per task |
| Worker task loop (`worker/task-runner.ts`) | task in hand, tasks run this cycle | recover, claim, attempt with timeout, settle, record on `branch.json` | restart before a file counts as old, shutdown in mid-attempt | every task settles; nothing is recorded before the queue has it |
| Branch registry (`branch-registry.ts`, `resource-generation.ts`) | `branches.json`, the generation marker, a scan in flight per process | list, find, regenerate, invalidate | scans overlap changes and each other; joined scans; lost or unreadable marker; a `branch.json` that cannot be read | a snapshot with the marker's token shows nothing older than announced; stale ones heal |
| Content-write lock (`utils/content-write-lock.ts`) | a marker directory, its refresh timers | try, wait, refresh, be compromised, release | a dead holder, a live one that looks stale | one writer of a tree |
| Working tree and rebase (`worker/rebase.ts`, `services.ts`) | the tree, HEAD, `.git/rebase-merge`, the workflow status | save, submit, withdraw, rebase, abort, recover | check then act across git subprocesses; crash mid-rebase | no answered save is lost; no clone stays mid-rebase |
| History rewrite [SYNC-H1] (`worker/history-rewrite.ts`) | marker and last seen GitHub tip in `branch.json`, `remote.git` ref, queued push | mark, force-push with lease, queue, stamp, self-heal | crashes between the steps; direct pushes on GitHub while a push task runs | nothing pushed on GitHub is deleted; a rewrite is published in the end |
| GitHub commits (`worker/git-sync.ts`, `worker/github-commits.ts`, `worker/branch-merge.ts`) | tips of GitHub's branch, `remote.git` and the clone | fetch, reconcile, fast-forward, merge, publish the merge, record a block | two loops act on values read earlier; rewinds on GitHub | editors' and reviewers' commits are both kept and reach each other |
| JSON store (`utils/occ-json-write.ts`, `utils/async-mutex.ts`) | version and write id per file, lock file | load, compute, verify, rename, retry | two hosts between verify and rename | updates are not lost |
| Branch metadata (`branch-metadata.ts`) | `branch.json` | update, save, saveIf | the branch is deleted or moved while a save waits; bump after write | one record per branch: answered saves stay |
| Submit, review, merge (`api/branch-*.ts`, `api/github-sync.ts`, `worker/task-runner.ts`) | workflow status, PR number, sync status, the pull requests | submit, withdraw, request changes, approve, archive, poll | superseded submits run late, outcomes land out of order | the last submit wins; what is still owed is shown |
| Worker lease (`worker/cms-worker.ts`, `task-queue/worker-status.ts`) | lock on the task directory, `worker-status.json` | start, fail, drain, abort, self-stop, retake | takeover of a live worker, a start that crosses a stop, records that come late | one consumer but for a bounded overlap; the next start is told how the last ended |
| Provisioning, deletion, health (`branch-provisioning.ts`, `branch-workspace.ts`, `api/branch.ts`) | clones and what was moved aside, provisioning lock | create, delete, quarantine, sweep, purge, repair | parallel creators, crash mid-clone, a live tree judged as residue | no half-made branch is served, no live one thrown away, residue frees its name |
| Content store (`content-store.ts`, `content-id-index.ts`, `url-collision.ts`) | a file per entry, whose name has its slug and id; an ID index per store; entry locks | write, rename, delete, repair of duplicates | the name is found again inside two locks, by an index from before both; a rename is a link and an unlink | a save stays until it is replaced, and on its own file; one file per slug, and per URL where collections are told apart |
| Schema cache, comments, settings, assets | files per branch, caches with generation markers | read, append, finalize | stale caches, finalize in parts | caches heal, a finalized asset is whole |
| Editor, adapters, CLI, CDK, configuration, static build | browser drafts or none | | | |

`PROJECT.json` lists each of these with what of it is modelled, and under `hazards`
the lines where the hard cases bite, with the properties that cover them.

## The modules

| Module | Models |
|---|---|
| `TaskLedger` | what the queue promises: a status per task, open, completed, failed or gone |
| `TaskQueue` | the five directories, and each single file step of `task-queue.ts` |
| `TaskRunner` | the worker's loop over them, admin requests, producers, crashes, failed steps |
| `BranchRegistry` | several registries (one per process) over one snapshot, marker and set of `branch.json` |
| `ContentSync` | one clone: requests and the worker's rebase over its tree, status and lock |
| `HistorySync` | one published branch in the clone, `remote.git` and GitHub; the sync loop and the push tasks |
| `BranchRecord` | what a branch's directory promises: one record, created, saved and deleted in single steps |
| `BranchDirectory` | the paths, `branch.json` files and two locks of one branch name; saves, creates, deletes, quarantine, sweep |
| `SubmitLifecycle` | one branch's review: requests, their tasks, the worker's outcomes, the poll, the pull requests |
| `WorkerLease` | several starts of the worker process: the lock, its heartbeat, drains and failures, the status file |
| `EntryStore` | what the content store promises: an entry per slug, and one step of it per request |
| `ContentStore` | the entry files of one branch; saves, creates, renames, deletes and repairs from several containers |
| `MC*` | instances for TLC |
| `*Proofs` | the theorems |

### Task queue

The five directories are variables `pending`, `processing` (task to the `retryCount`
in its file, `NoFile`, or `Unreadable`), `completed`, `failed`, `corrupt`. A task's id is its
age, which is what `dequeueTask` sorts by. Write-then-unlink is two actions, with
the worker's `phase` naming the line it stands at, so that a crash, an admin's delete or
an enqueue falls between any two. A file step may fail, and a failed write may have
been applied (`Disruption`). Deletion and the 30-day sweep put a task in `dismissed`.
The attempt itself is one outcome: succeeded, failed, refused for good, or handed back
by a shutdown. `runs` and `recorded` are history variables.

`TaskRunner` implements `TaskLedger` under the mapping that reads the directories in the
order `getTask` does (`Status`): of two copies the more final one counts.

### Branch registry

A branch's revision counts its changes, odd while it exists; `Unread` in a scan is a branch
not yet read. `list` is `Ask` (read the snapshot), then `ProbeCurrent` or
`ProbeStale` (read the marker), then perhaps a wait for a scan; a scan is `ReadToken`,
one `ReadBranch` per branch and `Persist`. `Change` is the write of a `branch.json`, and `Bump`
and `EagerRegenerate` are `invalidate` after it. `covered` is a history variable: the revisions
at the last bump. `Fails` bounds failed reads and writes, crashes and damage.

A `branch.json` that a scan cannot read is left out of the listing (`Skipped`), and the snapshot
is written with the current token all the same (`branch-registry.ts:311-323`). So "fresh" says
of what a listing shows that it is not older than announced; what was skipped it does not show,
and a trusted snapshot may lack a branch until the next change. `get` alone looks further: the
refresh it forces on a miss (`Find`) is a scan of its own, which must see all that was announced
before it (`floor`), unless it joins one. A listing that joins a scan under way has no
floor, as `branch-registry.ts:236` says.

### Working tree and rebase

The tree is the set of saves it holds uncommitted (`dirty`), the branch the set it
holds committed and the base commit it stands on (`onto`). A request goes through the
guard's status read, the bounded wait, its work inside the lock, the release and, for a
submit, the status write after it. The worker's `stage` names the line of
`rebaseOneBranch`: status read, one try of the lock, recovery of an interrupted rebase,
dirty check, comparison with the base, rounds, and the exits, each through the `finally`.
An abort goes back to `origHead`; which of the uncommitted saves it reverts is open
(untracked files survive). `stale` is a marker whose owner died;
`takeovers` counts live holders whose marker looked stale to another host, and
`noticed` the holders whose `onCompromised` has fired since. `abandoned` and `discarded`
are auxiliary: a rebase that outlived its worker's hold, and what its abort reverted.

### History

A tip is the set of commits it contains; a commit is a patch with the base commit it was
rebased onto, a commit of the base branch, or a merge. So an ancestor is a subset, a
rebase replaces every commit of a patch by another of the same patch, and what the
properties follow is patches. `gitHub`, `remote` and `head` are the branch in its three
repositories; `marker`, `lastTip`, `rewritten`, `stamped` and `failed` are the fields of
`branch.json` that history-rewrite.ts documents. Two loops of one worker interleave.
The sync loop's `stage` goes through the fetch, `reconcileTrackedBranches`, the decisions
of `bringInGitHubCommits`, the rebase and its publication, and `cycle` holds what it read on
the way. The task loop's `pushing` goes through `pushBranchToGitHub`: read the marker, the ref,
then what GitHub has shown, push under the lease, stamp, clear. Between any two steps there
may be a direct push on GitHub, a save, a submit, a crash, or a rewind of GitHub's branch.
`ContentSync` has the lock and the tree that this module takes as one step.

### A branch's directory

`BranchDirectory` gives each tree (the one there at first, one per create, and those a
save's recursive `mkdir` could make) a `place`: built aside, at the branch's path,
quarantined, or trashed. A save is `writeOccJsonFile` inside `withOccFileLock`: check that
the branch exists, take `branch.json.lock` in the directory now at the path, load, compute,
verify, rename, with the conflict reloads of `withOccRetry`. A create builds and renames into
place under the provisioning lock; a delete takes `branch.json.lock` and renames the tree
away, or unlinks `branch.json` when the rename fails; the worker's quarantine renames aside,
judges and moves back, and its sweep clears what a dead one left. A marker's holder may die
(`Left`), and a live marker may be taken over. `intact` says that neither this nor a stale look
has broken the exclusion so far.

`BranchDirectory` implements `BranchRecord`: the record is the set of updates in the
live tree, whether it stands at the path or has been moved aside for a moment.

### Submit lifecycle

A submit reads `branch.json` (the guard), commits and pushes to `remote.git`, queues its
task with the next `submittedAt`, and saves; other requests, the worker and the poll act
between these. Withdraw saves unconditionally, the others through `saveIf`. The
worker's step is one of claim with `isSupersededSubmit`, push, create or update the
pull request, convert it, and the outcome's writes to queue and `branch.json`; `queue` and
`failed` keep the promise of `TaskLedger`, so that a crash of the worker is a released
task here. A retried task is tried `again` after younger ones. Pull requests have a
state, a draft flag, the submit whose text they show and the one whose commits they have;
people merge and close them, and the poll reads one and records it later. `drafted` and
`carries` are auxiliary. So is `raced`: someone else (another user's save, the poll's
record, the worker's outcome for the task itself) acted on `branch.json` between a request's
queueing and its own save, or the worker judged another submit's run by it. The properties hold up to then; what happens after is under Readings.

### Worker lease

A `Worker` is one start of the process, and systemd's restart is another one. `step` is the
process's own thread (live, draining, stopped, retaking the lock to record its loss,
releasing, exiting) and `op` what is in flight beside it, the startup included, so that a
stop can cross any part of a start; `held` are the running heartbeats (`releaseLockFn`) and
`lock` the marker on disk, which may be another's. `status` is `worker-status.json`, as far
as it tells how the last worker stopped; `report` is the object each worker writes there.
`latest`, `stopped` and `before` follow what the file should say, and `orderly` says
that no worker whose lease was gone has written its ordinary reports over it:
`abandoned` work does that, which worker-status.ts accepts as last writer wins.
`TaskRunner` is what happens while one worker has the lease.

### Content store

A file is a place (collection and slug) and an id, and holds a content: the request that wrote
it, or the entry that was there at first. The collections are a tree of directories (`Folder`,
`Parent`, `Name`, `Path`), and `Url` is `computeEntryUrl`: a landing page (slug `Index`) has its
collection's own path. `Contested` is `findUrlPathClaimant`, with what it does not look at: a
landing page looks for one entry in the parent, any other entry into one child collection of its
name. Two collections of one name side by side, which nothing stops being created, may each
get their landing page at one URL (`url-collision.ts:204`). `Rival` is therefore two places of
one URL in collections each alone at its path (`Lone`), and `OneFilePerUrl` claims no more.
 `ContentStore` gives each request a store of its own,
as the API does, so its index (`indexed`, `quarantined`) is as old as `Warm`. A request's `pc`
goes through the index, the pre-pass that picks its lock key, the bounded wait for the
branch's marker (`Enter`, `GiveUp`), the entry keys of its container (`TakeKeys`), the second
resolution with its retries (`Resolve`), the checks (`Judge`) and the file steps: `Put` and
`Tidy` of a save, `Link` and `Unlink` of a rename, `Delete`. A repair takes the marker alone
(`Scan`, `Archive`). A version token is the content it was read with, since every write gives
a file a new mtime and a link keeps it. A container may be killed (`Die`), whose marker then
looks stale, an unlink may fail, and the marker of a live holder may be taken over.

`crossed` is a history variable: two requests that only the marker keeps apart were inside it
at once, from two containers, or one of them a repair. Up to then (`Exclusive`) a takeover has
only let in requests that the entry keys order.

`ContentStore` implements `EntryStore` under the mapping that reads each slug's one file
(`EntryAt`, `ContentAt`) and how far each request has got (`Progress`): indexes, pre-passes,
locks, retries and the tidying of a save are stutters, a save is its `Put`, which must
replace the version it was asked to replace, and a rename is its link (`Copy`) and its
unlink (`Drop`). An answer of 200 is given for what was done (`Answer`); any other answer may
leave it open. A takeover that lets two cross ends the promise (`GiveUp`).

## What TLC checks

| Run | Instance | Shows |
|---|---|---|
| `task_queue` | 2 tasks, 1 admin request, 1 retry, 1 disruption, 1 damaged file, 1 task per cycle | types; `RunsAreUnfinished`, `RetryBudget`, `RecordedIsFinished`, `ImplementsLedger`, `EveryTaskSettles` |
| `branch_registry` | 2 processes, 3 requests, 1 branch, 1 change, 1 failure | types; `CurrentSnapshotIsFresh`, `ListingIsFresh`, `EagerScanSeesChange`, `SnapshotHeals` |
| `content_sync` | 1 save, 1 submit, 1 base commit, 2 rounds, 2 crashes or failed aborts, 1 takeover | types; `SavesSurvive`, `NeverWedged`, `WedgeHeals` |
| `history_sync` | 1 edit, 1 direct push, 1 base commit, 2 merges, 1 submit, 1 crash, failure or rewind | types; `DirectPushesSurvive`, `WorkIsKept`, `RewriteIsPublished`, `DirectPushesReachClone` |
| `branch_directory` | 2 saves, 1 create, 1 delete, the worker, 2 attempts, 1 mishap | types; `UpdatesSurvive`, `NothingHalfMade`, `LiveBranchesStay`, `ImplementsRecord`, `NothingIsLeftBehind` |
| `submit_lifecycle` | 2 users, 2 submits, 1 review decision or wrong mark as merged, 1 retry, 1 merged or closed pull request, 1 failure | types; `OwedIsTold`, `LatestSubmitStands`, `WithdrawnStaysDraft`, `PendingEnds` |
| `worker_lease` | 2 starts, 2 mishaps | types; `WorkHasTheLease`, `LastStopIsTold`, `OverlapEnds`, `QueueIsServed` |
| `content_store` | 3 requests of 2 containers, 1 entry, 3 places, 2 rounds, 1 kill, failed unlink or takeover | types; `SavesStand`, `OneFilePerUrl`, `ImplementsEntryStore` |
| `outcome_reaches_branch` | `task_queue` with less trouble | violated: see Findings |
| `review_is_untouched` | `content_sync` with less trouble | violated: see Findings |
| `removed_stays_removed` | as `history_sync` | violated: see Findings |
| `withdrawn_is_draft` | as `submit_lifecycle` | violated: see Findings |

Bounds, and why they suffice. Two tasks are what it takes for one to be passed over or
deduplicated while another is claimed; tasks do not interact otherwise. Two processes with
two requests in one of them give joined, drained and overwritten scans. A save and a submit
contend with the worker; two mishaps give a failed abort of a rebase that a crash left; two
rounds give a stop, a resolution and a completion. In `history_sync` the branch is
submitted once, gets one commit on GitHub and one new base: enough for every exit of
`bringInGitHubCommits` and for a rewrite that is overtaken by a direct push; the second merge
takes in what was pushed while the first was on its way. Two saves race for one file, and
the create takes the name the delete has freed while both wait. Two submits give an older
and a newer one, around one withdrawal, one failure of any step and one merged
pull request. Two starts of the worker contend for the lease, and two mishaps fail two starts
in a row, or rob one worker and crash the other; what a third start would be told is
read off the file in every state (`LastStopIsTold`). In `content_store` two places are an entry
and the landing page of the collection of its name, which have one URL, and the third is what a
rename goes to or comes from;
three requests are a rename or a delete between a save's resolutions, and a third who sees
the result, and two rounds are a wrong key and the right one. Its containers may be swapped
(`SYMMETRY`), and behaviours end where a takeover has let two cross (`CONSTRAINT Exclusive`):
nothing is claimed after. Where an instance has a single disruption, change or mishap, the
proofs cover the safety properties for any number. A mishap more in the
three largest runs is out of the time a run may take.

`CHECK_DEADLOCK FALSE` stands where the bounded system may stop: with all tasks settled, no
admin request left and the bounds used up; with every request answered; with every start of the
worker over; and, in `HistorySync`, where the next step would be a merge beyond `MaxMerges`.

Every checked property has a mutant, an operator beside the definition it replaces (`Fault
of ...`), which a plausible bug in that code would amount to and which violates it.

### Fairness

- Task queue: weak fairness of the worker's steps (`scheduleLoop` re-schedules itself,
  systemd restarts the process), and of time (files age, backoffs pass). None for producers,
  admins, sweeps, disruptions or handed-back attempts.
- Registry: weak fairness of the steps of requests and scans once started, and of the time
  after which a forced refresh is allowed again. None of asking: the editor polls only while a
  branch waits for the worker (`useBranchesData.ts:64`), so `SnapshotHeals` has as
  hypotheses that listings go on being asked for, and for its second half that the branch is.
- Content sync: weak fairness of each request's own steps (a container answers or is
  killed) and of the worker's loop. None for saves to be asked for, notices, crashes,
  withdraws, or a git step that throws.
- History: weak fairness of each of the two loops, and strong fairness of a task's giving up,
  since it has `maxRetries` attempts. None for people, saves, submits or crashes.
- Directory: weak fairness of a create that was begun and of the worker's cycle; strong
  fairness of the worker's lock, of its move to the trash and of its sweep, which others
  can put off but not for ever. Saves and deletes owe nothing.
- Submit lifecycle: weak fairness of the worker and of requests once begun. Nobody has to
  review, poll, retry or merge.
- Lease: weak fairness of starting (systemd's `Restart=always`), of a drain once begun and
  of the refresh that notices a foreign marker (a timer). Work may hang for ever: the drain's
  deadline alone ends it.

### Findings

- `OutcomeReachesBranch` (`worker/task-runner.ts:263`): a crash after `completeTask` and
  before `updateBranchMetadata` leaves `pending-sync` on the branch for good.
- `ReviewIsUntouched` (`worker/rebase.ts:1050`): the status is read before the lock and not
  again inside, so a submit that completes in between is rebased while in review.
- `RemovedStaysRemoved` (`worker/task-runner.ts:1036`): github-commits.ts says that a commit
  removed on GitHub stays removed. A push that is recorded late puts its own tip over the
  newer one that reconcile has recorded, and the next push then takes the removed commit
  back to GitHub.
- `WithdrawnIsDraft` (`api/github-sync.ts:237`): a withdrawal converts the pull request named
  in `branch.json`. While the first submit's is being opened there is no number there: the
  pull request stays ready for review on a branch that is back to editing.

### Readings without a run

What the models reach, or a reading of the code shows, and no run states: either the code
promises nothing, or `raced` and `intact` except it.

- A delete that lands between `dequeueTask`'s two steps does not leave the worker to run its
  processing copy, as `api/admin.ts:385` says: the failed unlink makes it pass the task over, and
  orphan recovery puts it back later.
- The report of abandoned work, or a start that read the status file before its lock was taken
  over, can replace a successor's report; the successor's next one replaces it in turn.
- A conversion to draft, or another task that is no submit, that ends after the resubmit's
  save replaces the pending sync (`branch-metadata.ts:359`); a merge recorded then is
  archived without `unpublishedAtMerge`.
- A late conversion to draft, or a `markReady` that fails (it is best effort), leaves
  the pull request of a submitted, synced branch a draft (`api/github-sync.ts:227`).
- Withdraw saves without a condition (`api/branch-withdraw.ts:71`): it takes a branch back
  to editing that the poll has archived since its guard read.
- `pollMergeState` records `merged` for the pull request it had read, also when a newer one
  has been recorded meanwhile (`worker/rebase.ts:147`); `closed` stays on a new one until
  the next poll.
- The worker may finish a submit before the API has saved it; its outcome is then taken for an
  older submit's, and `branch.json` stays at `pending-sync` (`worker/task-runner.ts:623`).
- A submit that is tried again between a withdrawal's queueing and its save is not
  superseded yet: its run makes the pull request ready that the withdrawal's own task has
  just drafted (`worker/task-runner.ts:617`).
- A submit's save puts back the pull request number it read (`api/branch-status.ts:260`).
- A quarantine looks before it takes the provisioning lock. If a create replaces the residue in
  between, the live tree is moved aside; a save inside `branch.json`'s lock then finds
  nothing, its recursive `mkdir` makes the directory, the move back fails, and the sweep
  trashes the branch (`branch-provisioning.ts:299`).
- A delete's release removes its marker by path: after a recreation that is another
  holder's. A save past its existence check before a delete can write into the
  recreated branch (`branch-metadata.ts:163`). When a delete's rename fails, a save
  that waited writes defaults over the deleted branch.
- A delete checks the workflow status before it waits for the lock, and not inside it
  (`api/branch.ts:861`).
- The writer let in by a lost content-write lock is told to retry only if its own lock was
  compromised as well and its timer has noticed (`worker/rebase.ts:1515`).
- `content-store.ts:719` accepts that two processes create one slug at once; the content-write
  lock, which every caller of `write` takes, excludes it while no live marker is taken over.
- A `branch.json` that one scan could not read is missing from a snapshot that every host then
  trusts, until the next change or a forced refresh (`branch-registry.ts:311`).
- Two collections of one name side by side may each have a landing page, and entries of one slug,
  at one URL; `url-collision.ts:204` leaves it to the build's check.
- A deployment that queues its work has no GitHub to ask, so an admin may mark a branch as merged
  whose pull request is still open: it is archived with `prState` merged
  (`api/branch-merge.ts:52`).
- A rename that is killed between its link and its unlink leaves two files of one id. A save
  whose index is from before goes into the file it addressed, and the repair may later archive
  that one (`api/admin-branch-health.ts:641`).
- A reference resolved at a location the index remembers may give the entry that has
  come there since (`content-store.ts:2159`).
- A crash between the two steps of `requeueFailedTask` leaves a failed task and its
  copy, which can be requeued again (`task-queue/task-queue.ts:350`).
- A marker that outlives its episode (`history-rewrite.ts:111`) is a known limitation there. A
  push that landed and whose stamp was lost to a crash, with a direct push on top, ends in
  `sync-failed`.

## What is proved

For any number of tasks, branches, processes, requests and failures:

| Theorem | Module | Argument |
|---|---|---|
| `TypeCorrect`, `NoTaskIsLost`, `FinishedTasksDoNotRun`, `RetriesAreBounded`, `RecordsFollowTheQueue` | `TaskRunnerProofs` | `SafetyInv` |
| `QueueImplementsLedger` | `TaskRunnerProofs` | each step is a ledger step or a stutter of `Status`, under `SafetyInv` |
| `RegistryTypeCorrect`, `SnapshotsAreFresh`, `ListingsAreFresh`, `EagerScansSeeChanges` | `BranchRegistryProofs` | `FreshnessInv` |
| `TypeCorrect`, `SavesAreKept`, `NoExitLeavesARebase` | `ContentSyncProofs` | `SyncInv` |
| `TypeCorrect`, `PushesDeleteNothing`, `WorkSurvives` | `HistorySyncProofs` | `KeptInv` |
| `TypeCorrect`, `UpdatesAreKept`, `PublishedWhole`, `QuarantineSparesBranches` | `BranchDirectoryProofs` | `DirectoryInv` |
| `DirectoryImplementsRecord` | `BranchDirectoryProofs` | each step is a record step or a stutter of `Record`, under `DirectoryInv` |
| `TypeCorrect`, `OwedSubmitsAreTold`, `DraftsStayDrafts`, `LatestSubmitsStand` | `SubmitLifecycleProofs` | `ReviewInv` |
| `TypeCorrect`, `WorkersHaveTheLease` | `WorkerLeaseProofs` | `LeaseInv` and `QuietInv` |
| `LastStopsAreTold`, `UndisturbedStopsAreTold` | `WorkerLeaseProofs` | `StopInv`, `NotingInv` and `OrderInv` |
| `TypeCorrect`, `SavesKeepStanding`, `UrlHasOneFile`, `SavesStayHome` | `ContentStoreProofs` | `StoreInv` |
| `StoreImplementsEntries` | `ContentStoreProofs` | each step is an entry step or a stutter of what the slugs show, under `StoreInv` and `RepairInv` |

`SafetyInv` (`TaskRunner`): while the worker owns a processing file the file is there
(`HandInv`); what it is about to unlink has its successor on disk (`SuccessorInv`, from
which no task is lost); every trace is of a queued task (`UsedInv`); and `BudgetInv`: each
readable copy carries a `retryCount` that, with the disruptions so far, accounts for every
attempt started, plus one while an attempt is under way. The retry limit alone is not
inductive, because recovery may put an older copy back over a newer one; each time it
does, a disruption has paid for it.

`FreshnessInv` (`BranchRegistry`): whatever holds the marker's present value (the
snapshot, a scan past `ReadToken`, a probe) has read, or will read, nothing older than the
revisions at that bump, where it did not fail to read; and what a request waits for has read
nothing older than its floor. That floor is what was announced when it asked, or when `get`
forced its refresh, and nothing for one that joined a scan. The three theorems say so of what is
shown: that a branch is shown at all is no safety property of this code, and `SnapshotHeals` has
what remains of it.

`SyncInv` (`ContentSyncProofs`): while no live marker is taken over, whoever is inside the
lock has its own marker there (`LockInv`); the tree stays clean past the dirty check
(`CleanInv`); a rebase that was not left behind is the worker's present one and aborting it
loses nothing (`RebaseInv`); and a rebase is left behind only by a mishap (`WedgeInv`).
`SavesSurvive` alone is not inductive: an abort reverts what is in the tree, and only these
say when nothing is.

`KeptInv` (`HistorySyncProofs`): the commit a marker names has been replaced, with all its
patches, in `remote.git` and the clone (`MarkerInv`); what the sync loop compares or
publishes is there, and what it holds in `cycle` is still what it read (`CycleInv`: nothing
but the cycle itself moves the clone, and `remote.git` moves by checked fast-forwards); and
what a push sends holds every patch of the commit its lease names (`OutgoingInv`). Neither
action property is a matter of one step: a force push deletes nothing only because of
what either loop read several steps earlier.

`DirectoryInv` (`BranchDirectoryProofs`): no two trees share the path, and a mover that acts
on it has the provisioning lock (`NameInv`); trees under construction are their creator's
(`BuildInv`). While `intact` holds (`QuietInv`), whoever is inside `branch.json`'s lock stands
in the tree where it took it, alone (`LockInv`); what a save loaded is still there when it
renames (`SaveInv`); no save waits at residue (`WaitInv`), and a quarantine's name is free
while it judges (`HandInv`). The refinement needs all of it: a save is one step of the
record only if its tree is still the branch.

`ReviewInv` (`SubmitLifecycleProofs`): nothing is newer than the newest stamp (`AgeInv`);
while nobody raced, `branch.json` has the newest submit or the request that queued it is
about to save it, and such a submit is still queued or running (`SaveInv`); while a conversion
to draft stands for a withdrawal nothing has followed, the branch is out of review or about
to be (`DraftInv`); so the submit a run pushes is the newest, and one passed over is not the
one in review (`RunInv`); and a run is done with a submit only once it is shown, or its commits
were found merged (`PublishInv`). Each of the three properties needs the others' parts. The
proof showed what the small instance could not, that a run which starts between a
withdrawal's queueing and its save belongs under `raced`: it takes two failures.

`LeaseInv` and `QuietInv` (`WorkerLeaseProofs`): who is engaged in a start or in work has the
marker and its heartbeat, unless robbed or given up on; a start that asks for the lock has
none, and after a drain nothing is in flight but what it has cut. The second is what lets
the release of a marker, in its many places, keep the first.

`StopInv` (`WorkerLeaseProofs`): a worker that has the marker again after it was robbed is one
that records just that (`HoldInv`); one that has not had the lock has written nothing and
nothing tells of it (`BeginInv`, `UnheardInv`). And, as long as every write was its lease's
(`ToldInv`), whoever may still write in order is the last to have begun, or follows that one
and has what it must report of it in its report (`RecordInv`), and a file's writer that a
later one has replaced is known to none (`NoReturn`): this is what makes recordLockLoss's
comparison with the writer it remembers (`was`) safe, however late it comes. The last two
need each other and both need the first three: that the comparison is with a name, not with
the file's content, is sound only because no start writes twice after another's.
`UndisturbedStopsAreTold` says that the hypothesis of `LastStopIsTold`, `orderly`, fails for no
other reason than a worker that was robbed of its lease or a drain that gave work up
(`NotingInv`, `OrderInv`).

`StoreInv` (`ContentStoreProofs`): until two have crossed, whoever is inside the marker is
there alone or has entry keys of its own (`Base`, `Locks`). What a request found and what it
judged of it still holds when it acts (`FoundStays`, `JudgmentStays` in `RequestInv`), for an
entry's key is its id, which every other request that could move or remove the file must hold,
and a new one's is its place; an id that no file has yet is its request's alone
(`FreshId`). A saved content stands or was retired (`ContentStands`). From these, `SlugInv`
and `UrlInv` are kept by the only two steps that make a file, `Put` and `Link`. That a
URL which is not `Contested` is free rests on `RivalsArePageAndEntry`: in collections alone at their
paths two places of one URL are a landing page and the entry of its collection's name, and there
is one child collection to look into (`ChildIsOne`). The proof
takes the steps by their `Effect` on one file and shows for each that no other
request's `Covered` files are among it. None of the three properties is inductive without
the judgments: a save may write because of a check made several steps before.

The refinement of `EntryStore` adds what a repair has scanned (`RepairInv`): each file it is
still to archive is there, and so is one of the same id that it keeps, for nobody else is
inside with it. With `StoreInv`, which says that a slug has one file, each file step changes
what one slug shows (`SetsShow`), and the judgments make that change the one that `EntryStore`
allows. `SavesStayHome` follows from the same invariant and is stated for the files, [F1]'s own
terms.

The theorems rest on the named `ASSUME`s of the modules: sentinel values differ from the
values they stand beside, bounds are natural numbers, users are finitely many, and a collection's
path is its name under its parent's (`PathAssumption`; names need not be distinct).

Only model-checked: the liveness properties (`EveryTaskSettles`, `SnapshotHeals`,
`WedgeHeals`, `RewriteIsPublished`, `DirectPushesReachClone`, `NothingIsLeftBehind`,
`PendingEnds`, `OverlapEnds`, `QueueIsServed`), since TLAPS does not do liveness under fairness or
ENABLED. Every safety invariant, action property and refinement that a run checks is a
theorem. The inductive invariants were model-checked before they were proved.
`NoTaskIsLost` and `SavesStayHome` are theorems alone: `ImplementsLedger` and
`ImplementsEntryStore`, which the runs check, say as much of tasks and of slugs.
`RECURSIVE` operators and induction over data are not used.

## What the models leave out

- File reads and writes are coherent; the staleness of NFS attribute caches appears only
  as takeover of a live lock (`src/docs/concurrency.md`, window E).
- In every module but `WorkerLease`, one worker at a time: what two do to the queue during the
  overlap that `OverlapEnds` bounds is not modelled.
- In `WorkerLease`: clocks are the staleness they show, a refused start is the same one again, the
  two loops and the startup are one operation, reads of the status file succeed, and the wait
  for the gateway, credentials and the lifecycle hook are left out. That two contenders may
  judge one stale marker and the slower remove the faster one's is part of `Rob`.
- `moveToCorrupt` failing both its rename and its unlink; tasks with equal timestamps.
- In `TaskRunner`: what an attempt does (`HistorySync` and `SubmitLifecycle` have it).
- In `ContentSync`: how the history changes (`HistorySync`), the schema cache's files, the
  branch provisioning lock around the cycle. Withdraw stands for request changes as well,
  and approved for submitted. Each save edits an entry of its own: two saves of one entry
  are `ContentStore`'s.
- A save admitted while a branch is editing can land after the submit's status write;
  the code promises nothing of it, and it joins the next submit.
- In `HistorySync`: the wait on a moving base (`baseHold`), the gateway's refusals, submodules
  and state files as reasons to refuse a merge, request changes, merged and deleted
  branches, branches that `remote.git` lacks and GitHub has, stale mirrors, a branch's rename,
  the Update-branch button, and a lost content lock. The two kinds of task that push are
  one. How a conflict is resolved does not show: both sides' patches are in the merge.
- In `BranchDirectory`: the in-process mutex (requests of one process interleave like those of
  two), NFS retransmissions of `link` and `rename`, repair, purge, adoption of a clone in
  place, corrupt and foreign directories, the base branch's own path. The removal of a deleted
  tree is one with its rename.
- In `ContentStore`: the index's generation marker and a request's own updates of its index,
  reads and references, entry types, order files and collections, saves that ask for no version
  check, a container's cached directory listings. What `findUrlPathClaimant` counts as an
  entry or a collection is taken to be what the listing shows (`url-collision.ts:111` tells of
  the cases where it counts more). The tree of collections does not change. Two writes of one
  file have two mtimes.
- In `SubmitLifecycle`: the direct path through `GitHubService`, permissions, verdicts and
  comments, tasks that only push, close or delete, dismissals, and people who ready a draft or
  reopen a pull request. Clocks of different hosts agree, and a submit is stamped and
  queued in one step.

### Not modelled

- Schema cache, comment store and asset finalization are planned.
- Configuration, path and schema handling, references, the static build, the AI export, the
  editor's components, adapters, the CLI and the CDK constructs are most of the repository's
  lines; they are functions of their inputs, renderings or infrastructure declarations,
  and have no protocol state for TLC to explore.

## Plan

Done: task queue and worker loop; registry; content sync; history sync; the branch's
directory and record; the submit lifecycle; the worker's lease; the content store.

1. Two workers over `TaskRunner`'s queue during an overlap.
2. Delete against submit: the status check before the lock, composed from `BranchDirectory`
   and `SubmitLifecycle`.
3. The schema cache's generation marker; the comment store; asset finalize; the resolution
   of references by id.
4. Pure algorithms (conflict records, merges of metadata fields) against definitions.

Each gets a run with its safety and liveness properties, a proof of its type invariant and
its main safety property, and a refinement where an abstract specification is named. Runs
that ask the same question of one module are merged as the project grows.
