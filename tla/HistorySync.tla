----------------------------- MODULE HistorySync -----------------------------
(* One published branch in its three repositories, and what the worker does  *)
(* to carry the editors' clone to GitHub and GitHub's commits to the clone   *)
(* [SYNC-H1]: worker/git-sync.ts, github-commits.ts, branch-merge.ts,        *)
(* rebase.ts, history-rewrite.ts, and the push tasks of task-runner.ts with  *)
(* the gateway's push (github-gateway.ts, github-mirror.ts).                 *)
(*                                                                           *)
(* A tip is the set of commits it contains, so that one commit contains      *)
(* another when its set does.  A commit is a patch with the base it was      *)
(* rebased onto (0 where it was first made), a commit of the base branch, or *)
(* a merge.  How a rebase stops, resumes and is recovered, and the content   *)
(* lock itself, are ContentSync's; how a task is claimed and retried is      *)
(* TaskRunner's.                                                             *)
EXTENDS Naturals, FiniteSets

CONSTANTS
  Edit,          \* what editors save
  Direct,        \* what people push to the branch on GitHub
  Base, Merge,   \* tags of the base branch's commits and of merges
  MaxBase,       \* commits the base branch gains
  MaxMerges,     \* merges the worker makes
  MaxSubmits,    \* submits
  MaxMishaps     \* crashes, I/O failures, and rewinds of GitHub's branch

Patch == Edit \union Direct
Commit == (Patch \X (0 .. MaxBase)) \union ({Base} \X (1 .. MaxBase))
            \union ({Merge} \X (1 .. MaxMerges))
Tip == SUBSET Commit
NoTip == {<<Base, 0>>}   \* the ref is not there, the field is not set
TipOrNone == Tip \union {NoTip}

ASSUME TagAssumption ==
  /\ Edit \intersect Direct = {}
  /\ Base \notin Patch /\ Merge \notin Patch /\ Base # Merge

ASSUME BoundAssumption ==
  /\ MaxBase \in Nat /\ MaxMerges \in Nat
  /\ MaxSubmits \in Nat /\ MaxMishaps \in Nat

VARIABLES
  \* the repositories
  gitHub, remote, head,   \* the branch on GitHub, in remote.git, in the clone
  base,                   \* the base branch's tip in remote.git
  dirty,                  \* edits in the clone's tree, uncommitted
  \* branch.json
  status,
  marker,                 \* historyRewrittenFrom
  lastTip,                \* lastGitHubTip
  rewritten,              \* rewrittenOnGitHub is set
  stamped,                \* pushedToGitHubAt: never, before or since the fetch
  failed,                 \* syncStatus is sync-failed
  \* the worker's loops
  queued,                 \* a push task is pending
  stage, cycle,           \* the sync loop: its place, and what it has read
  pushing, outgoing,      \* the task loop: its place, and what it has read
  \* for the bounds and the properties
  submits, mishaps,
  earlier,                \* GitHub's branch before the last direct push
  fate                    \* what became of each direct push

repoVars == <<gitHub, remote, head, base, dirty>>
metaVars == <<status, marker, lastTip, rewritten, stamped, failed>>
syncVars == <<stage, cycle>>
pushVars == <<pushing, outgoing>>
boundVars == <<submits, mishaps>>
auxVars == <<earlier, fate>>
vars == <<repoVars, metaVars, queued, syncVars, pushVars, boundVars, auxVars>>

Unlocked == {"idle", "fetched", "seen", "reconciled", "loaded"}
Locked == {"catchingUp", "advancing", "recording", "inStep",
           "inReview", "settled", "rebased", "marked", "toQueue", "merging",
           "mergeSeen", "mergePublished", "mergeQueued"}
PushStages == {"idle", "named", "sized", "ready", "retrying",
               "landed", "cleared"}

(* What a cycle holds on to: GitHub's tip as fetched, branch.json as loaded, *)
(* remote.git's ref as compared, the merge in hand and the exits' flags.     *)
Cycle ==
  [gitHub : TipOrNone, status : {"editing", "submitted"}, marker : TipOrNone,
   lastTip : TipOrNone, rewritten : BOOLEAN, published : BOOLEAN,
   failed : BOOLEAN, from : TipOrNone, resolved : BOOLEAN,
   unpushed : BOOLEAN, merge : TipOrNone, other : Tip, fromGitHub : BOOLEAN,
   next : {"idle", "settled"}]
Outgoing == [marker : TipOrNone, sha : TipOrNone, seen : TipOrNone,
             clears : BOOLEAN]

NoCycle ==
  [gitHub |-> NoTip, status |-> "editing", marker |-> NoTip, lastTip |-> NoTip,
   rewritten |-> FALSE, published |-> FALSE, failed |-> FALSE, from |-> NoTip,
   resolved |-> FALSE, unpushed |-> FALSE, merge |-> NoTip, other |-> {},
   fromGitHub |-> FALSE, next |-> "idle"]
NoOutgoing ==
  [marker |-> NoTip, sha |-> NoTip, seen |-> NoTip, clears |-> FALSE]

(* The branch has just been created: its clone stands on the base.           *)
Init ==
  /\ gitHub = NoTip /\ remote = NoTip /\ head = {} /\ base = 0 /\ dirty = {}
  /\ status = "editing" /\ marker = NoTip /\ lastTip = NoTip
  /\ rewritten = FALSE /\ stamped = "never" /\ failed = FALSE
  /\ queued = FALSE
  /\ stage = "idle" /\ cycle = NoCycle
  /\ pushing = "idle" /\ outgoing = NoOutgoing
  /\ submits = 0 /\ mishaps = 0
  /\ earlier = NoTip /\ fate = [d \in Direct |-> "unmade"]

(* A worker or a request dies, a step fails, or GitHub's branch is rewound. *)
Mishap == mishaps < MaxMishaps /\ mishaps' = mishaps + 1 /\ UNCHANGED submits

-----------------------------------------------------------------------------
(* Commits.                                                                  *)

Contains(tip, other) == tip # NoTip /\ other # NoTip /\ other \subseteq tip
Patches(tip) == IF tip = NoTip THEN {} ELSE {c[1] : c \in tip} \intersect Patch
BaseTip(n) == {Base} \X (1 .. n)

(* A fault TypeOK excludes: the rebase goes onto a commit base has not got.  *)
RebasedPastBase(tip, n) == BaseTip(n + 1) \union (Patches(tip) \X {n + 1})

(* git rebase: every patch of the branch is made anew on the base.           *)
Rebased(tip, n) == BaseTip(n) \union (Patches(tip) \X {n})

(* git rebase would drop a merge, and what it settled.                       *)
HasMerges(tip) == \E c \in tip : c[1] = Merge

-----------------------------------------------------------------------------
(* People on GitHub.                                                         *)

(* A direct push: not yet made, made, seen by this deployment, and of those  *)
(* the ones that were taken off GitHub unseen and after they were seen.      *)
Fate == {"unmade", "made", "seen", "dropped", "removed"}
See(tip) ==
  fate' = [d \in Direct |-> IF fate[d] = "made" /\ d \in Patches(tip)
                              THEN "seen" ELSE fate[d]]

PushDirect(d) ==
  /\ gitHub # NoTip /\ fate[d] = "unmade"
  /\ gitHub' = gitHub \union {<<d, 0>>} /\ earlier' = gitHub
  /\ fate' = [fate EXCEPT ![d] = "made"]
  /\ UNCHANGED <<remote, head, base, dirty, metaVars, queued, syncVars>>
  /\ UNCHANGED <<pushVars, boundVars>>

(* A force push back to where the branch stood before the last of them. *)
Rewind ==
  /\ Mishap
  /\ gitHub # earlier /\ Contains(gitHub, earlier)
  /\ gitHub' = earlier
  /\ fate' = [d \in Direct |->
                CASE d \notin Patches(gitHub) \ Patches(earlier) -> fate[d]
                  [] fate[d] = "seen" -> "removed"
                  [] OTHER -> "dropped"]
  /\ UNCHANGED <<remote, head, base, dirty, metaVars, queued, syncVars>>
  /\ UNCHANGED <<pushVars, earlier>>

BaseAdvances ==
  /\ base < MaxBase /\ base' = base + 1
  /\ UNCHANGED <<gitHub, remote, head, dirty, metaVars, queued, syncVars>>
  /\ UNCHANGED <<pushVars, boundVars, auxVars>>

-----------------------------------------------------------------------------
(* The API.                                                                  *)

Elsewhere == <<syncVars, pushVars, boundVars, auxVars>>

Save(e) ==
  /\ status = "editing" /\ stage \in Unlocked
  /\ e \notin dirty \union Patches(head)
  /\ dirty' = dirty \union {e}
  /\ UNCHANGED <<gitHub, remote, head, base, metaVars, queued, Elsewhere>>

(* submitBranch commits, and pushes what remote.git lacks, without force.    *)
(* Then the handler queues the push to GitHub and records the submit, unless *)
(* its container dies first.  A branch that changes nothing is refused, but  *)
(* not when its changes cannot be listed.                                    *)
SubmitCommit == head \union (dirty \X {0})

MaySubmit ==
  status = "editing" /\ ~rewritten /\ stage \in Unlocked

RecordSubmitted == status' = "submitted" /\ failed' = FALSE /\ queued' = TRUE

Submit ==
  /\ MaySubmit
  /\ \/ remote = NoTip \/ Contains(SubmitCommit, remote)
     \/ dirty = {} /\ Contains(remote, head)
  /\ head' = SubmitCommit /\ dirty' = {}
  /\ remote' = IF Contains(remote, SubmitCommit) THEN remote ELSE SubmitCommit
  /\ \/ /\ Patches(SubmitCommit) # {} /\ RecordSubmitted
        /\ submits < MaxSubmits /\ submits' = submits + 1 /\ UNCHANGED mishaps
     \/ Patches(SubmitCommit) = {} /\ RecordSubmitted /\ Mishap
     \/ /\ Patches(SubmitCommit) # {} /\ Mishap
        /\ UNCHANGED <<status, failed, queued>>
  /\ UNCHANGED <<gitHub, base, marker, lastTip, rewritten, stamped>>
  /\ UNCHANGED <<syncVars, pushVars, auxVars>>

(* remote.git holds commits that the clone lacks: the commit stays.          *)
SubmitRefused ==
  /\ MaySubmit /\ Patches(SubmitCommit) # {}
  /\ remote # NoTip /\ ~Contains(SubmitCommit, remote)
  /\ dirty # {} \/ ~Contains(remote, head)
  /\ head' = SubmitCommit /\ dirty' = {}
  /\ UNCHANGED <<gitHub, remote, base, metaVars, queued, Elsewhere>>

(* Withdraw and request changes. *)
Withdraw ==
  /\ status = "submitted" /\ status' = "editing"
  /\ UNCHANGED <<repoVars, marker, lastTip, rewritten, stamped, failed>>
  /\ UNCHANGED <<queued, Elsewhere>>

-----------------------------------------------------------------------------
(* The sync loop, one cycle for this branch.                                 *)

Go(to) == stage' = to
Done == stage' = "idle" /\ cycle' = NoCycle
Apart == <<pushVars, boundVars, auxVars>>

Fetch ==
  /\ stage = "idle" /\ Go("fetched")
  /\ cycle' = [NoCycle EXCEPT !.gitHub = gitHub]
  /\ stamped' = IF stamped = "since" THEN "before" ELSE stamped
  /\ See(gitHub)
  /\ UNCHANGED <<repoVars, status, marker, lastTip, rewritten, failed, queued>>
  /\ UNCHANGED <<pushVars, boundVars, earlier>>

(* reconcileTrackedBranches: a head behind GitHub is about to be moved there *)
(* and that is recorded first; one ahead, rewritten or diverged is left.     *)
Behind == Contains(cycle.gitHub, remote) /\ remote # cycle.gitHub

RecordSeen ==
  /\ stage = "fetched" /\ Behind /\ Go("seen")
  /\ lastTip' = cycle.gitHub
  /\ cycle' = [cycle EXCEPT !.from = remote]
  /\ UNCHANGED <<repoVars, status, marker, rewritten, stamped, failed, queued>>
  /\ UNCHANGED Apart

LeaveHead ==
  /\ stage = "fetched" /\ ~Behind /\ Go("reconciled")
  /\ UNCHANGED <<repoVars, metaVars, queued, cycle, Apart>>

(* git update-ref, from the value that was compared; a failure is logged, and *)
(* the cycle goes on.                                                        *)
FastForwardRemote ==
  /\ stage = "seen" /\ Go("reconciled")
  /\ \/ /\ remote' = IF remote = cycle.from THEN cycle.gitHub ELSE remote
        /\ UNCHANGED boundVars
     \/ Mishap /\ UNCHANGED remote
  /\ cycle' = [cycle EXCEPT !.from = NoTip]
  /\ UNCHANGED <<gitHub, head, base, dirty, metaVars, queued, pushVars, auxVars>>

(* branch.json is read before the content lock is taken; from the next step  *)
(* on, which compares, the lock is held.                                     *)
LoadMeta ==
  /\ stage = "reconciled" /\ Go("loaded")
  /\ cycle' = [cycle EXCEPT !.status = status, !.marker = marker,
                 !.lastTip = lastTip, !.rewritten = rewritten,
                 !.published = (stamped # "never"), !.failed = failed]
  /\ UNCHANGED <<repoVars, metaVars, queued, Apart>>

-----------------------------------------------------------------------------
(* bringInGitHubCommits.                                                     *)

Tracked == IF cycle.gitHub # NoTip THEN cycle.gitHub ELSE remote
InStep == remote = NoTip \/ remote = head

(* bringInGitHubCommits returns, and the rest of the cycle goes on with what *)
(* it still needs.                                                           *)
BroughtIn(unpushed) ==
  /\ Go(IF cycle.status = "editing" THEN "inStep" ELSE "inReview")
  /\ cycle' = [NoCycle EXCEPT !.gitHub = cycle.gitHub, !.marker = cycle.marker,
                              !.unpushed = unpushed]

(* rewrittenFrom: GitHub's tip holds neither all that is here nor any of the *)
(* tips it is known to have had.                                             *)
Unrecorded ==
  IF /\ cycle.lastTip = NoTip /\ remote # NoTip /\ remote # head
     /\ Contains(remote, head) /\ ~Contains(remote, cycle.gitHub)
    THEN remote ELSE NoTip
KnownTips ==
  {cycle.marker, IF cycle.lastTip # NoTip THEN cycle.lastTip ELSE Unrecorded}
    \ {NoTip}
RewrittenFrom ==
  /\ KnownTips # {}
  /\ ~(Contains(cycle.gitHub, head)
         /\ (remote = NoTip \/ Contains(cycle.gitHub, remote)))
  /\ \A tip \in KnownTips : ~Contains(cycle.gitHub, tip)

(* recordGitHubTip, unless a push has stamped the branch meanwhile.  The     *)
(* failure that a rewrite left on the branch goes with its flag.             *)
RewriteCleared ==
  /\ rewritten' = FALSE
  /\ failed' \in IF rewritten THEN {failed, FALSE} ELSE {failed}
RecordGitHubTip(tip) ==
  IF cycle.gitHub # tip \/ (cycle.lastTip = tip /\ ~cycle.rewritten)
    THEN UNCHANGED <<lastTip, rewritten, failed>>
    ELSE /\ lastTip' = IF lastTip = cycle.lastTip THEN tip ELSE lastTip
         /\ RewriteCleared

(* A branch in review that GitHub did not have is left alone. *)
SkipReview ==
  /\ stage = "loaded" /\ cycle.status = "submitted" /\ cycle.gitHub = NoTip
  /\ Done
  /\ UNCHANGED <<repoVars, metaVars, queued, Apart>>

Comparing ==
  /\ stage = "loaded"
  /\ cycle.status = "editing" \/ cycle.gitHub # NoTip

NothingToBringIn ==
  /\ Comparing
  /\ \/ ~cycle.published \/ Tracked = NoTip
     \/ Tracked = head /\ InStep
  /\ BroughtIn(FALSE)
  /\ IF cycle.published /\ Tracked # NoTip
       THEN RecordGitHubTip(Tracked)
       ELSE UNCHANGED <<lastTip, rewritten, failed>>
  /\ UNCHANGED <<repoVars, status, marker, stamped, queued, Apart>>

MustCompare ==
  /\ Comparing /\ cycle.published /\ Tracked # NoTip
  /\ ~(Tracked = head /\ InStep)

(* A push of ours since the fetch explains the difference. *)
WaitForFetch ==
  /\ MustCompare /\ cycle.gitHub # NoTip /\ RewrittenFrom
  /\ stamped = "since"
  /\ Done
  /\ UNCHANGED <<repoVars, metaVars, queued, Apart>>

BlockAsRewritten ==
  /\ MustCompare /\ cycle.gitHub # NoTip /\ RewrittenFrom
  /\ stamped # "since"
  /\ rewritten' = TRUE
  /\ Done
  /\ UNCHANGED <<repoVars, status, marker, lastTip, stamped, failed, queued>>
  /\ UNCHANGED Apart

Compare ==
  /\ MustCompare
  /\ cycle.gitHub = NoTip \/ ~RewrittenFrom
  /\ IF cycle.rewritten THEN RewriteCleared ELSE UNCHANGED <<rewritten, failed>>
  /\ cycle' = [cycle EXCEPT !.resolved =
                 cycle.rewritten /\ cycle.gitHub # NoTip]
  /\ Go("catchingUp")
  /\ UNCHANGED <<repoVars, status, marker, lastTip, stamped, queued, Apart>>

(* A fault WorkIsKept excludes: the clone is reset to remote.git. *)
CatchUpByReset ==
  /\ stage = "catchingUp" /\ Go("advancing")
  /\ head' = IF remote = NoTip THEN head ELSE remote
  /\ UNCHANGED <<gitHub, remote, base, dirty, metaVars, queued, cycle, Apart>>

(* The clone fast-forwards to remote.git.  Local changes may overlap. *)
CatchUp ==
  /\ stage = "catchingUp"
  /\ \/ /\ Go("advancing") /\ UNCHANGED cycle
        /\ head' = IF Contains(remote, head) THEN remote ELSE head
     \/ /\ Contains(remote, head) /\ remote # head /\ dirty # {}
        /\ Done /\ UNCHANGED head
  /\ UNCHANGED <<gitHub, remote, base, dirty, metaVars, queued, Apart>>

(* The rest of GitHub's commits waits for the reconcile that failed. *)
Advance ==
  /\ stage = "advancing" /\ Contains(Tracked, head)
  /\ IF Tracked = head THEN Go("recording") /\ UNCHANGED cycle ELSE Done
  /\ UNCHANGED <<repoVars, metaVars, queued, Apart>>

CloneIsAhead ==
  /\ stage = "advancing" /\ Tracked # head /\ Contains(head, Tracked)
  /\ Go("recording")
  /\ UNCHANGED <<repoVars, metaVars, queued, cycle, Apart>>

Diverged ==
  /\ stage = "advancing"
  /\ ~Contains(Tracked, head) /\ ~Contains(head, Tracked)

(* enqueueGitHubPush: a push-branch task pending or running is enough, and   *)
(* the one running may be a submit's.                                        *)
EnqueueGitHubPush ==
  queued' \in IF pushing = "idle" THEN {TRUE} ELSE {queued, TRUE}

(* A fault DirectPushesReachClone excludes: any divergence under a marker is *)
(* taken for the rewrite whose push is on the way.                           *)
AwaitUnderAnyMarker ==
  /\ Diverged /\ cycle.marker # NoTip
  /\ BroughtIn(FALSE)
  /\ UNCHANGED <<repoVars, metaVars, queued, Apart>>

(* GitHub is at the commit our own rebase replaced. *)
AwaitOwnPush ==
  /\ Diverged /\ cycle.marker = Tracked
  /\ IF cycle.resolved THEN EnqueueGitHubPush ELSE UNCHANGED queued
  /\ BroughtIn(FALSE)
  /\ UNCHANGED <<repoVars, metaVars, Apart>>

DirtyWaits ==
  /\ Diverged /\ cycle.marker # Tracked /\ dirty # {}
  /\ Done
  /\ UNCHANGED <<repoVars, metaVars, queued, Apart>>

(* buildMergeCommit.  A merge that lacks what remote.git holds, or that git  *)
(* cannot make by rule, is refused and recorded.                             *)
Made == UNION ({head, remote, gitHub, lastTip} \ {NoTip})
BuildMerge(other, fromGitHub) ==
  \/ \E k \in 1 .. MaxMerges :
       /\ \A j \in 1 .. k : <<Merge, j>> \in Made <=> j < k
       /\ LET merge == head \union other \union {<<Merge, k>>}
          IN IF remote = NoTip \/ Contains(merge, remote)
               THEN /\ Go("merging")
                    /\ cycle' = [NoCycle EXCEPT !.merge = merge,
                                   !.other = other, !.fromGitHub = fromGitHub,
                                   !.gitHub = cycle.gitHub,
                                   !.lastTip = cycle.lastTip,
                                   !.rewritten = cycle.rewritten]
               ELSE Done
     /\ UNCHANGED boundVars
  \/ Mishap /\ Done

MergeGitHub ==
  /\ Diverged /\ cycle.marker # Tracked /\ dirty = {}
  /\ BuildMerge(Tracked, TRUE)
  /\ UNCHANGED <<repoVars, metaVars, queued, pushVars, auxVars>>

(* What a merge took from GitHub is recorded before remote.git holds it. *)
RecordMerged ==
  /\ stage = "merging" /\ Go("mergeSeen")
  /\ lastTip' = IF cycle.fromGitHub THEN cycle.other ELSE lastTip
  /\ UNCHANGED <<repoVars, status, marker, rewritten, stamped, failed, queued>>
  /\ UNCHANGED <<cycle, Apart>>

PublishMerge ==
  /\ stage = "mergeSeen"
  /\ IF remote = NoTip
       THEN Go("mergeQueued") /\ UNCHANGED remote
       ELSE Go("mergePublished") /\ remote' = cycle.merge
  /\ UNCHANGED <<gitHub, head, base, dirty, metaVars, queued, cycle, Apart>>

QueueMerge ==
  /\ stage = "mergePublished" /\ Go("mergeQueued")
  /\ EnqueueGitHubPush
  /\ UNCHANGED <<repoVars, metaVars, cycle, Apart>>

MoveClone ==
  /\ stage = "mergeQueued" /\ Done
  /\ head' = cycle.merge
  /\ IF cycle.fromGitHub
       THEN RecordGitHubTip(cycle.other)
       ELSE UNCHANGED <<lastTip, rewritten, failed>>
  /\ UNCHANGED <<gitHub, remote, base, dirty, status, marker, stamped, queued>>
  /\ UNCHANGED Apart

(* GitHub lacks what remote.git holds: a push is queued, and nothing is      *)
(* rebased before it lands, unless the last one failed.                      *)
Record ==
  /\ stage = "recording"
  /\ RecordGitHubTip(Tracked)
  /\ IF cycle.gitHub # NoTip /\ remote # Tracked /\ Contains(remote, Tracked)
       THEN IF cycle.failed /\ ~cycle.resolved
              THEN BroughtIn(TRUE) /\ UNCHANGED queued
              ELSE EnqueueGitHubPush /\ Done
       ELSE BroughtIn(FALSE) /\ UNCHANGED queued
  /\ UNCHANGED <<repoVars, status, marker, stamped, Apart>>

-----------------------------------------------------------------------------
(* The rest of rebaseOneBranch, on a clone that holds GitHub's commits.      *)

(* A fault RewriteIsPublished excludes: nothing completes what a crash cut   *)
(* short.                                                                    *)
NoPendingRewrite ==
  /\ stage = "inStep"
  /\ IF dirty # {} THEN Done ELSE Go("settled") /\ UNCHANGED cycle
  /\ UNCHANGED <<repoVars, metaVars, queued, Apart>>

(* reconcilePendingRewrite, under the marker that was loaded. *)
PendingRewrite ==
  /\ stage = "inStep"
  /\ \/ /\ dirty # {} /\ Done /\ UNCHANGED <<remote, queued>>
     \/ /\ dirty = {} /\ cycle.marker # NoTip /\ remote = head
        /\ EnqueueGitHubPush /\ Go("settled") /\ UNCHANGED <<cycle, remote>>
     \/ /\ dirty = {} /\ cycle.marker # NoTip
        /\ remote # head /\ remote = cycle.marker
        /\ remote' = head
        /\ Go("toQueue") /\ cycle' = [cycle EXCEPT !.next = "settled"]
        /\ UNCHANGED queued
     \/ /\ dirty = {}
        /\ cycle.marker = NoTip \/ (remote # head /\ remote # cycle.marker)
        /\ Go("settled") /\ UNCHANGED <<cycle, remote, queued>>
  /\ UNCHANGED <<gitHub, head, base, dirty, metaVars, Apart>>

UpToDate ==
  /\ stage = "settled" /\ BaseTip(base) \subseteq head
  /\ Done
  /\ UNCHANGED <<repoVars, metaVars, queued, Apart>>

(* A history that cannot be replayed, or that GitHub has not got yet, takes  *)
(* the base in by a merge.                                                   *)
MergeBase ==
  /\ stage = "settled" /\ ~(BaseTip(base) \subseteq head)
  /\ HasMerges(head) \/ cycle.unpushed
  /\ BuildMerge(BaseTip(base), FALSE)
  /\ UNCHANGED <<repoVars, metaVars, queued, pushVars, auxVars>>

Rebase ==
  /\ stage = "settled" /\ ~(BaseTip(base) \subseteq head)
  /\ ~HasMerges(head) /\ ~cycle.unpushed
  /\ head' = Rebased(head, base)
  /\ cycle' = [cycle EXCEPT !.from = head]
  /\ Go("rebased")
  /\ UNCHANGED <<gitHub, remote, base, dirty, metaVars, queued, Apart>>

(* carryForwardRewrittenHistory: what remote.git holds is exactly what was   *)
(* just rebased away, or the rewrite is not published.                       *)
NotPublished ==
  /\ stage = "rebased" /\ remote # cycle.from
  /\ Done
  /\ UNCHANGED <<repoVars, metaVars, queued, Apart>>

(* markHistoryRewritten keeps a marker that is there. *)
MarkHistoryRewritten ==
  /\ stage = "rebased" /\ remote = cycle.from
  /\ marker' = IF marker = NoTip THEN cycle.from ELSE marker
  /\ lastTip' = head
  /\ Go("marked")
  /\ UNCHANGED <<repoVars, status, rewritten, stamped, failed, queued>>
  /\ UNCHANGED <<cycle, Apart>>

(* The push into remote.git, under a lease on what the rebase replaced.      *)
ForcePublish ==
  /\ stage = "marked"
  /\ \/ /\ remote = cycle.from /\ remote' = head
        /\ Go("toQueue") /\ cycle' = [cycle EXCEPT !.next = "idle"]
        /\ UNCHANGED boundVars
     \/ Mishap /\ Done /\ UNCHANGED remote
  /\ UNCHANGED <<gitHub, head, base, dirty, metaVars, queued, pushVars, auxVars>>

QueuePush ==
  /\ stage = "toQueue"
  /\ EnqueueGitHubPush
  /\ IF cycle.next = "idle" THEN Done ELSE Go(cycle.next) /\ UNCHANGED cycle
  /\ UNCHANGED <<repoVars, metaVars, Apart>>

(* A branch in review takes the base in only from a clean state of all three *)
(* repositories, when GitHub asks for it.                                    *)
UpdateInReview ==
  /\ stage = "inReview"
  /\ \/ /\ status = "submitted" /\ ~failed
        /\ head = cycle.gitHub /\ remote = head /\ dirty = {}
        /\ ~(BaseTip(base) \subseteq head)
        /\ BuildMerge(BaseTip(base), FALSE)
     \/ Done /\ UNCHANGED boundVars
  /\ UNCHANGED <<repoVars, metaVars, queued, pushVars, auxVars>>

-----------------------------------------------------------------------------
(* The task loop: pushBranchToGitHub.                                        *)

PushTo(to) == pushing' = to
PushDone == pushing' = "idle" /\ outgoing' = NoOutgoing
Beside == <<repoVars, syncVars, boundVars, auxVars>>

(* The claim and the read of branch.json. *)
Claim ==
  /\ pushing = "idle" /\ queued /\ ~rewritten
  /\ queued' = FALSE /\ PushTo("named")
  /\ outgoing' = [NoOutgoing EXCEPT !.marker = marker]
  /\ UNCHANGED <<metaVars, Beside>>

RewrittenRefusal ==
  /\ pushing = "idle" /\ queued /\ rewritten
  /\ queued' = FALSE /\ failed' = TRUE
  /\ UNCHANGED <<status, marker, lastTip, rewritten, stamped, pushVars, Beside>>

ReadSha ==
  /\ pushing = "named" /\ remote # NoTip
  /\ outgoing' = [outgoing EXCEPT !.sha = remote]
  /\ PushTo("sized")
  /\ UNCHANGED <<metaVars, queued, Beside>>

(* Under a marker the lease stands for this check. *)
ReadSeen ==
  /\ pushing = "sized"
  /\ outgoing' = [outgoing EXCEPT !.seen =
                    IF outgoing.marker = NoTip THEN lastTip ELSE NoTip]
  /\ PushTo("ready")
  /\ UNCHANGED <<metaVars, queued, Beside>>

SeenCommitGone ==
  /\ outgoing.seen # NoTip /\ gitHub # NoTip
  /\ ~Contains(gitHub, outgoing.seen)

FastForwards == gitHub = NoTip \/ Contains(outgoing.sha, gitHub)

(* A fault DirectPushesSurvive excludes: under a marker, --force without its *)
(* lease.                                                                    *)
MayLandByForce == outgoing.marker # NoTip \/ (~SeenCommitGone /\ FastForwards)

(* The gateway's push: under the marker's lease, else pinned to the tip that *)
(* its own fetch saw.                                                        *)
MayLand ==
  IF outgoing.marker # NoTip
    THEN gitHub \in {outgoing.marker, outgoing.sha}
    ELSE ~SeenCommitGone /\ FastForwards

(* The marker goes once GitHub is known to hold something else than the      *)
(* commit that was rewritten.                                                *)
Land(pastLease) ==
  /\ gitHub' = outgoing.sha
  /\ PushTo("landed")
  /\ outgoing' = [NoOutgoing EXCEPT !.sha = outgoing.sha,
                    !.clears = pastLease \/ outgoing.marker \notin {NoTip, outgoing.sha}]
  /\ UNCHANGED <<remote, head, base, dirty, metaVars, queued, syncVars>>
  /\ UNCHANGED <<boundVars, auxVars>>

Push == pushing = "ready" /\ MayLand /\ Land(FALSE)

StaleLease ==
  /\ pushing = "ready" /\ outgoing.marker # NoTip /\ ~MayLand
  /\ PushTo("retrying")
  /\ UNCHANGED <<metaVars, queued, outgoing, Beside>>

(* The one retry past a stale lease: a plain push. *)
PushPastStaleLease == pushing = "retrying" /\ FastForwards /\ Land(TRUE)

(* A refused push is tried again, after the next sync, until it has run out  *)
(* of attempts.                                                              *)
Refused ==
  \/ pushing = "ready" /\ outgoing.marker = NoTip /\ ~MayLand
  \/ pushing = "retrying" /\ ~FastForwards

TryAgain ==
  /\ Refused /\ PushDone
  /\ queued' = TRUE
  /\ UNCHANGED <<metaVars, Beside>>

GiveUp ==
  /\ Refused /\ PushDone
  /\ failed' = TRUE
  /\ UNCHANGED <<status, marker, lastTip, rewritten, stamped, queued, Beside>>

(* A marker that cannot be cleared is left, and the push is recorded.        *)
ClearMarker ==
  /\ pushing = "landed" /\ PushTo("cleared")
  /\ \/ /\ marker' = IF outgoing.clears THEN NoTip ELSE marker
        /\ UNCHANGED boundVars
     \/ outgoing.clears /\ Mishap /\ UNCHANGED marker
  /\ UNCHANGED <<repoVars, status, lastTip, rewritten, stamped, failed, queued>>
  /\ UNCHANGED <<syncVars, outgoing, auxVars>>

(* recordPushedToGitHub, and the task's completion. *)
RecordPushed ==
  /\ pushing = "cleared" /\ PushDone
  /\ stamped' = "since" /\ lastTip' = outgoing.sha
  /\ failed' \in {FALSE, failed}
  /\ See(outgoing.sha)
  /\ UNCHANGED <<repoVars, status, marker, rewritten, queued, syncVars>>
  /\ UNCHANGED <<boundVars, earlier>>

-----------------------------------------------------------------------------
(* The worker dies; the next one finds the task in processing.               *)
Crash ==
  /\ stage # "idle" \/ pushing # "idle"
  /\ Mishap
  /\ Done /\ PushDone
  /\ queued' = (queued \/ pushing # "idle")
  /\ UNCHANGED <<repoVars, metaVars, auxVars>>

People == Rewind \/ BaseAdvances \/ \E d \in Direct : PushDirect(d)
Api == Submit \/ SubmitRefused \/ Withdraw \/ \E e \in Edit : Save(e)
Sync ==
  \/ Fetch \/ RecordSeen \/ LeaveHead \/ FastForwardRemote
  \/ LoadMeta \/ SkipReview \/ NothingToBringIn \/ WaitForFetch \/ BlockAsRewritten
  \/ Compare \/ CatchUp \/ Advance \/ CloneIsAhead
  \/ AwaitOwnPush \/ DirtyWaits \/ MergeGitHub
  \/ RecordMerged \/ PublishMerge \/ QueueMerge \/ MoveClone \/ Record
  \/ PendingRewrite \/ UpToDate \/ MergeBase \/ Rebase
  \/ NotPublished \/ MarkHistoryRewritten \/ ForcePublish \/ QueuePush
  \/ UpdateInReview
Tasks ==
  \/ Claim \/ RewrittenRefusal \/ ReadSha \/ ReadSeen
  \/ Push \/ StaleLease \/ PushPastStaleLease \/ TryAgain \/ GiveUp
  \/ ClearMarker \/ RecordPushed

Next == People \/ Api \/ Sync \/ Tasks \/ Crash

(* scheduleLoop runs both loops again and again, and a task has maxRetries   *)
(* attempts.                                                                 *)
Fairness == WF_vars(Sync) /\ WF_vars(Tasks) /\ SF_vars(GiveUp)

Spec == Init /\ [][Next]_vars
FairSpec == Spec /\ Fairness

-----------------------------------------------------------------------------
TypeOK ==
  /\ gitHub \in TipOrNone /\ remote \in TipOrNone /\ head \in Tip
  /\ base \in 0 .. MaxBase /\ dirty \in SUBSET Edit
  /\ status \in {"editing", "submitted"}
  /\ marker \in TipOrNone /\ lastTip \in TipOrNone
  /\ rewritten \in BOOLEAN /\ stamped \in {"never", "before", "since"}
  /\ failed \in BOOLEAN /\ queued \in BOOLEAN
  /\ stage \in Unlocked \union Locked /\ cycle \in Cycle
  /\ pushing \in PushStages /\ outgoing \in Outgoing
  /\ submits \in 0 .. MaxSubmits /\ mishaps \in 0 .. MaxMishaps
  /\ earlier \in TipOrNone /\ fate \in [Direct -> Fate]

Lands == pushing \in {"ready", "retrying"} /\ pushing' = "landed"

(* No push takes a patch off GitHub that stands there when it lands, the     *)
(* force push of a rebased history included: the lease names the commit that *)
(* the rebase replaced, whatever was pushed, rebased or merged since the     *)
(* task read it.                                                             *)
DirectPushesSurvive ==
  [][Lands => Patches(gitHub) \subseteq Patches(gitHub')]_vars

(* Neither remote.git nor the clone ever loses a patch, committed by editors *)
(* or taken in from GitHub, to a fast-forward, merge, rebase, forced publish *)
(* or submit, through crashes between any two of their steps.                *)
WorkIsKept ==
  [][ /\ Patches(remote) \subseteq Patches(remote')
      /\ Patches(head) \subseteq Patches(head')]_vars

(* A published rewrite gets to GitHub, or the branch says why not: crashes   *)
(* between the rebase, the marker, the forced publish and the queued push    *)
(* are healed by later cycles, except while the branch is in review or has   *)
(* edits that no submit has committed.                                       *)
RewriteIsPublished ==
  marker # NoTip ~> \/ marker = NoTip \/ failed \/ rewritten
                    \/ status = "submitted" \/ dirty # {}

(* What someone pushes to GitHub gets into the editors' clone, unless it is  *)
(* taken back, or the branch has uncommitted edits or reports a failure.     *)
DirectPushesReachClone ==
  \A d \in Direct :
    d \in Patches(gitHub) ~> \/ d \in Patches(head) \/ d \notin Patches(gitHub)
                            \/ dirty # {} \/ failed \/ rewritten

(* github-commits.ts: a commit removed on GitHub stays removed, nothing here *)
(* may put it back.                                                          *)
RemovedStaysRemoved ==
  [][Lands =>
       \A d \in Direct : fate[d] = "removed" /\ d \in Patches(gitHub')
                           => d \in Patches(gitHub)]_vars
=============================================================================
