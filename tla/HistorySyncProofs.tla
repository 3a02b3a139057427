-------------------------- MODULE HistorySyncProofs --------------------------
(* Proofs about HistorySync, for any edits and direct pushes, any advance of *)
(* the base, any number of merges, submits, crashes, failures and rewinds.   *)
EXTENDS HistorySync, TLAPS

USE TagAssumption, BoundAssumption

(* What the worker compares with a clone is there to compare, and a merge to *)
(* be published is one.                                                      *)
HandInv ==
  /\ stage \in {"catchingUp", "advancing"} => Tracked # NoTip
  /\ stage \in {"merging", "mergeSeen", "mergePublished", "mergeQueued"} =>
       cycle.merge # NoTip

TypeInv == TypeOK /\ HandInv

(* What the marker names has been replaced, with all its patches, wherever   *)
(* the rewrite got to.                                                       *)
MarkerInv == Patches(marker) \subseteq (Patches(remote) \intersect Patches(head))

(* What a cycle holds on to is still what it read: nothing else moves a ref  *)
(* away from it while the content lock is held, and the fast-forward of      *)
(* remote.git checks the value it moves from.                                *)
CycleInv ==
  /\ stage = "seen" => Contains(cycle.gitHub, cycle.from)
  /\ Patches(cycle.marker) \subseteq Patches(head)
  /\ stage \in {"rebased", "marked"} =>
       Patches(cycle.from) \subseteq Patches(head)
  /\ stage \in {"merging", "mergeSeen", "mergePublished", "mergeQueued"} =>
       head \subseteq cycle.merge
  /\ stage \in {"merging", "mergeSeen"} =>
       remote = NoTip \/ remote \subseteq cycle.merge

(* What a push sends holds every patch of the commit its lease names. *)
OutgoingInv ==
  /\ pushing = "named" => Patches(outgoing.marker) \subseteq Patches(remote)
  /\ pushing \in {"sized", "ready", "retrying"} =>
       Patches(outgoing.marker) \subseteq Patches(outgoing.sha)

KeptInv == TypeInv /\ MarkerInv /\ CycleInv /\ OutgoingInv

-----------------------------------------------------------------------------
(* Commits and tips. *)

(* A tip is never the mark of a missing ref. *)
LEMMA TipsAreSomething ==
  ASSUME NEW tip \in Tip
  PROVE  tip # NoTip
<1>1. <<Base, 0>> \notin Patch \X (0 .. MaxBase)
  OBVIOUS
<1>2. <<Base, 0>> \notin {Base} \X (1 .. MaxBase)
  OBVIOUS
<1>3. <<Base, 0>> \notin {Merge} \X (1 .. MaxMerges)
  OBVIOUS
<1>4. <<Base, 0>> \notin Commit
  BY <1>1, <1>2, <1>3 DEF Commit
<1>5. QED
  BY <1>4 DEF Tip, NoTip

(* A larger tip holds at least the same patches. *)
LEMMA PatchesGrow ==
  ASSUME NEW tip, NEW other, tip # NoTip, other \subseteq tip
  PROVE  Patches(other) \subseteq Patches(tip)
BY DEF Patches

(* A missing ref has no patches. *)
LEMMA NoPatches == Patches(NoTip) = {}
BY DEF Patches

(* A tip that contains another holds its patches. *)
LEMMA ContainedPatches ==
  ASSUME NEW tip, NEW other, Contains(tip, other)
  PROVE  Patches(other) \subseteq Patches(tip)
BY PatchesGrow DEF Contains

(* A rebase gives a tip with the same patches. *)
LEMMA RebaseKeepsPatches ==
  ASSUME NEW tip \in Tip, NEW n \in 0 .. MaxBase
  PROVE  Rebased(tip, n) \in Tip /\ Patches(Rebased(tip, n)) = Patches(tip)
<1>1. Patches(tip) \subseteq Patch
  BY NoPatches DEF Patches
<1>2. BaseTip(n) \subseteq Commit
  BY DEF BaseTip, Commit
<1>3. Patches(tip) \X {n} \subseteq Commit
  BY <1>1 DEF Commit
<1>4. Rebased(tip, n) \in Tip
  BY <1>2, <1>3 DEF Rebased, Tip
<1>5. Patches(Rebased(tip, n)) =
        {c[1] : c \in BaseTip(n) \union (Patches(tip) \X {n})} \intersect Patch
  BY <1>4, TipsAreSomething DEF Patches, Rebased
<1>6. \A c \in BaseTip(n) : c[1] \notin Patch
  BY DEF BaseTip
<1>7. \A c \in Patches(tip) \X {n} : c[1] \in Patches(tip)
  OBVIOUS
<1>8. \A p \in Patches(tip) : <<p, n>> \in Patches(tip) \X {n} /\ <<p, n>>[1] = p
  OBVIOUS
<1>9. Patches(Rebased(tip, n)) \subseteq Patches(tip)
  <2>1. SUFFICES ASSUME NEW p \in Patches(Rebased(tip, n))
                 PROVE  p \in Patches(tip)
    OBVIOUS
  <2>2. PICK c \in BaseTip(n) \union (Patches(tip) \X {n}) : c[1] = p
    BY <1>5, <2>1
  <2>3. p \in Patch
    BY <1>5, <2>1
  <2>4. c \in Patches(tip) \X {n}
    BY <1>6, <2>2, <2>3
  <2>5. QED
    BY <1>7, <2>2, <2>4
<1>10. Patches(tip) \subseteq Patches(Rebased(tip, n))
  <2>1. SUFFICES ASSUME NEW p \in Patches(tip)
                 PROVE  p \in Patches(Rebased(tip, n))
    OBVIOUS
  <2>2. p \in {c[1] : c \in BaseTip(n) \union (Patches(tip) \X {n})}
    BY <1>8, <2>1
  <2>3. QED
    BY <1>1, <1>5, <2>1, <2>2
<1>11. QED
  BY <1>4, <1>9, <1>10

(* What a submit commits is a tip that holds the clone's. *)
LEMMA SubmitCommitGrows ==
  ASSUME TypeOK
  PROVE  SubmitCommit \in Tip /\ head \subseteq SubmitCommit
BY DEF TypeOK, SubmitCommit, Tip, Commit, Patch

(* The base branch's tip is one. *)
LEMMA BaseTipIsTip ==
  ASSUME NEW n \in 0 .. MaxBase
  PROVE  BaseTip(n) \in Tip
BY DEF BaseTip, Tip, Commit

(* The value a field without a commit has is of its type. *)
LEMMA EmptyRecords == NoCycle \in Cycle /\ NoOutgoing \in Outgoing
BY DEF NoCycle, Cycle, NoOutgoing, Outgoing, TipOrNone, Tip, Unlocked

(* A merge is a tip, and what a cycle notes of it is well typed. *)
LEMMA BuildMergeType ==
  ASSUME TypeOK, NEW other \in Tip, NEW fromGitHub \in BOOLEAN,
         BuildMerge(other, fromGitHub)
  PROVE  /\ stage' \in {"merging", "idle"} /\ cycle' \in Cycle
         /\ stage' = "merging" => cycle'.merge # NoTip
         /\ mishaps' \in 0 .. MaxMishaps /\ submits' = submits
<1>1. CASE Mishap /\ Done
  BY <1>1, EmptyRecords DEF TypeOK, Mishap, Done
<1>2. CASE ~(Mishap /\ Done)
  <2>1. PICK k \in 1 .. MaxMerges :
          LET merge == head \union other \union {<<Merge, k>>}
          IN IF remote = NoTip \/ Contains(merge, remote)
               THEN /\ Go("merging")
                    /\ cycle' = [NoCycle EXCEPT !.merge = merge,
                                   !.other = other, !.fromGitHub = fromGitHub,
                                   !.gitHub = cycle.gitHub,
                                   !.lastTip = cycle.lastTip,
                                   !.rewritten = cycle.rewritten]
               ELSE Done
    BY <1>2 DEF BuildMerge
  <2> DEFINE merge == head \union other \union {<<Merge, k>>}
  <2>2. merge \in Tip
    BY DEF TypeOK, Tip, Commit
  <2>3. UNCHANGED boundVars
    BY <1>2 DEF BuildMerge
  <2>4. stage' \in {"merging", "idle"}
    BY <2>1 DEF Go, Done
  <2>5. cycle' \in Cycle
    <3>1. CASE cycle' = NoCycle
      BY <3>1, EmptyRecords
    <3>2. CASE cycle' = [NoCycle EXCEPT !.merge = merge, !.other = other,
                           !.fromGitHub = fromGitHub, !.gitHub = cycle.gitHub,
                           !.lastTip = cycle.lastTip,
                           !.rewritten = cycle.rewritten]
      <4> HIDE DEF merge
      <4>1. cycle.gitHub \in TipOrNone /\ cycle.lastTip \in TipOrNone
            /\ cycle.rewritten \in BOOLEAN /\ merge \in TipOrNone
        BY <2>2 DEF TypeOK, Cycle, TipOrNone
      <4>2. QED
        BY <3>2, <4>1, EmptyRecords DEF Cycle
    <3>3. QED
      BY <2>1, <3>1, <3>2 DEF Done
  <2>6. stage' = "merging" => cycle'.merge # NoTip
    <3>1. merge # NoTip
      BY <2>2, TipsAreSomething
    <3>2. stage' = "merging" => cycle'.merge = merge
      BY <2>1 DEF Go, Done, NoCycle
    <3>3. QED
      BY <3>1, <3>2
  <2>7. QED
    BY <2>3, <2>4, <2>5, <2>6 DEF TypeOK, boundVars
<1>3. QED
  BY <1>1, <1>2

(* A queued push is a Boolean, whatever was queued. *)
LEMMA EnqueueType ==
  ASSUME TypeOK, EnqueueGitHubPush
  PROVE  queued' \in BOOLEAN
BY DEF TypeOK, EnqueueGitHubPush

(* Clearing the rewritten flag keeps the types of what it touches. *)
LEMMA RewriteClearedType ==
  ASSUME TypeOK, RewriteCleared
  PROVE  rewritten' \in BOOLEAN /\ failed' \in BOOLEAN
<1>1. failed' \in {failed, FALSE}
  BY DEF RewriteCleared
<1>2. rewritten' = FALSE
  BY DEF RewriteCleared
<1>3. QED
  BY <1>1, <1>2 DEF TypeOK

(* So does recording GitHub's tip, *)
LEMMA RecordGitHubTipType ==
  ASSUME TypeOK, NEW tip \in TipOrNone, RecordGitHubTip(tip)
  PROVE  /\ lastTip' \in TipOrNone
         /\ rewritten' \in BOOLEAN /\ failed' \in BOOLEAN
<1>1. CASE UNCHANGED <<lastTip, rewritten, failed>>
  BY <1>1 DEF TypeOK
<1>2. CASE /\ lastTip' = IF lastTip = cycle.lastTip THEN tip ELSE lastTip
           /\ RewriteCleared
  <2>1. lastTip' \in {tip, lastTip}
    BY <1>2
  <2>2. lastTip' \in TipOrNone
    BY <2>1 DEF TypeOK
  <2>3. QED
    BY <1>2, <2>2, RewriteClearedType
<1>3. QED
  BY <1>1, <1>2 DEF RecordGitHubTip

(* going on to the rest of the cycle, *)
LEMMA BroughtInType ==
  ASSUME TypeOK, NEW unpushed \in BOOLEAN, BroughtIn(unpushed)
  PROVE  stage' \in {"inStep", "inReview"} /\ cycle' \in Cycle
<1>1. cycle.gitHub \in TipOrNone /\ cycle.marker \in TipOrNone
  BY DEF TypeOK, Cycle
<1>2. cycle' = [NoCycle EXCEPT !.gitHub = cycle.gitHub,
                  !.marker = cycle.marker, !.unpushed = unpushed]
  BY DEF BroughtIn
<1>3. cycle' \in Cycle
  BY <1>1, <1>2, EmptyRecords DEF Cycle
<1>4. QED
  BY <1>3 DEF BroughtIn, Go

(* and a push that lands. *)
LEMMA LandType ==
  ASSUME TypeOK, NEW pastLease \in BOOLEAN, Land(pastLease)
  PROVE  /\ gitHub' \in TipOrNone /\ pushing' = "landed"
         /\ outgoing' \in Outgoing
         /\ UNCHANGED <<remote, head, base, dirty, metaVars, queued, syncVars>>
         /\ UNCHANGED <<boundVars, auxVars>>
<1> DEFINE clears == pastLease \/ outgoing.marker \notin {NoTip, outgoing.sha}
<1>1. clears \in BOOLEAN
  OBVIOUS
<1>2. outgoing' = [NoOutgoing EXCEPT !.sha = outgoing.sha, !.clears = clears]
  BY DEF Land
<1>3. outgoing.sha \in TipOrNone
  BY DEF TypeOK, Outgoing
<1>4. outgoing' \in Outgoing
  <2> HIDE DEF clears
  <2>1. QED
    BY <1>1, <1>2, <1>3, EmptyRecords DEF Outgoing
<1>5. QED
  BY <1>3, <1>4 DEF Land, PushTo

(* Every step keeps the types. *)
LEMMA TypeStep ==
  ASSUME TypeInv, [Next]_vars
  PROVE  TypeOK'
<1> USE EmptyRecords
    DEF TypeInv, TypeOK, Tracked, Cycle, Outgoing, TipOrNone,
        Unlocked, Locked, PushStages, repoVars, metaVars, syncVars, pushVars,
        boundVars, auxVars
<1>1. CASE Rewind
  BY <1>1 DEF Rewind, Mishap, Fate
<1>2. CASE BaseAdvances
  BY <1>2 DEF BaseAdvances
<1>3. CASE \E d \in Direct : PushDirect(d)
  <2>1. PICK d \in Direct : PushDirect(d)
    BY <1>3
  <2>2. gitHub' \in TipOrNone /\ earlier' \in TipOrNone
    BY <2>1 DEF PushDirect, Tip, Commit, Patch
  <2>3. fate' \in [Direct -> Fate]
    BY <2>1 DEF PushDirect, Fate
  <2>4. QED
    BY <2>1, <2>2, <2>3 DEF PushDirect
<1>4. CASE \E e \in Edit : Save(e)
  <2>1. PICK e \in Edit : Save(e)
    BY <1>4
  <2>2. QED
    BY <2>1 DEF Save, Elsewhere
<1>5. CASE Submit
  <2>1. /\ head' \in Tip /\ dirty' = {} /\ remote' \in TipOrNone
        /\ UNCHANGED <<gitHub, base, marker, lastTip, rewritten, stamped>>
        /\ UNCHANGED <<syncVars, pushVars, auxVars>>
    BY <1>5, SubmitCommitGrows DEF Submit
  <2>2. /\ RecordSubmitted \/ UNCHANGED <<status, failed, queued>>
        /\ submits' \in 0 .. MaxSubmits /\ mishaps' \in 0 .. MaxMishaps
    BY <1>5 DEF Submit, Mishap
  <2>3. /\ status' \in {"editing", "submitted"}
        /\ failed' \in BOOLEAN /\ queued' \in BOOLEAN
    BY <2>2 DEF RecordSubmitted
  <2>4. stage \in Unlocked
    BY <1>5 DEF Submit, MaySubmit
  <2>5. QED
    BY <2>1, <2>2, <2>3, <2>4
<1>6. CASE SubmitRefused
  BY <1>6, SubmitCommitGrows DEF SubmitRefused, MaySubmit, Elsewhere
<1>7. CASE Withdraw
  BY <1>7 DEF Withdraw, Elsewhere
<1>8. CASE Fetch
  BY <1>8 DEF Fetch, Go, See, Fate
<1>9. CASE RecordSeen
  BY <1>9 DEF RecordSeen, Go, Apart
<1>10. CASE LeaveHead
  BY <1>10 DEF LeaveHead, Go, Apart
<1>11. CASE FastForwardRemote
  BY <1>11 DEF FastForwardRemote, Go, Mishap
<1>12. CASE LoadMeta
  <2> DEFINE published == stamped # "never"
  <2>1. published \in BOOLEAN
    OBVIOUS
  <2>2. /\ status \in {"editing", "submitted"} /\ marker \in TipOrNone
        /\ lastTip \in TipOrNone /\ rewritten \in BOOLEAN /\ failed \in BOOLEAN
    OBVIOUS
  <2>3. cycle' = [cycle EXCEPT !.status = status, !.marker = marker,
                    !.lastTip = lastTip, !.rewritten = rewritten,
                    !.published = published, !.failed = failed]
    BY <1>12 DEF LoadMeta
  <2>4. cycle \in Cycle
    OBVIOUS
  <2> HIDE DEF published, TypeOK, TypeInv, TipOrNone, Unlocked, Locked
  <2>5. cycle' \in Cycle
    BY <2>1, <2>2, <2>3, <2>4
  <2>6. stage' = "loaded" /\ UNCHANGED <<repoVars, metaVars, queued, Apart>>
    BY <1>12 DEF LoadMeta, Go
  <2>7. QED
    BY <2>5, <2>6 DEF Apart, TypeOK, TypeInv, Unlocked
<1>13. CASE SkipReview
  BY <1>13 DEF SkipReview, Done, Apart
<1>14. CASE NothingToBringIn
  <2>1. stage' \in {"inStep", "inReview"} /\ cycle' \in Cycle
    BY <1>14, BroughtInType DEF NothingToBringIn
  <2>2. Tracked \in TipOrNone
    OBVIOUS
  <2>3. /\ lastTip' \in TipOrNone
        /\ rewritten' \in BOOLEAN /\ failed' \in BOOLEAN
    <3>1. CASE RecordGitHubTip(Tracked)
      BY <2>2, <3>1, RecordGitHubTipType
    <3>2. CASE UNCHANGED <<lastTip, rewritten, failed>>
      BY <3>2
    <3>3. QED
      BY <1>14, <3>1, <3>2 DEF NothingToBringIn
  <2>4. UNCHANGED <<repoVars, status, marker, stamped, queued, Apart>>
    BY <1>14 DEF NothingToBringIn
  <2>5. QED
    BY <2>1, <2>3, <2>4 DEF Apart
<1>15. CASE WaitForFetch
  BY <1>15 DEF WaitForFetch, Done, Apart, MustCompare
<1>16. CASE BlockAsRewritten
  BY <1>16 DEF BlockAsRewritten, Done, Apart, MustCompare
<1>17. CASE Compare
  <2> DEFINE resolved == cycle.rewritten /\ cycle.gitHub # NoTip
  <2>1. rewritten' \in BOOLEAN /\ failed' \in BOOLEAN
    <3>1. CASE RewriteCleared
      BY <3>1, RewriteClearedType
    <3>2. CASE UNCHANGED <<rewritten, failed>>
      BY <3>2
    <3>3. QED
      BY <1>17, <3>1, <3>2 DEF Compare
  <2>2. resolved \in BOOLEAN
    OBVIOUS
  <2>3. cycle' = [cycle EXCEPT !.resolved = resolved]
    BY <1>17 DEF Compare
  <2>4. /\ Tracked # NoTip /\ stage' = "catchingUp"
        /\ UNCHANGED <<repoVars, status, marker, lastTip, stamped, queued, Apart>>
    BY <1>17 DEF Compare, MustCompare, Go
  <2> HIDE DEF resolved
  <2>5. QED
    BY <2>1, <2>2, <2>3, <2>4 DEF Apart
<1>18. CASE CatchUp
  BY <1>18 DEF CatchUp, Go, Done, Apart, Contains
<1>19. CASE Advance
  BY <1>19 DEF Advance, Go, Done, Apart
<1>20. CASE CloneIsAhead
  BY <1>20 DEF CloneIsAhead, Go, Apart
<1>21. CASE AwaitOwnPush
  <2>1. queued' \in BOOLEAN
    BY <1>21, EnqueueType DEF AwaitOwnPush
  <2>2. stage' \in {"inStep", "inReview"} /\ cycle' \in Cycle
    BY <1>21, BroughtInType DEF AwaitOwnPush
  <2>3. UNCHANGED <<repoVars, metaVars, Apart>>
    BY <1>21 DEF AwaitOwnPush
  <2>4. QED
    BY <2>1, <2>2, <2>3 DEF Apart
<1>22. CASE DirtyWaits
  BY <1>22 DEF DirtyWaits, Diverged, Done, Apart
<1>23. CASE MergeGitHub
  <2>1. CASE BuildMerge(Tracked, TRUE)
    <3>1. Tracked \in Tip
      BY <1>23 DEF MergeGitHub, Diverged, HandInv
    <3>2. /\ stage' \in {"merging", "idle"} /\ cycle' \in Cycle
          /\ mishaps' \in 0 .. MaxMishaps /\ submits' = submits
      BY <2>1, <3>1, BuildMergeType
    <3>3. UNCHANGED <<repoVars, metaVars, queued, pushVars, auxVars>>
      BY <1>23 DEF MergeGitHub
    <3>4. QED
      BY <3>2, <3>3
  <2>2. QED
    BY <1>23, <2>1 DEF MergeGitHub
<1>24. CASE RecordMerged
  BY <1>24 DEF RecordMerged, Go, Apart
<1>25. CASE PublishMerge
  BY <1>25 DEF PublishMerge, Go, Apart
<1>26. CASE QueueMerge
  BY <1>26, EnqueueType DEF QueueMerge, Go, Apart
<1>27. CASE MoveClone
  <2>1. cycle.other \in TipOrNone
    OBVIOUS
  <2>2. /\ lastTip' \in TipOrNone
        /\ rewritten' \in BOOLEAN /\ failed' \in BOOLEAN
    <3>1. CASE RecordGitHubTip(cycle.other)
      BY <2>1, <3>1, RecordGitHubTipType
    <3>2. CASE UNCHANGED <<lastTip, rewritten, failed>>
      BY <3>2
    <3>3. QED
      BY <1>27, <3>1, <3>2 DEF MoveClone
  <2>3. /\ head' = cycle.merge /\ Done
        /\ UNCHANGED <<gitHub, remote, base, dirty, status, marker, stamped>>
        /\ UNCHANGED <<queued, Apart>>
    BY <1>27 DEF MoveClone
  <2>4. head' \in Tip
    BY <1>27, <2>3 DEF MoveClone, HandInv
  <2>5. QED
    BY <2>2, <2>3, <2>4 DEF Done, Apart
<1>28. CASE Record
  <2>1. Tracked \in TipOrNone
    OBVIOUS
  <2>2. /\ lastTip' \in TipOrNone
        /\ rewritten' \in BOOLEAN /\ failed' \in BOOLEAN
    BY <1>28, <2>1, RecordGitHubTipType DEF Record
  <2>3. CASE BroughtIn(TRUE) /\ UNCHANGED queued
    <3>1. stage' \in {"inStep", "inReview"} /\ cycle' \in Cycle
      BY <2>3, BroughtInType
    <3>2. QED
      BY <1>28, <2>2, <2>3, <3>1 DEF Record, Apart
  <2>4. CASE BroughtIn(FALSE) /\ UNCHANGED queued
    <3>1. stage' \in {"inStep", "inReview"} /\ cycle' \in Cycle
      BY <2>4, BroughtInType
    <3>2. QED
      BY <1>28, <2>2, <2>4, <3>1 DEF Record, Apart
  <2>5. CASE EnqueueGitHubPush /\ Done
    <3>1. queued' \in BOOLEAN
      BY <2>5, EnqueueType
    <3>2. QED
      BY <1>28, <2>2, <2>5, <3>1 DEF Record, Done, Apart
  <2>6. QED
    BY <1>28, <2>3, <2>4, <2>5 DEF Record
<1>29. CASE PendingRewrite
  <2>1. CASE queued' = queued
    BY <1>29, <2>1 DEF PendingRewrite, Done, Go, Apart
  <2>2. CASE EnqueueGitHubPush /\ UNCHANGED <<cycle, remote>> /\ Go("settled")
    <3>1. queued' \in BOOLEAN
      BY <2>2, EnqueueType
    <3>2. QED
      BY <1>29, <2>2, <3>1 DEF PendingRewrite, Go, Apart
  <2>3. QED
    BY <1>29, <2>1, <2>2 DEF PendingRewrite
<1>30. CASE UpToDate
  BY <1>30 DEF UpToDate, Done, Apart
<1>31. CASE MergeBase
  <2>1. CASE BuildMerge(BaseTip(base), FALSE)
    <3>1. BaseTip(base) \in Tip
      BY <1>31, BaseTipIsTip
    <3>2. /\ stage' \in {"merging", "idle"} /\ cycle' \in Cycle
          /\ mishaps' \in 0 .. MaxMishaps /\ submits' = submits
      BY <2>1, <3>1, BuildMergeType
    <3>3. UNCHANGED <<repoVars, metaVars, queued, pushVars, auxVars>>
      BY <1>31 DEF MergeBase
    <3>4. QED
      BY <3>2, <3>3
  <2>2. QED
    BY <1>31, <2>1 DEF MergeBase
<1>32. CASE Rebase
  <2>1. /\ head' = Rebased(head, base) /\ stage' = "rebased"
        /\ cycle' = [cycle EXCEPT !.from = head]
        /\ UNCHANGED <<gitHub, remote, base, dirty, metaVars, queued, Apart>>
    BY <1>32 DEF Rebase, Go
  <2>2. head' \in Tip
    BY <2>1, RebaseKeepsPatches
  <2>3. cycle' \in Cycle
    BY <2>1
  <2>4. QED
    BY <2>1, <2>2, <2>3 DEF Apart
<1>33. CASE NotPublished
  BY <1>33 DEF NotPublished, Done, Apart
<1>34. CASE MarkHistoryRewritten
  BY <1>34 DEF MarkHistoryRewritten, Go, Apart
<1>35. CASE ForcePublish
  BY <1>35 DEF ForcePublish, Go, Done, Mishap
<1>36. CASE QueuePush
  BY <1>36, EnqueueType DEF QueuePush, Done, Go, Apart
<1>37. CASE UpdateInReview
  <2>1. CASE BuildMerge(BaseTip(base), FALSE)
    <3>1. BaseTip(base) \in Tip
      BY <1>37, BaseTipIsTip
    <3>2. /\ stage' \in {"merging", "idle"} /\ cycle' \in Cycle
          /\ mishaps' \in 0 .. MaxMishaps /\ submits' = submits
      BY <2>1, <3>1, BuildMergeType
    <3>3. UNCHANGED <<repoVars, metaVars, queued, pushVars, auxVars>>
      BY <1>37 DEF UpdateInReview
    <3>4. QED
      BY <3>2, <3>3
  <2>2. CASE Done /\ UNCHANGED boundVars
    BY <1>37, <2>2 DEF UpdateInReview, Done
  <2>3. QED
    BY <1>37, <2>1, <2>2 DEF UpdateInReview
<1>38. CASE Claim
  <2>1. /\ queued' = FALSE /\ pushing' = "named"
        /\ outgoing' = [NoOutgoing EXCEPT !.marker = marker]
        /\ UNCHANGED <<metaVars, Beside>>
    BY <1>38 DEF Claim, PushTo
  <2>2. outgoing' \in Outgoing
    BY <2>1
  <2>3. queued' \in BOOLEAN
    BY <2>1
  <2>4. QED
    BY <2>1, <2>2, <2>3 DEF Beside
<1>39. CASE RewrittenRefusal
  <2>1. /\ queued' = FALSE /\ failed' = TRUE
        /\ UNCHANGED <<status, marker, lastTip, rewritten, stamped, pushVars>>
        /\ UNCHANGED Beside
    BY <1>39 DEF RewrittenRefusal
  <2>2. queued' \in BOOLEAN /\ failed' \in BOOLEAN
    BY <2>1
  <2>3. QED
    BY <2>1, <2>2 DEF Beside
<1>40. CASE ReadSha
  BY <1>40 DEF ReadSha, PushTo, Beside
<1>41. CASE ReadSeen
  BY <1>41 DEF ReadSeen, PushTo, Beside
<1>42. CASE Push
  <2>1. Land(FALSE)
    BY <1>42 DEF Push
  <2>2. /\ gitHub' \in TipOrNone /\ pushing' = "landed"
        /\ outgoing' \in Outgoing
        /\ UNCHANGED <<remote, head, base, dirty, metaVars, queued, syncVars>>
        /\ UNCHANGED <<boundVars, auxVars>>
    BY <2>1, LandType, Zenon
  <2>3. QED
    BY <2>2
<1>43. CASE StaleLease
  BY <1>43 DEF StaleLease, PushTo, Beside
<1>44. CASE PushPastStaleLease
  <2>1. Land(TRUE)
    BY <1>44 DEF PushPastStaleLease
  <2>2. /\ gitHub' \in TipOrNone /\ pushing' = "landed"
        /\ outgoing' \in Outgoing
        /\ UNCHANGED <<remote, head, base, dirty, metaVars, queued, syncVars>>
        /\ UNCHANGED <<boundVars, auxVars>>
    BY <2>1, LandType, Zenon
  <2>3. QED
    BY <2>2
<1>45. CASE TryAgain
  BY <1>45 DEF TryAgain, PushDone, Beside
<1>46. CASE GiveUp
  BY <1>46 DEF GiveUp, PushDone, Beside
<1>47. CASE ClearMarker
  BY <1>47 DEF ClearMarker, PushTo, Mishap
<1>48. CASE RecordPushed
  <2>1. failed' \in BOOLEAN
    BY <1>48 DEF RecordPushed
  <2>2. fate' \in [Direct -> Fate]
    BY <1>48 DEF RecordPushed, See, Fate
  <2>3. /\ stamped' = "since" /\ lastTip' = outgoing.sha /\ PushDone
        /\ UNCHANGED <<repoVars, status, marker, rewritten, queued, syncVars>>
        /\ UNCHANGED <<boundVars, earlier>>
    BY <1>48 DEF RecordPushed
  <2>4. QED
    BY <2>1, <2>2, <2>3 DEF PushDone
<1>49. CASE Crash
  BY <1>49 DEF Crash, Mishap, Done, PushDone
<1>50. CASE UNCHANGED vars
  BY <1>50 DEF vars
<1>51. QED
  BY <1>1, <1>2, <1>3, <1>4, <1>5, <1>6, <1>7, <1>8, <1>9, <1>10, <1>11, <1>12, <1>13, <1>14, <1>15, <1>16, <1>17, <1>18, <1>19, <1>20, <1>21, <1>22, <1>23, <1>24, <1>25, <1>26, <1>27, <1>28, <1>29, <1>30, <1>31, <1>32, <1>33, <1>34, <1>35, <1>36, <1>37, <1>38, <1>39, <1>40, <1>41, <1>42, <1>43, <1>44, <1>45, <1>46, <1>47, <1>48, <1>49, <1>50
     DEF Next, People, Api, Sync, Tasks


(* Every step leaves what is to be compared or published in hand. *)
LEMMA HandStep ==
  ASSUME TypeInv, [Next]_vars
  PROVE  HandInv'
<1> USE DEF TypeInv, HandInv, Tracked, Unlocked,
            repoVars, metaVars, syncVars, pushVars, boundVars, auxVars
<1>1. CASE Rewind
  BY <1>1 DEF Rewind
<1>2. CASE BaseAdvances
  BY <1>2 DEF BaseAdvances
<1>3. CASE \E d \in Direct : PushDirect(d)
  BY <1>3 DEF PushDirect
<1>4. CASE \E e \in Edit : Save(e)
  BY <1>4 DEF Save, Elsewhere
<1>5. CASE Submit
  BY <1>5 DEF Submit, MaySubmit
<1>6. CASE SubmitRefused
  BY <1>6 DEF SubmitRefused, MaySubmit, Elsewhere
<1>7. CASE Withdraw
  BY <1>7 DEF Withdraw, Elsewhere
<1>8. CASE Fetch
  BY <1>8 DEF Fetch, Go
<1>9. CASE RecordSeen
  BY <1>9 DEF RecordSeen, Go, Apart
<1>10. CASE LeaveHead
  BY <1>10 DEF LeaveHead, Go, Apart
<1>11. CASE FastForwardRemote
  BY <1>11 DEF FastForwardRemote, Go, Mishap
<1>12. CASE LoadMeta
  BY <1>12 DEF LoadMeta, Go, Apart
<1>13. CASE SkipReview
  BY <1>13 DEF SkipReview, Done, Apart
<1>14. CASE NothingToBringIn
  BY <1>14 DEF NothingToBringIn, BroughtIn, Apart, Go, Comparing
<1>15. CASE WaitForFetch
  BY <1>15 DEF WaitForFetch, Done, Apart, MustCompare
<1>16. CASE BlockAsRewritten
  BY <1>16 DEF BlockAsRewritten, Done, Apart, MustCompare
<1>17. CASE Compare
  BY <1>17 DEF Compare, MustCompare, Go, Apart
<1>18. CASE CatchUp
  BY <1>18 DEF CatchUp, Go, Done, Apart, Contains
<1>19. CASE Advance
  BY <1>19 DEF Advance, Go, Done, Apart
<1>20. CASE CloneIsAhead
  BY <1>20 DEF CloneIsAhead, Go, Apart
<1>21. CASE AwaitOwnPush
  BY <1>21 DEF AwaitOwnPush, BroughtIn, Apart, Go
<1>22. CASE DirtyWaits
  BY <1>22 DEF DirtyWaits, Diverged, Done, Apart
<1>23. CASE MergeGitHub
  <2>1. CASE BuildMerge(Tracked, TRUE)
    <3>1. Tracked \in Tip
      BY <1>23 DEF MergeGitHub, Diverged, Tracked, TypeOK, TipOrNone, Cycle
    <3>2. QED
      BY <2>1, <3>1, BuildMergeType DEF TypeInv
  <2>2. QED
    BY <1>23, <2>1 DEF MergeGitHub
<1>24. CASE RecordMerged
  BY <1>24 DEF RecordMerged, Go, Apart
<1>25. CASE PublishMerge
  BY <1>25 DEF PublishMerge, Go, Apart
<1>26. CASE QueueMerge
  BY <1>26 DEF QueueMerge, Go, Apart
<1>27. CASE MoveClone
  BY <1>27 DEF MoveClone, Done, Apart
<1>28. CASE Record
  BY <1>28 DEF Record, BroughtIn, Done, Go, Apart
<1>29. CASE PendingRewrite
  BY <1>29 DEF PendingRewrite, Done, Go, Apart
<1>30. CASE UpToDate
  BY <1>30 DEF UpToDate, Done, Apart
<1>31. CASE MergeBase
  <2>1. CASE BuildMerge(BaseTip(base), FALSE)
    <3>1. BaseTip(base) \in Tip
      BY <1>31, BaseTipIsTip DEF TypeOK
    <3>2. QED
      BY <2>1, <3>1, BuildMergeType DEF TypeInv
  <2>2. QED
    BY <1>31, <2>1 DEF MergeBase
<1>32. CASE Rebase
  BY <1>32 DEF Rebase, Go, Apart
<1>33. CASE NotPublished
  BY <1>33 DEF NotPublished, Done, Apart
<1>34. CASE MarkHistoryRewritten
  BY <1>34 DEF MarkHistoryRewritten, Go, Apart
<1>35. CASE ForcePublish
  BY <1>35 DEF ForcePublish, Go, Done, Mishap
<1>36. CASE QueuePush
  BY <1>36 DEF QueuePush, Done, Go, Apart, TypeOK, Cycle, Locked
<1>37. CASE UpdateInReview
  <2>1. CASE BuildMerge(BaseTip(base), FALSE)
    <3>1. BaseTip(base) \in Tip
      BY <1>37, BaseTipIsTip DEF TypeOK
    <3>2. QED
      BY <2>1, <3>1, BuildMergeType DEF TypeInv
  <2>2. QED
    BY <1>37, <2>1 DEF UpdateInReview, Done
<1>38. CASE Claim
  BY <1>38 DEF Claim, PushTo, Beside
<1>39. CASE RewrittenRefusal
  BY <1>39 DEF RewrittenRefusal, Beside
<1>40. CASE ReadSha
  BY <1>40 DEF ReadSha, PushTo, Beside
<1>41. CASE ReadSeen
  BY <1>41 DEF ReadSeen, PushTo, Beside
<1>42. CASE Push
  BY <1>42 DEF Push, Land
<1>43. CASE StaleLease
  BY <1>43 DEF StaleLease, PushTo, Beside
<1>44. CASE PushPastStaleLease
  BY <1>44 DEF PushPastStaleLease, Land
<1>45. CASE TryAgain
  BY <1>45 DEF TryAgain, PushDone, Beside
<1>46. CASE GiveUp
  BY <1>46 DEF GiveUp, PushDone, Beside
<1>47. CASE ClearMarker
  BY <1>47 DEF ClearMarker, PushTo, Mishap
<1>48. CASE RecordPushed
  BY <1>48 DEF RecordPushed, PushDone
<1>49. CASE Crash
  BY <1>49 DEF Crash, Mishap, Done, PushDone
<1>50. CASE UNCHANGED vars
  BY <1>50 DEF vars
<1>51. QED
  BY <1>1, <1>2, <1>3, <1>4, <1>5, <1>6, <1>7, <1>8, <1>9, <1>10, <1>11, <1>12, <1>13, <1>14, <1>15, <1>16, <1>17, <1>18, <1>19, <1>20, <1>21, <1>22, <1>23, <1>24, <1>25, <1>26, <1>27, <1>28, <1>29, <1>30, <1>31, <1>32, <1>33, <1>34, <1>35, <1>36, <1>37, <1>38, <1>39, <1>40, <1>41, <1>42, <1>43, <1>44, <1>45, <1>46, <1>47, <1>48, <1>49, <1>50
     DEF Next, People, Api, Sync, Tasks

-----------------------------------------------------------------------------
(* The steps that move remote.git's ref or the clone's head. *)
LEMMA RefsMove ==
  ASSUME [Next]_vars
  PROVE  \/ Submit \/ SubmitRefused \/ FastForwardRemote \/ CatchUp
         \/ PublishMerge \/ MoveClone \/ PendingRewrite \/ Rebase
         \/ ForcePublish \/ UNCHANGED <<remote, head>>
<1> USE DEF repoVars, metaVars, syncVars, pushVars, boundVars, auxVars, Elsewhere, Apart, Beside, vars
<1>1. CASE People
  BY <1>1 DEF People, Rewind, BaseAdvances, PushDirect
<1>2. CASE Api
  BY <1>2 DEF Api, Save, Withdraw
<1>3. CASE Sync
  BY <1>3 DEF Sync, Fetch, RecordSeen, LeaveHead, LoadMeta, SkipReview, NothingToBringIn, WaitForFetch, BlockAsRewritten, Compare, Advance, CloneIsAhead, AwaitOwnPush, DirtyWaits, MergeGitHub, RecordMerged, QueueMerge, Record, UpToDate, MergeBase, NotPublished, MarkHistoryRewritten, QueuePush, UpdateInReview
<1>4. CASE Tasks
  BY <1>4 DEF Tasks, Claim, RewrittenRefusal, ReadSha, ReadSeen, Push, StaleLease, PushPastStaleLease, TryAgain, GiveUp, ClearMarker, RecordPushed, Land
<1>5. CASE Crash \/ UNCHANGED vars
  BY <1>5 DEF Crash
<1>6. QED
  BY <1>1, <1>2, <1>3, <1>4, <1>5 DEF Next

(* No step loses a patch of remote.git or of the clone. *)
LEMMA WorkStep ==
  ASSUME KeptInv, [Next]_vars
  PROVE  /\ Patches(remote) \subseteq Patches(remote')
         /\ Patches(head) \subseteq Patches(head')
<1> USE DEF KeptInv, TypeInv, CycleInv, repoVars
<1>1. CASE Submit
  <2>1. SubmitCommit \in Tip /\ head \subseteq SubmitCommit
    BY SubmitCommitGrows
  <2>2. Patches(head) \subseteq Patches(head')
    BY <1>1, <2>1, PatchesGrow, TipsAreSomething DEF Submit
  <2>3. CASE remote = NoTip
    BY <2>2, <2>3, NoPatches
  <2>4. CASE Contains(SubmitCommit, remote)
    BY <1>1, <2>2, <2>4, ContainedPatches DEF Submit
  <2>5. CASE dirty = {} /\ Contains(remote, head)
    <3>1. SubmitCommit = head
      BY <2>5 DEF SubmitCommit
    <3>2. remote' = remote
      BY <1>1, <2>5, <3>1 DEF Submit
    <3>3. QED
      BY <2>2, <3>2
  <2>6. QED
    BY <1>1, <2>3, <2>4, <2>5 DEF Submit
<1>2. CASE SubmitRefused
  <2>1. SubmitCommit \in Tip /\ head \subseteq SubmitCommit
    BY SubmitCommitGrows
  <2>2. QED
    BY <1>2, <2>1, PatchesGrow, TipsAreSomething DEF SubmitRefused
<1>3. CASE FastForwardRemote
  BY <1>3, ContainedPatches DEF FastForwardRemote
<1>4. CASE CatchUp
  BY <1>4, ContainedPatches DEF CatchUp
<1>5. CASE PublishMerge
  BY <1>5, PatchesGrow, NoPatches DEF PublishMerge, HandInv
<1>6. CASE MoveClone
  BY <1>6, PatchesGrow DEF MoveClone, HandInv
<1>7. CASE PendingRewrite
  BY <1>7 DEF PendingRewrite
<1>8. CASE Rebase
  <2>1. Patches(Rebased(head, base)) = Patches(head)
    BY RebaseKeepsPatches DEF TypeOK
  <2>2. QED
    BY <1>8, <2>1 DEF Rebase
<1>9. CASE ForcePublish
  BY <1>9 DEF ForcePublish
<1>10. CASE UNCHANGED <<remote, head>>
  BY <1>10
<1>11. QED
  BY <1>1, <1>2, <1>3, <1>4, <1>5, <1>6, <1>7, <1>8, <1>9, <1>10, RefsMove

(* The steps that set or clear the marker. *)
LEMMA MarkerMoves ==
  ASSUME [Next]_vars
  PROVE  MarkHistoryRewritten \/ ClearMarker \/ UNCHANGED marker
<1> USE DEF repoVars, metaVars, syncVars, pushVars, boundVars, auxVars, Elsewhere, Apart, Beside, vars
<1>1. CASE People
  BY <1>1 DEF People, Rewind, BaseAdvances, PushDirect
<1>2. CASE Api
  BY <1>2 DEF Api, Save, Withdraw, Submit, SubmitRefused
<1>3. CASE Sync
  BY <1>3 DEF Sync, Fetch, RecordSeen, LeaveHead, FastForwardRemote, LoadMeta, SkipReview, NothingToBringIn, WaitForFetch, BlockAsRewritten, Compare, CatchUp, Advance, CloneIsAhead, AwaitOwnPush, DirtyWaits, MergeGitHub, RecordMerged, PublishMerge, QueueMerge, MoveClone, Record, PendingRewrite, UpToDate, MergeBase, Rebase, NotPublished, ForcePublish, QueuePush, UpdateInReview
<1>4. CASE Tasks
  BY <1>4 DEF Tasks, Claim, RewrittenRefusal, ReadSha, ReadSeen, Push, StaleLease, PushPastStaleLease, TryAgain, GiveUp, RecordPushed, Land
<1>5. CASE Crash \/ UNCHANGED vars
  BY <1>5 DEF Crash
<1>6. QED
  BY <1>1, <1>2, <1>3, <1>4, <1>5 DEF Next

(* The marker names a commit whose patches are all here, after every step. *)
LEMMA MarkerStep ==
  ASSUME KeptInv, [Next]_vars
  PROVE  MarkerInv'
<1> USE DEF KeptInv, MarkerInv
<1>1. CASE MarkHistoryRewritten
  BY <1>1, WorkStep DEF MarkHistoryRewritten, CycleInv
<1>2. CASE ClearMarker
  BY <1>2, WorkStep, NoPatches DEF ClearMarker
<1>3. CASE UNCHANGED marker
  BY <1>3, WorkStep
<1>4. QED
  BY <1>1, <1>2, <1>3, MarkerMoves

(* A built merge holds the clone's head and what remote.git holds. *)
LEMMA BuildMergeHolds ==
  ASSUME NEW other, NEW fromGitHub, BuildMerge(other, fromGitHub)
  PROVE  /\ stage' \in {"merging", "idle"} /\ cycle'.marker = NoTip
         /\ stage' = "merging" =>
              /\ head \subseteq cycle'.merge
              /\ remote = NoTip \/ remote \subseteq cycle'.merge
<1>1. CASE Mishap /\ Done
  BY <1>1 DEF Done, NoCycle
<1>2. CASE ~(Mishap /\ Done)
  <2>1. PICK k \in 1 .. MaxMerges :
          LET merge == head \union other \union {<<Merge, k>>}
          IN IF remote = NoTip \/ Contains(merge, remote)
               THEN /\ Go("merging")
                    /\ cycle' = [NoCycle EXCEPT !.merge = merge,
                                   !.other = other, !.fromGitHub = fromGitHub,
                                   !.gitHub = cycle.gitHub,
                                   !.lastTip = cycle.lastTip,
                                   !.rewritten = cycle.rewritten]
               ELSE Done
    BY <1>2 DEF BuildMerge
  <2> DEFINE merge == head \union other \union {<<Merge, k>>}
  <2>2. CASE Done
    BY <2>2 DEF Done, NoCycle
  <2>3. CASE ~Done
    <3>1. /\ stage' = "merging" /\ cycle'.marker = NoTip /\ cycle'.merge = merge
          /\ remote = NoTip \/ Contains(merge, remote)
      BY <2>1, <2>3 DEF Go, NoCycle
    <3>2. QED
      BY <3>1 DEF Contains
  <2>4. QED
    BY <2>2, <2>3
<1>3. QED
  BY <1>1, <1>2

(* What a cycle holds on to survives every step. *)
LEMMA CycleStep ==
  ASSUME KeptInv, [Next]_vars
  PROVE  CycleInv'
<1> USE WorkStep, NoPatches
    DEF KeptInv, CycleInv, Unlocked, repoVars, metaVars, syncVars, pushVars,
        boundVars, auxVars, Elsewhere, Apart, Beside
<1>1. CASE Rewind
  BY <1>1 DEF Rewind
<1>2. CASE BaseAdvances
  BY <1>2 DEF BaseAdvances
<1>3. CASE \E d \in Direct : PushDirect(d)
  BY <1>3 DEF PushDirect
<1>4. CASE \E e \in Edit : Save(e)
  BY <1>4 DEF Save
<1>5. CASE Submit
  BY <1>5 DEF Submit, MaySubmit
<1>6. CASE SubmitRefused
  BY <1>6 DEF SubmitRefused, MaySubmit
<1>7. CASE Withdraw
  BY <1>7 DEF Withdraw
<1>8. CASE Fetch
  BY <1>8 DEF Fetch, Go, NoCycle
<1>9. CASE RecordSeen
  BY <1>9 DEF RecordSeen, Behind, Go
<1>10. CASE LeaveHead
  BY <1>10 DEF LeaveHead, Go
<1>11. CASE FastForwardRemote
  BY <1>11 DEF FastForwardRemote, Go
<1>12. CASE LoadMeta
  BY <1>12 DEF LoadMeta, Go, MarkerInv, TypeInv, TypeOK, Cycle
<1>13. CASE SkipReview
  BY <1>13 DEF SkipReview, Done, NoCycle
<1>14. CASE NothingToBringIn
  BY <1>14 DEF NothingToBringIn, BroughtIn, Go, NoCycle
<1>15. CASE WaitForFetch
  BY <1>15 DEF WaitForFetch, Done, NoCycle
<1>16. CASE BlockAsRewritten
  BY <1>16 DEF BlockAsRewritten, Done, NoCycle
<1>17. CASE Compare
  BY <1>17 DEF Compare, Go
<1>18. CASE CatchUp
  BY <1>18 DEF CatchUp, Go, Done, NoCycle
<1>19. CASE Advance
  BY <1>19 DEF Advance, Go, Done, NoCycle
<1>20. CASE CloneIsAhead
  BY <1>20 DEF CloneIsAhead, Go
<1>21. CASE AwaitOwnPush
  BY <1>21 DEF AwaitOwnPush, BroughtIn, Go, NoCycle
<1>22. CASE DirtyWaits
  BY <1>22 DEF DirtyWaits, Done, NoCycle
<1>23. CASE MergeGitHub
  <2>1. CASE BuildMerge(Tracked, TRUE)
    BY <1>23, <2>1, BuildMergeHolds DEF MergeGitHub
  <2>2. QED
    BY <1>23, <2>1 DEF MergeGitHub
<1>24. CASE RecordMerged
  BY <1>24 DEF RecordMerged, Go
<1>25. CASE PublishMerge
  BY <1>25 DEF PublishMerge, Go
<1>26. CASE QueueMerge
  BY <1>26 DEF QueueMerge, Go
<1>27. CASE MoveClone
  BY <1>27 DEF MoveClone, Done, NoCycle
<1>28. CASE Record
  <2>1. /\ stage' \in {"inStep", "inReview", "idle"}
        /\ cycle'.marker \in {cycle.marker, NoTip}
        /\ UNCHANGED <<remote, head>>
    <3>1. /\ BroughtIn(TRUE) \/ BroughtIn(FALSE) \/ Done
          /\ UNCHANGED <<remote, head>>
      BY <1>28 DEF Record
    <3>2. CASE Done
      BY <3>1, <3>2 DEF Done, NoCycle
    <3>3. CASE BroughtIn(TRUE)
      BY <3>1, <3>3 DEF BroughtIn, Go, NoCycle
    <3>4. CASE BroughtIn(FALSE)
      BY <3>1, <3>4 DEF BroughtIn, Go, NoCycle
    <3>5. QED
      BY <3>1, <3>2, <3>3, <3>4
  <2>2. QED
    BY <2>1
<1>29. CASE PendingRewrite
  BY <1>29 DEF PendingRewrite, Go, Done, NoCycle, TypeInv, TypeOK, Cycle
<1>30. CASE UpToDate
  BY <1>30 DEF UpToDate, Done, NoCycle
<1>31. CASE MergeBase
  <2>1. CASE BuildMerge(BaseTip(base), FALSE)
    BY <1>31, <2>1, BuildMergeHolds DEF MergeBase
  <2>2. QED
    BY <1>31, <2>1 DEF MergeBase
<1>32. CASE Rebase
  <2>1. Patches(Rebased(head, base)) = Patches(head)
    BY RebaseKeepsPatches DEF TypeInv, TypeOK
  <2>2. /\ stage' = "rebased" /\ head' = Rebased(head, base)
        /\ cycle'.from = head /\ cycle'.marker = cycle.marker
    BY <1>32 DEF Rebase, Go, TypeInv, TypeOK, Cycle
  <2>3. QED
    BY <2>1, <2>2
<1>33. CASE NotPublished
  BY <1>33 DEF NotPublished, Done, NoCycle
<1>34. CASE MarkHistoryRewritten
  BY <1>34 DEF MarkHistoryRewritten, Go
<1>35. CASE ForcePublish
  BY <1>35 DEF ForcePublish, Go, Done, NoCycle, TypeInv, TypeOK, Cycle
<1>36. CASE QueuePush
  BY <1>36 DEF QueuePush, Go, Done, NoCycle, TypeInv, TypeOK, Cycle
<1>37. CASE UpdateInReview
  <2>1. CASE BuildMerge(BaseTip(base), FALSE)
    BY <1>37, <2>1, BuildMergeHolds DEF UpdateInReview
  <2>2. CASE Done
    BY <2>2 DEF Done, NoCycle
  <2>3. QED
    BY <1>37, <2>1, <2>2 DEF UpdateInReview
<1>38. CASE Claim
  BY <1>38 DEF Claim
<1>39. CASE RewrittenRefusal
  BY <1>39 DEF RewrittenRefusal
<1>40. CASE ReadSha
  BY <1>40 DEF ReadSha
<1>41. CASE ReadSeen
  BY <1>41 DEF ReadSeen
<1>42. CASE Push
  BY <1>42 DEF Push, Land
<1>43. CASE StaleLease
  BY <1>43 DEF StaleLease
<1>44. CASE PushPastStaleLease
  BY <1>44 DEF PushPastStaleLease, Land
<1>45. CASE TryAgain
  BY <1>45 DEF TryAgain
<1>46. CASE GiveUp
  BY <1>46 DEF GiveUp
<1>47. CASE ClearMarker
  BY <1>47 DEF ClearMarker
<1>48. CASE RecordPushed
  BY <1>48 DEF RecordPushed
<1>49. CASE Crash
  BY <1>49 DEF Crash, Done, NoCycle
<1>50. CASE UNCHANGED vars
  BY <1>50 DEF vars
<1>51. QED
  BY <1>1, <1>2, <1>3, <1>4, <1>5, <1>6, <1>7, <1>8, <1>9, <1>10, <1>11, <1>12, <1>13, <1>14, <1>15, <1>16, <1>17, <1>18, <1>19, <1>20, <1>21, <1>22, <1>23, <1>24, <1>25, <1>26, <1>27, <1>28, <1>29, <1>30, <1>31, <1>32, <1>33, <1>34, <1>35, <1>36, <1>37, <1>38, <1>39, <1>40, <1>41, <1>42, <1>43, <1>44, <1>45, <1>46, <1>47, <1>48, <1>49, <1>50
     DEF Next, People, Api, Sync, Tasks

(* Only the task loop moves the push in hand. *)
LEMMA SyncLeavesPush ==
  ASSUME Sync
  PROVE  UNCHANGED pushVars
BY DEF Sync, Apart, Fetch, RecordSeen, LeaveHead, FastForwardRemote, LoadMeta, SkipReview, NothingToBringIn, WaitForFetch, BlockAsRewritten, Compare, CatchUp, Advance, CloneIsAhead, AwaitOwnPush, DirtyWaits, MergeGitHub, RecordMerged, PublishMerge, QueueMerge, MoveClone, Record, PendingRewrite, UpToDate, MergeBase, Rebase, NotPublished, MarkHistoryRewritten, ForcePublish, QueuePush, UpdateInReview

(* Nor do people and requests. *)
LEMMA RequestsLeavePush ==
  ASSUME People \/ Api
  PROVE  UNCHANGED pushVars
BY DEF People, Api, Elsewhere, Rewind, BaseAdvances, PushDirect, Save, Withdraw, Submit, SubmitRefused

(* A push lands in two ways only. *)
LEMMA OnlyPushesLand ==
  ASSUME [Next]_vars, Lands
  PROVE  Push \/ PushPastStaleLease
<1>1. CASE People \/ Api \/ Sync \/ UNCHANGED vars
  BY <1>1, SyncLeavesPush, RequestsLeavePush DEF Lands, vars, pushVars
<1>2. CASE Tasks
  BY <1>2 DEF Tasks, Lands, PushTo, PushDone, pushVars, Claim, RewrittenRefusal, ReadSha, ReadSeen, StaleLease, TryAgain, GiveUp, ClearMarker, RecordPushed
<1>3. CASE Crash
  BY <1>3 DEF Crash, PushDone, Lands
<1>4. QED
  BY <1>1, <1>2, <1>3 DEF Next

(* What a push holds on to survives every step. *)
LEMMA OutgoingStep ==
  ASSUME KeptInv, [Next]_vars
  PROVE  OutgoingInv'
<1> USE WorkStep, NoPatches
    DEF KeptInv, OutgoingInv, repoVars, metaVars, syncVars, pushVars,
        boundVars, auxVars, Elsewhere, Apart, Beside
<1>1. CASE UNCHANGED pushVars
  BY <1>1
<1>2. CASE Claim
  <2>1. pushing' = "named" /\ outgoing'.marker = marker
    BY <1>2 DEF Claim, PushTo, NoOutgoing
  <2>2. QED
    BY <2>1 DEF MarkerInv
<1>3. CASE ReadSha
  <2>1. /\ pushing = "named" /\ pushing' = "sized" /\ outgoing'.sha = remote
        /\ outgoing'.marker = outgoing.marker
    BY <1>3 DEF ReadSha, PushTo, TypeInv, TypeOK, Outgoing
  <2>2. QED
    BY <2>1
<1>4. CASE ReadSeen
  <2>1. /\ pushing = "sized" /\ pushing' = "ready"
        /\ outgoing'.sha = outgoing.sha /\ outgoing'.marker = outgoing.marker
    BY <1>4 DEF ReadSeen, PushTo, TypeInv, TypeOK, Outgoing
  <2>2. QED
    BY <2>1
<1>5. CASE StaleLease
  BY <1>5 DEF StaleLease, PushTo
<1>6. CASE Push \/ PushPastStaleLease
  BY <1>6 DEF Push, PushPastStaleLease, Land, PushTo
<1>7. CASE TryAgain \/ GiveUp \/ RecordPushed \/ Crash
  BY <1>7 DEF TryAgain, GiveUp, RecordPushed, Crash, PushDone
<1>8. CASE ClearMarker
  BY <1>8 DEF ClearMarker, PushTo
<1>9. CASE People \/ Api \/ Sync \/ RewrittenRefusal \/ UNCHANGED vars
  <2>1. UNCHANGED pushVars
    BY <1>9, SyncLeavesPush, RequestsLeavePush DEF RewrittenRefusal, vars
  <2>2. QED
    BY <1>1, <2>1
<1>10. QED
  BY <1>2, <1>3, <1>4, <1>5, <1>6, <1>7, <1>8, <1>9 DEF Next, Tasks

(* The inductive invariant: types, what the marker names, and what the sync  *)
(* loop and the push in hand hold on to between their steps.                 *)
THEOREM KeptInvariant == Spec => []KeptInv
<1>1. Init => KeptInv
  <2>1. SUFFICES ASSUME Init PROVE KeptInv
    OBVIOUS
  <2>2. TypeOK
    <3>1. gitHub \in TipOrNone /\ head \in Tip /\ earlier \in TipOrNone
          /\ fate \in [Direct -> Fate]
      BY <2>1 DEF Init, TipOrNone, Tip, Fate
    <3>2. 0 \in 0 .. MaxBase /\ 0 \in 0 .. MaxSubmits /\ 0 \in 0 .. MaxMishaps
      OBVIOUS
    <3>3. QED
      BY <2>1, <3>1, <3>2, EmptyRecords
         DEF Init, TypeOK, TipOrNone, Unlocked, PushStages
  <2>3. HandInv /\ MarkerInv /\ CycleInv /\ OutgoingInv
    BY <2>1, NoPatches
       DEF Init, HandInv, MarkerInv, CycleInv, OutgoingInv, NoCycle
  <2>4. QED
    BY <2>2, <2>3 DEF KeptInv, TypeInv
<1>2. KeptInv /\ [Next]_vars => KeptInv'
  BY TypeStep, HandStep, MarkerStep, CycleStep, OutgoingStep
     DEF KeptInv, TypeInv
<1>3. QED
  BY <1>1, <1>2, PTL DEF Spec

(* Every state of the branch's three repositories, its record and the two    *)
(* loops is well typed.                                                      *)
THEOREM TypeCorrect == Spec => []TypeOK
<1>1. KeptInv => TypeOK
  BY DEF KeptInv, TypeInv
<1>2. QED
  BY <1>1, KeptInvariant, PTL

(* Neither remote.git nor the clone ever loses a patch, whatever crashes,    *)
(* rewinds and direct pushes come between the steps of rebaseOneBranch,      *)
(* reconcileTrackedBranches and the submits.                                 *)
THEOREM WorkSurvives == Spec => WorkIsKept
<1>1. KeptInv /\ [Next]_vars =>
        [/\ Patches(remote) \subseteq Patches(remote')
         /\ Patches(head) \subseteq Patches(head')]_vars
  BY WorkStep
<1>2. QED
  BY <1>1, KeptInvariant, PTL DEF Spec, WorkIsKept

(* No push task takes a patch off GitHub that stands there when it lands.    *)
THEOREM PushesDeleteNothing == Spec => DirectPushesSurvive
<1>1. ASSUME KeptInv, [Next]_vars, Lands
      PROVE  Patches(gitHub) \subseteq Patches(gitHub')
  <2>1. CASE Push
    <3>1. gitHub' = outgoing.sha /\ pushing = "ready" /\ MayLand
      BY <2>1 DEF Push, Land
    <3>2. CASE outgoing.marker # NoTip
      BY <1>1, <3>1, <3>2 DEF MayLand, KeptInv, OutgoingInv
    <3>3. CASE outgoing.marker = NoTip
      BY <3>1, <3>3, ContainedPatches, NoPatches DEF MayLand, FastForwards
    <3>4. QED
      BY <3>2, <3>3
  <2>2. CASE PushPastStaleLease
    BY <2>2, ContainedPatches, NoPatches
       DEF PushPastStaleLease, Land, FastForwards
  <2>3. CASE ~Push /\ ~PushPastStaleLease
    BY <1>1, <2>3, OnlyPushesLand DEF Lands
  <2>4. QED
    BY <2>1, <2>2, <2>3
<1>2. KeptInv /\ [Next]_vars =>
        [Lands => Patches(gitHub) \subseteq Patches(gitHub')]_vars
  BY <1>1
<1>3. QED
  BY <1>2, KeptInvariant, PTL DEF Spec, DirectPushesSurvive
=============================================================================
