-------------------------- MODULE BranchDirectory --------------------------
(* One branch name: what stands at its path, the branch.json inside, the two *)
(* locks, and the requests and the worker that create, save, delete and      *)
(* clear it on several hosts: utils/occ-json-write.ts, branch-metadata.ts,   *)
(* branch-provisioning.ts, branch-workspace.ts, the delete handler of        *)
(* api/branch.ts and the worker's residue check in worker/git-sync.ts.       *)
(*                                                                           *)
(* A tree is a directory under whatever name it has: the one that was there  *)
(* at first, one per create, and those that the recursive mkdir of a save    *)
(* could make out of nothing.  Every save is one update; branch.json is the set of *)
(* updates it has taken, with its version and the writeId of its last write. *)
(* Reads inside a lock are fresh: making the marker in the directory has     *)
(* revalidated it.  One host's requests queue before the lock (withLock);    *)
(* that order is left open.                                                  *)
EXTENDS Naturals

CONSTANTS
  Saver,         \* requests that save branch.json
  Creator,       \* requests that create the branch
  Deleter,       \* requests that delete it
  Worker,        \* the worker's residue check and sweep
  First,         \* the tree that stood there at first
  Husk,          \* trees that a save could make (a bound)
  NoOne,         \* no marker
  Left,          \* a marker whose owner died
  NoTree,
  NoJson,        \* no branch.json
  MaxAttempts,   \* of a save that meets conflicts (10 in withOccRetry)
  MaxMishaps     \* crashes, failed renames, stale names, live markers taken

Tree == {First} \union Creator \union Husk
Holder == Saver \union Deleter
Mover == Creator \union {Worker}
Proc == Holder \union Mover

ASSUME ProcAssumption ==
  /\ Saver \intersect Deleter = {} /\ Saver \intersect Creator = {}
  /\ Deleter \intersect Creator = {} /\ Worker \notin Holder \union Creator
  /\ First \notin Creator \union Husk /\ Husk \intersect Creator = {}
  /\ NoTree \notin Tree
  /\ NoOne \notin Proc \union {Left} /\ Left \notin Proc

Updates == [version : Nat, edits : SUBSET Saver, by : {First} \union Creator \union Saver]

ASSUME SentinelAssumption ==
  NoJson \notin Updates /\ \A e \in SUBSET Saver : e # NoJson

ASSUME BoundAssumption ==
  MaxAttempts \in Nat \ {0} /\ MaxMishaps \in Nat

VARIABLES
  place,         \* where each tree is
  json,          \* its branch.json
  marker,        \* who holds branch.json.lock in it
  init,          \* who holds the branch's provisioning lock
  step,          \* where each process is, and what it was answered
  tree,          \* the tree in which a process took its lock or made its file
  read,          \* what a save loaded
  tries,         \* attempts of a save, renames of a create
  seen,          \* the directory a quarantine found at the name
  moved,         \* the one it moved aside
  intact,        \* no holder has lost branch.json's lock, or the tree under it
  mishaps

fileVars == <<place, json, marker>>
saveVars == <<tree, read>>
moveVars == <<seen, moved>>
vars == <<fileVars, init, step, saveVars, tries, moveVars, intact, mishaps>>

Places == {"unbuilt", "staged", "final", "aside", "trash", "gone"}
Inside == {"load", "prepare", "check", "rename", "verify", "link", "move"}
Finishing == {"ok", "fail"}
Answered == {"answered", "failed", "done"}
SaveSteps == {"idle", "waiting"} \union (Inside \ {"move"})
               \union Finishing \union Answered
DeleteSteps == {"idle", "waiting", "move"} \union Finishing \union Answered
MoveSteps == {"idle", "building", "locking", "publish", "inspect", "look",
              "aside", "judge", "unlock"} \union Answered

At(t) == place[t] = "final"
Vacant == \A t \in Tree : ~At(t)
Live(t) == json[t] # NoJson

(* What a save answers matters; any other request is over. *)
Outcome(p) ==
  IF p \notin Saver THEN "done" ELSE IF step[p] = "ok" THEN "answered" ELSE "failed"

GoTo(p, to) == step' = [step EXCEPT ![p] = to]

(* What stands at the path at first: nothing, a branch, or what a clone or a *)
(* delete killed in place left.                                              *)
Init ==
  /\ \E p \in {"unbuilt", "final"} :
       place = [t \in Tree |-> IF t = First THEN p ELSE "unbuilt"]
  /\ \E j \in {NoJson, [version |-> 1, edits |-> {}, by |-> First]} :
       json = [t \in Tree |-> IF t = First /\ place[First] = "final" THEN j
                                ELSE NoJson]
  /\ marker = [t \in Tree |-> NoOne]
  /\ init = NoOne
  /\ step = [p \in Proc |-> "idle"]
  /\ tree = [p \in Holder |-> NoTree]
  /\ read = [s \in Saver |-> NoJson]
  /\ tries = [p \in Saver \union Creator |-> 0]
  /\ seen = [m \in Mover |-> NoTree] /\ moved = [m \in Mover |-> NoTree]
  /\ intact = TRUE
  /\ mishaps = 0

-----------------------------------------------------------------------------
(* withOccFileLock: a marker made by mkdir in .canopy-meta.                  *)

(* A fault of LockFree that UpdatesSurvive excludes: the JSON file is        *)
(* written under its version check alone.                                    *)
LockAlwaysFree(t) == t \in Tree

LockFree(t) == marker[t] \in {NoOne, Left}

(* The marker of a dead holder is stale after 10 s; one of a live holder can *)
(* look so through the attribute cache.                                      *)
TakeLock(p, next) ==
  /\ step[p] = "waiting"
  /\ \E t \in Tree :
       /\ At(t)
       /\ \/ LockFree(t) /\ UNCHANGED <<intact, mishaps>>
          \/ /\ ~LockFree(t)
             /\ mishaps < MaxMishaps /\ mishaps' = mishaps + 1
             /\ intact' = FALSE
       /\ marker' = [marker EXCEPT ![t] = p]
       /\ tree' = [tree EXCEPT ![p] = t]
  /\ GoTo(p, next)
  /\ UNCHANGED <<place, json, init, read, tries, moveVars>>

(* A fault of Refuse that NothingHalfMade excludes: the lock's mkdir is      *)
(* recursive, and makes the branch's path anew.                              *)
RefuseRecreates(p) ==
  /\ step[p] = "waiting" /\ Vacant
  /\ \E h \in Husk : place[h] = "unbuilt" /\ place' = [place EXCEPT ![h] = "final"]
  /\ UNCHANGED step
  /\ UNCHANGED <<json, marker, init, saveVars, tries, moveVars, intact, mishaps>>

(* ENOENT when the tree is gone: the lock makes its own directory only.      *)
(* ELOCKED for longer than a stale marker lasts: a live holder.              *)
Refuse(p) ==
  /\ step[p] = "waiting"
  /\ Vacant \/ \E t \in Tree : At(t) /\ ~LockFree(t)
  /\ GoTo(p, Outcome(p))
  /\ UNCHANGED <<fileVars, init, saveVars, tries, moveVars, intact, mishaps>>

(* rmdir by path, whoever's marker is there by now.  A holder whose refresh  *)
(* timer has found its marker gone or another's does not remove it.          *)
Forget(p) ==
  /\ tree' = [tree EXCEPT ![p] = IF p \in Saver /\ step[p] = "ok" THEN @ ELSE NoTree]
  /\ IF p \in Saver
       THEN /\ read' = [read EXCEPT ![p] = NoJson]
            /\ tries' = [tries EXCEPT ![p] = 0]
       ELSE UNCHANGED <<read, tries>>

Release(p) ==
  /\ step[p] \in Finishing
  /\ \/ \E t \in Tree :
          /\ At(t) /\ marker[t] # NoOne
          /\ marker' = [marker EXCEPT ![t] = NoOne]
          /\ intact' = (intact /\ marker[t] \in {p, Left})
     \/ /\ \A t \in Tree : At(t) => marker[t] # p
        /\ UNCHANGED <<marker, intact>>
  /\ GoTo(p, Outcome(p))
  /\ Forget(p)
  /\ UNCHANGED <<place, json, init, moveVars, mishaps>>

-----------------------------------------------------------------------------
(* BranchMetadataFileManager.update over writeOccJsonFile.                   *)

SaverRest == <<init, moveVars, intact, mishaps>>

(* The request resolves its branch, which is live then, and stats its root;  *)
(* a branch that goes before the stat is refused as one that goes after it.  *)
Open(s) ==
  /\ step[s] = "idle"
  /\ \E t \in Tree : At(t) /\ Live(t)
  /\ GoTo(s, "waiting")
  /\ UNCHANGED <<fileVars, saveVars, tries, SaverRest>>

(* compute may decline to write where there is no branch.json; one that does *)
(* not lays defaults.                                                        *)
Load(s) ==
  /\ step[s] = "load"
  /\ tries' = [tries EXCEPT ![s] = @ + 1]
  /\ \/ \E t \in Tree :
          /\ At(t) /\ read' = [read EXCEPT ![s] = json[t]]
          /\ \/ GoTo(s, "prepare")
             \/ ~Live(t) /\ GoTo(s, "fail")
     \/ /\ Vacant /\ read' = [read EXCEPT ![s] = NoJson]
        /\ GoTo(s, "prepare") \/ GoTo(s, "fail")
  /\ UNCHANGED <<fileVars, tree, SaverRest>>

(* mkdir, which is recursive here, and the temporary file beside the target. *)
Prepare(s) ==
  /\ step[s] = "prepare"
  /\ IF Vacant
       THEN \E h \in Husk :
              /\ place[h] = "unbuilt"
              /\ place' = [place EXCEPT ![h] = "final"]
              /\ tree' = [tree EXCEPT ![s] = h]
       ELSE /\ \E t \in Tree : At(t) /\ tree' = [tree EXCEPT ![s] = t]
            /\ UNCHANGED place
  /\ GoTo(s, IF read[s] = NoJson THEN "link" ELSE "check")
  /\ UNCHANGED <<json, marker, read, tries, SaverRest>>

(* A fault of Conflict that TypeOK excludes: the next attempt does not load. *)
ConflictWithoutReload(s) ==
  GoTo(s, IF tries[s] < MaxAttempts THEN "check" ELSE "fail")

(* OccWriteConflictError: withOccRetry loads again, up to its last attempt. *)
Conflict(s) ==
  GoTo(s, IF tries[s] < MaxAttempts THEN "load" ELSE "fail")

Check(s) ==
  /\ step[s] = "check"
  /\ IF \E t \in Tree : At(t) /\ Live(t) /\ json[t].version = read[s].version
       THEN GoTo(s, "rename") ELSE Conflict(s)
  /\ UNCHANGED <<fileVars, saveVars, tries, SaverRest>>

(* rename needs the temporary file where the path leads by now. *)
Write(s, version, to) ==
  /\ json' = [json EXCEPT ![tree[s]] =
       [version |-> version, by |-> s,
        edits |-> (IF read[s] = NoJson THEN {} ELSE read[s].edits) \union {s}]]
  /\ GoTo(s, to)

Rename(s) ==
  /\ step[s] = "rename"
  /\ IF At(tree[s])
       THEN Write(s, read[s].version + 1, "verify")
       ELSE GoTo(s, "fail") /\ UNCHANGED json
  /\ UNCHANGED <<place, marker, saveVars, tries, SaverRest>>

Verify(s) ==
  /\ step[s] = "verify"
  /\ IF \E t \in Tree : At(t) /\ Live(t)
       THEN IF \E t \in Tree : At(t) /\ Live(t) /\ json[t].by = s
              THEN GoTo(s, "ok") ELSE Conflict(s)
       ELSE GoTo(s, "fail")
  /\ UNCHANGED <<fileVars, saveVars, tries, SaverRest>>

(* link is refused with EEXIST where there is a branch.json. *)
Link(s) ==
  /\ step[s] = "link"
  /\ IF ~At(tree[s]) THEN GoTo(s, "fail") /\ UNCHANGED json
     ELSE IF Live(tree[s]) THEN Conflict(s) /\ UNCHANGED json
     ELSE Write(s, 1, "ok")
  /\ UNCHANGED <<place, marker, saveVars, tries, SaverRest>>

Save(s) ==
  \/ Open(s) \/ TakeLock(s, "load") \/ Refuse(s) \/ Load(s)
  \/ Prepare(s) \/ Check(s) \/ Rename(s) \/ Verify(s) \/ Link(s) \/ Release(s)

-----------------------------------------------------------------------------
(* deleteBranchHandler: the tree leaves its name under branch.json's lock,   *)
(* and the marker goes with it; it is removed there, or by the sweep.        *)

(* A fault of OpenToDelete that ImplementsRecord excludes: the tree is moved  *)
(* without waiting for branch.json's lock.                                   *)
OpenToDeleteUnlocked(d) ==
  /\ step[d] = "idle"
  /\ \E t \in Tree : At(t) /\ Live(t)
  /\ GoTo(d, "move")
  /\ UNCHANGED <<fileVars, saveVars, tries, SaverRest>>

OpenToDelete(d) ==
  /\ step[d] = "idle"
  /\ \E t \in Tree : At(t) /\ Live(t)
  /\ GoTo(d, "waiting")
  /\ UNCHANGED <<fileVars, saveVars, tries, SaverRest>>

MoveOut(d) ==
  /\ step[d] = "move"
  /\ \/ \E t \in Tree :
          /\ At(t) /\ place' = [place EXCEPT ![t] = "gone"]
          /\ marker' = [marker EXCEPT ![t] = NoOne]
          /\ json' = [json EXCEPT ![t] = NoJson]
     \/ Vacant /\ UNCHANGED fileVars
  /\ GoTo(d, "ok")
  /\ UNCHANGED <<saveVars, tries, SaverRest>>

(* The rename fails: branch.json is unlinked instead, and the worker is left *)
(* to clear the rest.  A save already on its way finds no branch.json, and   *)
(* may lay defaults over the deleted branch.                                 *)
UnlinkOnly(d) ==
  /\ step[d] = "move"
  /\ mishaps < MaxMishaps /\ mishaps' = mishaps + 1
  /\ \E t \in Tree : At(t) /\ json' = [json EXCEPT ![t] = NoJson]
  /\ intact' = (intact /\ \A s \in Saver : step[s] # "waiting")
  /\ GoTo(d, "ok")
  /\ UNCHANGED <<place, marker, init, saveVars, tries, moveVars>>

Delete(d) ==
  \/ OpenToDelete(d) \/ TakeLock(d, "move") \/ Refuse(d) \/ MoveOut(d)
  \/ UnlinkOnly(d) \/ Release(d)

-----------------------------------------------------------------------------
(* quarantineResidueAt, run under the provisioning lock.                     *)

MoverRest == <<marker, saveVars, intact, mishaps>>

(* A create tries its rename again; the worker is done with the name. *)
Cleared(m) == IF m = Worker THEN "unlock" ELSE "publish"

LetGo(m) ==
  seen' = [seen EXCEPT ![m] = NoTree] /\ moved' = [moved EXCEPT ![m] = NoTree]

(* lstat of the name. *)
Look(m) ==
  /\ step[m] = "look"
  /\ \/ /\ \E t \in Tree : At(t) /\ seen' = [seen EXCEPT ![m] = t]
        /\ GoTo(m, "aside")
     \/ Vacant /\ GoTo(m, Cleared(m)) /\ UNCHANGED seen
  /\ UNCHANGED <<place, json, init, tries, moved, MoverRest>>

(* Through a stale dentry: a directory that is no longer there. *)
LookStale(m) ==
  /\ step[m] = "look"
  /\ mishaps < MaxMishaps /\ mishaps' = mishaps + 1
  /\ seen' = [seen EXCEPT ![m] = NoTree]
  /\ GoTo(m, "aside")
  /\ UNCHANGED <<place, json, marker, init, saveVars, tries, moved, intact>>

(* rename to .repair-*, of whatever is there by now.  A save or a delete     *)
(* that holds branch.json's lock inside loses its path.                      *)
MoveAside(m) ==
  /\ step[m] = "aside"
  /\ \/ /\ Vacant /\ GoTo(m, Cleared(m))
        /\ LetGo(m) /\ UNCHANGED <<place, intact>>
     \/ \E t \in Tree :
          /\ At(t)
          /\ place' = [place EXCEPT ![t] = "aside"]
          /\ moved' = [moved EXCEPT ![m] = t] /\ UNCHANGED seen
          /\ intact' = (intact /\ LockFree(t))
          /\ GoTo(m, "judge")
  /\ UNCHANGED <<json, marker, init, saveVars, tries, mishaps>>

(* A fault of Condemn that LiveBranchesStay excludes: what was residue when  *)
(* it was looked at is trashed.                                              *)
CondemnUnseen(m) == moved[m] \in Tree

(* Only what arrived is judged: the directory looked at, still residue, and  *)
(* quiet for long enough (left open).  Anything else goes straight back, if  *)
(* the name is free.                                                         *)
Condemn(m) == ~Live(moved[m]) /\ moved[m] = seen[m]

Trash(m) ==
  /\ step[m] = "judge" /\ Condemn(m)
  /\ place' = [place EXCEPT ![moved[m]] = "trash"]
  /\ LetGo(m)
  /\ GoTo(m, Cleared(m))
  /\ UNCHANGED <<json, init, tries, MoverRest>>

MoveBack(m) ==
  /\ step[m] = "judge"
  /\ place' = IF Vacant THEN [place EXCEPT ![moved[m]] = "final"] ELSE place
  /\ LetGo(m)
  /\ GoTo(m, "unlock")
  /\ UNCHANGED <<json, init, tries, MoverRest>>

Quarantine(m) ==
  \/ Look(m) \/ LookStale(m) \/ MoveAside(m) \/ Trash(m) \/ MoveBack(m)

-----------------------------------------------------------------------------
(* provisionBranch: built in a sibling, published by one rename.             *)

(* A fault of InitFree that NothingIsLeftBehind excludes: a dead owner's      *)
(* marker is never taken over.                                               *)
InitNeverStale == init = NoOne

InitFree == init \in {NoOne, Left}

(* The advisory look: a live branch is answered as it is, recent residue is  *)
(* busy.                                                                     *)
Begin(c) ==
  /\ step[c] = "idle"
  /\ \/ /\ \E t \in Tree : At(t) /\ Live(t)
        /\ GoTo(c, "done")
     \/ /\ \E t \in Tree : At(t) /\ ~Live(t)
        /\ GoTo(c, "done") \/ GoTo(c, "building")
     \/ Vacant /\ GoTo(c, "building")
  /\ UNCHANGED <<place, json, init, tries, moveVars, MoverRest>>

(* The clone and its first branch.json, unless a competitor has published. *)
Build(c) ==
  /\ step[c] = "building"
  /\ \/ /\ place' = [place EXCEPT ![c] = "staged"]
        /\ json' = [json EXCEPT ![c] = [version |-> 1, edits |-> {}, by |-> c]]
        /\ GoTo(c, "locking")
     \/ /\ \E t \in Tree : At(t) /\ Live(t)
        /\ GoTo(c, "done") /\ UNCHANGED <<place, json>>
  /\ UNCHANGED <<init, tries, moveVars, MoverRest>>

(* The bounded wait, shorter than a dead holder's marker lasts. *)
LockName(m, next) ==
  /\ step[m] = "locking" /\ InitFree
  /\ init' = m
  /\ GoTo(m, next)
  /\ UNCHANGED <<place, json, tries, moveVars, MoverRest>>

NameBusy(m) ==
  /\ step[m] = "locking" /\ init # NoOne
  /\ place' = IF m = Worker THEN place ELSE [place EXCEPT ![m] = "gone"]
  /\ GoTo(m, IF m = Worker THEN "idle" ELSE "done")
  /\ UNCHANGED <<json, init, tries, moveVars, MoverRest>>

(* One rename; it is refused where anything stands at the name. *)
Publish(c) ==
  /\ step[c] = "publish" /\ tries[c] < 2
  /\ tries' = [tries EXCEPT ![c] = @ + 1]
  /\ IF Vacant THEN /\ place' = [place EXCEPT ![c] = "final"]
                    /\ GoTo(c, "unlock")
     ELSE GoTo(c, "inspect") /\ UNCHANGED place
  /\ UNCHANGED <<json, init, moveVars, MoverRest>>

(* What is in its way by now: a live branch has won; residue, or nothing, is *)
(* cleared and the rename tried once more.                                   *)
InspectBlocking(c) ==
  /\ step[c] = "inspect"
  /\ GoTo(c, IF \E t \in Tree : At(t) /\ Live(t) THEN "unlock" ELSE "look")
  /\ UNCHANGED <<place, json, init, tries, moveVars, MoverRest>>

GiveUp(c) ==
  /\ step[c] = "publish" /\ tries[c] = 2
  /\ GoTo(c, "unlock")
  /\ UNCHANGED <<place, json, init, tries, moveVars, MoverRest>>

(* The lock is released and an unpublished build removed.  A marker that was *)
(* never live elsewhere is still its owner's.                                *)
Unlock(m) ==
  /\ step[m] = "unlock"
  /\ init' = NoOne
  /\ place' = IF m # Worker /\ place[m] = "staged"
                THEN [place EXCEPT ![m] = "gone"] ELSE place
  /\ GoTo(m, IF m = Worker THEN "idle" ELSE "done")
  /\ tries' = [p \in Saver \union Creator |-> IF p = m THEN 0 ELSE tries[p]]
  /\ UNCHANGED <<json, moveVars, MoverRest>>

Create(c) ==
  \/ Begin(c) \/ Build(c) \/ LockName(c, "publish") \/ NameBusy(c)
  \/ Publish(c) \/ InspectBlocking(c) \/ GiveUp(c) \/ Quarantine(c) \/ Unlock(c)

-----------------------------------------------------------------------------
(* The worker's residue check and its sweep of what killed processes left.   *)

(* Looked at without the lock: a create may replace it before it is taken.   *)
Spot ==
  /\ step[Worker] = "idle"
  /\ \E t \in Tree : At(t) /\ ~Live(t)
  /\ GoTo(Worker, "locking")
  /\ UNCHANGED <<place, json, init, tries, moveVars, MoverRest>>

InHand(t) == \E m \in Mover : step[m] = "judge" /\ moved[m] = t

(* recoverRepairDir, on what has been aside for 20 minutes: back to its name *)
(* if it is a branch and the name is free, to the trash otherwise.           *)
Sweep(t) ==
  /\ step[Worker] = "idle"
  /\ place[t] = "aside" /\ ~InHand(t)
  /\ \/ /\ Live(t) /\ InitFree /\ Vacant
        /\ place' = [place EXCEPT ![t] = "final"]
     \/ /\ Live(t) => InitFree /\ ~Vacant
        /\ place' = [place EXCEPT ![t] = "trash"]
  /\ UNCHANGED <<json, init, step, tries, moveVars, MoverRest>>

Clear ==
  \/ Spot \/ LockName(Worker, "look") \/ NameBusy(Worker)
  \/ Quarantine(Worker) \/ Unlock(Worker)
  \/ \E t \in Tree : Sweep(t)

-----------------------------------------------------------------------------
(* A container or the worker dies; its markers stay until they are stale,    *)
(* its build until the sweep, and the worker is started again.  What a       *)
(* quarantine had in hand is aside until the sweep, and the name is free     *)
(* meanwhile.                                                                *)
Crash(p) ==
  /\ step[p] \notin {"idle"} \union Answered
  /\ mishaps < MaxMishaps /\ mishaps' = mishaps + 1
  /\ marker' = [t \in Tree |-> IF marker[t] = p THEN Left ELSE marker[t]]
  /\ init' = IF init = p THEN Left ELSE init
  /\ place' = IF p \in Creator /\ place[p] = "staged"
                THEN [place EXCEPT ![p] = "gone"] ELSE place
  /\ intact' = (intact /\ ~(p \in Mover /\ step[p] = "judge" /\ Live(moved[p])))
  /\ GoTo(p, IF p = Worker THEN "idle" ELSE IF p \in Saver THEN "failed" ELSE "done")
  /\ IF p \in Mover THEN LetGo(p) ELSE UNCHANGED moveVars
  /\ IF p \in Holder THEN Forget(p)
     ELSE /\ tries' = [q \in Saver \union Creator |-> IF q = p THEN 0 ELSE tries[q]]
          /\ UNCHANGED saveVars
  /\ UNCHANGED json

Next ==
  \/ \E s \in Saver : Save(s)
  \/ \E d \in Deleter : Delete(d)
  \/ \E c \in Creator : Create(c)
  \/ Clear
  \/ \E p \in Proc : Crash(p)

Spec == Init /\ [][Next]_vars

(* The worker runs its check and its sweep every cycle (scheduleLoop), and   *)
(* ends its own quarantines; a dead holder's marker becomes stale and        *)
(* residue that nobody touches quiet.  A create that was begun goes on until *)
(* it answers or dies; nothing rests on a save or a delete going on.         *)
Fairness ==
  /\ WF_vars(\E c \in Creator : step[c] # "idle" /\ Create(c))
  /\ WF_vars(Clear)
  /\ SF_vars(LockName(Worker, "look"))
  /\ SF_vars(Trash(Worker))
  /\ SF_vars(\E t \in Tree : Sweep(t))

FairSpec == Spec /\ Fairness

-----------------------------------------------------------------------------
(* Types. *)
TypeOK ==
  /\ place \in [Tree -> Places]
  /\ json \in [Tree -> Updates \union {NoJson}]
  /\ marker \in [Tree -> Holder \union {NoOne, Left}]
  /\ init \in Mover \union {NoOne, Left}
  /\ step \in [Proc -> SaveSteps \union DeleteSteps \union MoveSteps]
  /\ \A s \in Saver : step[s] \in SaveSteps
  /\ \A d \in Deleter : step[d] \in DeleteSteps
  /\ \A m \in Mover : step[m] \in MoveSteps
  /\ tree \in [Holder -> Tree \union {NoTree}]
  /\ \A p \in Holder : step[p] \in Inside => tree[p] \in Tree
  /\ read \in [Saver -> Updates \union {NoJson}]
  /\ \A s \in Saver : step[s] \in {"check", "rename"} => read[s] # NoJson
  /\ tries \in [Saver \union Creator -> Nat]
  /\ seen \in [Mover -> Tree \union {NoTree}]
  /\ moved \in [Mover -> Tree \union {NoTree}]
  /\ \A m \in Mover : step[m] = "judge" => moved[m] \in Tree
  /\ intact \in BOOLEAN
  /\ mishaps \in 0..MaxMishaps

(* A save that was answered is in branch.json for as long as that branch.json *)
(* lives, whatever other saves, deletes, creates and quarantines do           *)
(* meanwhile, while no holder has lost its lock or its path (branch-          *)
(* metadata.ts:60, occ-json-write.ts:66).                                     *)
UpdatesSurvive ==
  intact => \A s \in Saver :
    step[s] = "answered" /\ Live(tree[s]) => s \in json[tree[s]].edits

(* [PROV-1]: what stands at the path was built elsewhere and renamed there    *)
(* with its branch.json; no save has made the directory or the first          *)
(* branch.json of a deleted branch (branch-metadata.ts:156).                  *)
NothingHalfMade ==
  intact => /\ \A h \in Husk : ~At(h)
            /\ \A t \in Tree : Live(t) /\ json[t].version = 1 => json[t].edits = {}

(* A live branch that a quarantine took for residue is not trashed, and is    *)
(* aside only in the hands of the one that will put it back                   *)
(* (branch-provisioning.ts:299).                                              *)
LiveBranchesStay ==
  intact => \A t \in Tree : Live(t) =>
    place[t] # "trash" /\ (place[t] = "aside" => InHand(t))

(* "The worker quarantines what is left" (api/branch.ts:908): whoever died,  *)
(* residue does not keep the branch's name for good, and what a quarantine   *)
(* moved aside does not stay there.                                          *)
Tidy == \A t \in Tree : place[t] # "aside" /\ (At(t) => Live(t))

NothingIsLeftBehind == []<>Tidy

(* To everyone who holds to the lock, the branch is one record that single    *)
(* steps create, update and delete.  While a quarantine looks at it, it is    *)
(* the record all the same.                                                   *)
Record ==
  IF \E t \in Tree : place[t] \in {"final", "aside"} /\ Live(t)
    THEN json[CHOOSE t \in Tree : place[t] \in {"final", "aside"} /\ Live(t)].edits
    ELSE NoJson

Promise == INSTANCE BranchRecord WITH
  Update <- Saver, Absent <- NoJson, record <- Record

ImplementsRecord == Promise!Spec
=============================================================================
