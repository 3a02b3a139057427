------------------------ MODULE BranchDirectoryProofs ------------------------
(* Proofs about BranchDirectory, for any saves, creates, deletes, attempts,  *)
(* crashes, failed renames, stale names and takeovers.                       *)
EXTENDS BranchDirectory, TLAPS

USE ProcAssumption, BoundAssumption

(* The steps of a mover that holds the provisioning lock. *)
Naming == {"publish", "inspect", "look", "aside", "judge", "unlock"}

(* Names and the provisioning lock: what stands whoever loses branch.json's  *)
(* lock.                                                                     *)
NameInv ==
  /\ \A t, u \in Tree : At(t) /\ At(u) => t = u
  /\ \A m \in Mover : step[m] \in Naming => init = m
  /\ \A m \in Mover : step[m] = "judge" => place[moved[m]] = "aside"
  /\ \A p \in Holder : tree[p] # NoTree => place[tree[p]] \notin {"unbuilt", "staged"}

(* A create's own tree, until it is published. *)
BuildInv ==
  /\ \A c \in Creator : step[c] \in {"idle", "building"} => place[c] = "unbuilt"
  /\ \A c \in Creator :
       step[c] \in (Naming \ {"unlock"}) \union {"locking"} => place[c] = "staged"
  /\ \A t \in Tree : place[t] = "staged" => Live(t) /\ json[t].edits = {}
  /\ \A t \in Tree : Live(t) => json[t].version > 0

(* A holder of branch.json's lock stands where it took it, alone. *)
LockInv ==
  \A p \in Holder : step[p] \in Inside => At(tree[p]) /\ marker[tree[p]] = p

(* A save inside the lock has a branch.json before it, which is still what   *)
(* it loaded; one that has written is in it.                                 *)
SaveInv ==
  \A s \in Saver :
    /\ step[s] \in Inside => Live(tree[s]) /\ step[s] # "link"
    /\ step[s] \in {"prepare", "check", "rename"} => read[s] = json[tree[s]]
    /\ step[s] \in {"verify", "ok", "answered"} =>
         tree[s] # NoTree /\ (Live(tree[s]) => s \in json[tree[s]].edits)

(* No save waits at residue: the one that would lay defaults over it.  *)
WaitInv ==
  \A s \in Saver : step[s] = "waiting" =>
    \A t \in Tree : At(t) \/ InHand(t) => Live(t)

(* While a quarantine has a tree in hand, its name is free. *)
HandInv == \A m \in Mover : step[m] = "judge" => Vacant

HuskInv == \A h \in Husk : place[h] = "unbuilt"

FirstInv == \A t \in Tree : Live(t) /\ json[t].version = 1 => json[t].edits = {}

StayInv ==
  \A t \in Tree : Live(t) =>
    place[t] # "trash" /\ (place[t] = "aside" => InHand(t))

QuietInv ==
  LockInv /\ SaveInv /\ WaitInv /\ HandInv /\ HuskInv /\ FirstInv /\ StayInv

DirectoryInv == TypeOK /\ NameInv /\ BuildInv /\ (intact => QuietInv)
-----------------------------------------------------------------------------
(* Steps. *)

(* Next, action by action. *)
LEMMA NextSteps ==
  ASSUME Next
  PROVE  \/ \E s \in Saver : Open(s) \/ TakeLock(s, "load") \/ Load(s) \/ Prepare(s)
                              \/ Check(s) \/ Rename(s) \/ Verify(s) \/ Link(s)
         \/ \E d \in Deleter : OpenToDelete(d) \/ TakeLock(d, "move")
                                \/ MoveOut(d) \/ UnlinkOnly(d)
         \/ \E p \in Holder : Refuse(p) \/ Release(p)
         \/ \E m \in Mover : Look(m) \/ LookStale(m) \/ MoveAside(m) \/ Trash(m)
                              \/ MoveBack(m) \/ NameBusy(m) \/ Unlock(m)
         \/ \E c \in Creator : Begin(c) \/ Build(c) \/ LockName(c, "publish")
                                \/ Publish(c) \/ InspectBlocking(c) \/ GiveUp(c)
         \/ Spot \/ LockName(Worker, "look") \/ \E t \in Tree : Sweep(t)
         \/ \E p \in Proc : Crash(p)
BY DEF Next, Save, Delete, Create, Quarantine, Clear, Holder, Mover

(* Types are kept. *)
LEMMA TypeStep ==
  ASSUME TypeOK, [Next]_vars
  PROVE  TypeOK'
<1> USE DEF TypeOK, GoTo, Holder, Mover, Proc, Tree, Places, Inside, Finishing,
        Answered, SaveSteps, DeleteSteps, MoveSteps, fileVars, saveVars, moveVars
<1>1. ASSUME NEW s \in Saver, Open(s) \/ Check(s) \/ Verify(s) PROVE TypeOK'
  BY <1>1 DEF Open, Check, Verify, Conflict, SaverRest
<1>2. ASSUME NEW s \in Saver, TakeLock(s, "load") PROVE TypeOK'
  <2>1. PICK t \in Tree :
          /\ marker' = [marker EXCEPT ![t] = s] /\ tree' = [tree EXCEPT ![s] = t]
          /\ \/ UNCHANGED <<intact, mishaps>>
             \/ mishaps < MaxMishaps /\ mishaps' = mishaps + 1 /\ intact' = FALSE
    BY <1>2 DEF TakeLock
  <2>2. step' = [step EXCEPT ![s] = "load"] /\ UNCHANGED <<place, json, init, read, tries, seen, moved>>
    BY <1>2 DEF TakeLock
  <2>3. intact' \in BOOLEAN
    BY <2>1, Zenon
  <2>4. mishaps' \in 0..MaxMishaps
    BY <2>1
  <2>5. QED
    BY <2>1, <2>2, <2>3, <2>4
<1>3. ASSUME NEW s \in Saver, Load(s) PROVE TypeOK'
  <2>1. read' \in [Saver -> Updates \union {NoJson}]
    BY <1>3 DEF Load
  <2>2. tries' \in [Saver \union Creator -> Nat]
    BY <1>3 DEF Load
  <2>4. PICK to \in {"prepare", "fail"} : step' = [step EXCEPT ![s] = to]
    BY <1>3 DEF Load
  <2>5. \A r \in Saver : step'[r] \in {"check", "rename"} => read'[r] # NoJson
    BY <1>3, <2>4 DEF Load
  <2>3. step[s] = "load"
    BY <1>3 DEF Load
  <2>6. UNCHANGED <<place, json, marker, init, tree, seen, moved, intact, mishaps>>
    BY <1>3 DEF Load, SaverRest
  <2>7. QED
    BY <2>1, <2>2, <2>3, <2>4, <2>5, <2>6
<1>4. ASSUME NEW s \in Saver, Prepare(s) PROVE TypeOK'
  BY <1>4 DEF Prepare, SaverRest
<1>5. ASSUME NEW s \in Saver, Rename(s) \/ Link(s) PROVE TypeOK'
  BY <1>5 DEF Rename, Link, Write, Conflict, SaverRest, Updates
<1>6. ASSUME NEW d \in Deleter, OpenToDelete(d) \/ MoveOut(d) \/ UnlinkOnly(d)
      PROVE  TypeOK'
  <2>1. CASE OpenToDelete(d)
    BY <2>1 DEF OpenToDelete, SaverRest
  <2>2. CASE MoveOut(d)
    BY <2>2 DEF MoveOut, SaverRest
  <2>3. CASE UnlinkOnly(d)
    <3>1. intact' \in BOOLEAN
      BY <2>3 DEF UnlinkOnly
    <3>2. json' \in [Tree -> Updates \union {NoJson}]
      BY <2>3 DEF UnlinkOnly
    <3>3. mishaps' \in 0..MaxMishaps
      BY <2>3 DEF UnlinkOnly
    <3>4. QED
      BY <2>3, <3>1, <3>2, <3>3 DEF UnlinkOnly
  <2>4. QED
    BY <1>6, <2>1, <2>2, <2>3
<1>7. ASSUME NEW d \in Deleter, TakeLock(d, "move") PROVE TypeOK'
  <2>1. PICK t \in Tree :
          /\ marker' = [marker EXCEPT ![t] = d] /\ tree' = [tree EXCEPT ![d] = t]
          /\ \/ UNCHANGED <<intact, mishaps>>
             \/ mishaps < MaxMishaps /\ mishaps' = mishaps + 1 /\ intact' = FALSE
    BY <1>7 DEF TakeLock
  <2>2. step' = [step EXCEPT ![d] = "move"] /\ UNCHANGED <<place, json, init, read, tries, seen, moved>>
    BY <1>7 DEF TakeLock
  <2>3. intact' \in BOOLEAN
    BY <2>1, Zenon
  <2>4. mishaps' \in 0..MaxMishaps
    BY <2>1
  <2>5. QED
    BY <2>1, <2>2, <2>3, <2>4
<1>8. ASSUME NEW p \in Holder, Refuse(p) PROVE TypeOK'
  BY <1>8 DEF Refuse, Outcome
<1>9. ASSUME NEW p \in Holder, Release(p) PROVE TypeOK'
  <2>1. intact' \in BOOLEAN
    BY <1>9 DEF Release
  <2>2. marker' \in [Tree -> Holder \union {NoOne, Left}]
    BY <1>9 DEF Release
  <2>3. QED
    BY <1>9, <2>1, <2>2 DEF Release, Outcome, Forget
<1>10. ASSUME NEW m \in Mover, Look(m) \/ LookStale(m) PROVE TypeOK'
  BY <1>10 DEF Look, LookStale, Cleared, MoverRest
<1>11. ASSUME NEW m \in Mover, MoveAside(m) PROVE TypeOK'
  <2>1. intact' \in BOOLEAN
    BY <1>11 DEF MoveAside
  <2>2. place' \in [Tree -> Places] /\ moved' \in [Mover -> Tree \union {NoTree}]
        /\ seen' \in [Mover -> Tree \union {NoTree}]
    BY <1>11 DEF MoveAside, LetGo
  <2>3. \A n \in Mover : step'[n] = "judge" => moved'[n] \in Tree
    BY <1>11 DEF MoveAside, Cleared, LetGo
  <2>4. UNCHANGED <<json, marker, init, tree, read, tries, mishaps>>
    BY <1>11 DEF MoveAside
  <2>5. PICK to \in {"judge", "unlock", "publish"} : step' = [step EXCEPT ![m] = to]
    BY <1>11 DEF MoveAside, Cleared
  <2>6. QED
    BY <2>1, <2>2, <2>3, <2>4, <2>5
<1>12. ASSUME NEW m \in Mover, Trash(m) \/ MoveBack(m) PROVE TypeOK'
  BY <1>12 DEF Trash, MoveBack, Cleared, LetGo, MoverRest
<1>13. ASSUME NEW m \in Mover, NameBusy(m) \/ Unlock(m) PROVE TypeOK'
  BY <1>13 DEF NameBusy, Unlock, MoverRest
<1>14. ASSUME NEW c \in Creator, Begin(c) \/ InspectBlocking(c) \/ GiveUp(c)
       PROVE  TypeOK'
  BY <1>14 DEF Begin, InspectBlocking, GiveUp, MoverRest
<1>15. ASSUME NEW c \in Creator, Build(c) PROVE TypeOK'
  BY <1>15 DEF Build, MoverRest, Updates
<1>16. ASSUME NEW c \in Creator, Publish(c) PROVE TypeOK'
  BY <1>16 DEF Publish, MoverRest
<1>17. ASSUME NEW m \in Mover, NEW next \in {"publish", "look"}, LockName(m, next)
       PROVE  TypeOK'
  BY <1>17 DEF LockName, MoverRest
<1>18. ASSUME Spot \/ \E t \in Tree : Sweep(t) PROVE TypeOK'
  BY <1>18 DEF Spot, Sweep, MoverRest
<1>19. ASSUME NEW p \in Proc, Crash(p) PROVE TypeOK'
  BY <1>19 DEF Crash, Forget, LetGo
<1>20. CASE UNCHANGED vars
  BY <1>20 DEF vars
<1>21. QED
  BY <1>1, <1>2, <1>3, <1>4, <1>5, <1>6, <1>7, <1>8, <1>9, <1>10, <1>11, <1>12,
     <1>13, <1>14, <1>15, <1>16, <1>17, <1>18, <1>19, <1>20, NextSteps

(* Names, and the lock on them, are kept. *)
LEMMA NameStep ==
  ASSUME TypeOK, NameInv, BuildInv, [Next]_vars
  PROVE  NameInv'
<1> USE DEF TypeOK, NameInv, BuildInv, Naming, Inside, Finishing, Answered, GoTo, At, Vacant,
        Holder, Mover, Proc, Tree, fileVars, saveVars, moveVars
<1>1. ASSUME NEW s \in Saver, Open(s) \/ Load(s) \/ Check(s) \/ Verify(s) PROVE NameInv'
  BY <1>1 DEF Open, Load, Check, Verify, Conflict, SaverRest
<1>2. ASSUME NEW p \in Holder, NEW next \in {"load", "move"}, TakeLock(p, next) PROVE NameInv'
  BY <1>2 DEF TakeLock
<1>3. ASSUME NEW s \in Saver, Prepare(s) PROVE NameInv'
  BY <1>3 DEF Prepare, SaverRest
<1>4. ASSUME NEW s \in Saver, Rename(s) \/ Link(s) PROVE NameInv'
  BY <1>4 DEF Rename, Link, Write, Conflict, SaverRest
<1>5. ASSUME NEW d \in Deleter, OpenToDelete(d) \/ UnlinkOnly(d) PROVE NameInv'
  BY <1>5 DEF OpenToDelete, UnlinkOnly, SaverRest
<1>6. ASSUME NEW d \in Deleter, MoveOut(d) PROVE NameInv'
  BY <1>6 DEF MoveOut, SaverRest
<1>7. ASSUME NEW p \in Holder, Refuse(p) PROVE NameInv'
  BY <1>7 DEF Refuse, Outcome
<1>8. ASSUME NEW p \in Holder, Release(p) PROVE NameInv'
  BY <1>8 DEF Release, Outcome, Forget
<1>9. ASSUME NEW m \in Mover, Look(m) \/ LookStale(m) PROVE NameInv'
  BY <1>9 DEF Look, LookStale, Cleared, MoverRest
<1>10. ASSUME NEW m \in Mover, MoveAside(m) PROVE NameInv'
  BY <1>10 DEF MoveAside, Cleared, LetGo
<1>11. ASSUME NEW m \in Mover, Trash(m) \/ MoveBack(m) PROVE NameInv'
  BY <1>11 DEF Trash, MoveBack, Cleared, LetGo, MoverRest
<1>12. ASSUME NEW m \in Mover, NameBusy(m) \/ Unlock(m) PROVE NameInv'
  BY <1>12 DEF NameBusy, Unlock, MoverRest
<1>13. ASSUME NEW c \in Creator, Begin(c) \/ InspectBlocking(c) \/ GiveUp(c) PROVE NameInv'
  BY <1>13 DEF Begin, InspectBlocking, GiveUp, MoverRest
<1>14. ASSUME NEW c \in Creator, Build(c) PROVE NameInv'
  BY <1>14 DEF Build, MoverRest
<1>15. ASSUME NEW c \in Creator, Publish(c) PROVE NameInv'
  BY <1>15 DEF Publish, MoverRest
<1>16. ASSUME NEW m \in Mover, NEW next \in {"publish", "look"}, LockName(m, next) PROVE NameInv'
  BY <1>16 DEF LockName, InitFree, MoverRest
<1>17. ASSUME Spot PROVE NameInv'
  BY <1>17 DEF Spot, MoverRest
<1>18. ASSUME NEW t \in Tree, Sweep(t) PROVE NameInv'
  BY <1>18 DEF Sweep, InHand, MoverRest
<1>19. ASSUME NEW p \in Proc, Crash(p) PROVE NameInv'
  BY <1>19 DEF Crash, Forget, LetGo
<1>20. CASE UNCHANGED vars
  BY <1>20 DEF vars, fileVars, saveVars, moveVars
<1>21. QED
  BY <1>1, <1>2, <1>3, <1>4, <1>5, <1>6, <1>7, <1>8, <1>9, <1>10, <1>11, <1>12, <1>13, <1>14, <1>15, <1>16, <1>17, <1>18, <1>19, <1>20, NextSteps DEF Holder, Mover

(* A create keeps its own tree. *)
LEMMA BuildStep ==
  ASSUME TypeOK, NameInv, BuildInv, [Next]_vars
  PROVE  BuildInv'
<1> USE DEF TypeOK, NameInv, BuildInv, Naming, Inside, Finishing, Answered, GoTo, At, Vacant, Live,
        Holder, Mover, Proc, Tree, Updates, fileVars, saveVars, moveVars
<1>1. ASSUME NEW s \in Saver, Open(s) \/ Load(s) \/ Check(s) \/ Verify(s) PROVE BuildInv'
  BY <1>1 DEF Open, Load, Check, Verify, Conflict, SaverRest
<1>2. ASSUME NEW p \in Holder, NEW next \in {"load", "move"}, TakeLock(p, next) PROVE BuildInv'
  BY <1>2 DEF TakeLock
<1>3. ASSUME NEW s \in Saver, Prepare(s) PROVE BuildInv'
  BY <1>3 DEF Prepare, SaverRest
<1>4. ASSUME NEW s \in Saver, Rename(s) \/ Link(s) PROVE BuildInv'
  BY <1>4 DEF Rename, Link, Write, Conflict, SaverRest
<1>5. ASSUME NEW d \in Deleter, OpenToDelete(d) \/ UnlinkOnly(d) PROVE BuildInv'
  BY <1>5 DEF OpenToDelete, UnlinkOnly, SaverRest
<1>6. ASSUME NEW d \in Deleter, MoveOut(d) PROVE BuildInv'
  BY <1>6 DEF MoveOut, SaverRest
<1>7. ASSUME NEW p \in Holder, Refuse(p) PROVE BuildInv'
  BY <1>7 DEF Refuse, Outcome
<1>8. ASSUME NEW p \in Holder, Release(p) PROVE BuildInv'
  BY <1>8 DEF Release, Outcome, Forget
<1>9. ASSUME NEW m \in Mover, Look(m) \/ LookStale(m) PROVE BuildInv'
  BY <1>9 DEF Look, LookStale, Cleared, MoverRest
<1>10. ASSUME NEW m \in Mover, MoveAside(m) PROVE BuildInv'
  BY <1>10 DEF MoveAside, Cleared, LetGo
<1>11. ASSUME NEW m \in Mover, Trash(m) \/ MoveBack(m) PROVE BuildInv'
  BY <1>11 DEF Trash, MoveBack, Cleared, LetGo, MoverRest
<1>12. ASSUME NEW m \in Mover, NameBusy(m) \/ Unlock(m) PROVE BuildInv'
  BY <1>12 DEF NameBusy, Unlock, MoverRest
<1>13. ASSUME NEW c \in Creator, Begin(c) \/ InspectBlocking(c) \/ GiveUp(c) PROVE BuildInv'
  BY <1>13 DEF Begin, InspectBlocking, GiveUp, MoverRest
<1>14. ASSUME NEW c \in Creator, Build(c) PROVE BuildInv'
  <2>1. CASE UNCHANGED <<place, json>>
    BY <1>14, <2>1 DEF Build, MoverRest
  <2>2. CASE /\ place' = [place EXCEPT ![c] = "staged"]
             /\ json' = [json EXCEPT ![c] = [version |-> 1, edits |-> {}, by |-> c]]
             /\ step' = [step EXCEPT ![c] = "locking"]
    <3>1. [version |-> 1, edits |-> {}, by |-> c] # NoJson
      BY SentinelAssumption
    <3>2. QED
      BY <1>14, <2>2, <3>1 DEF Build, MoverRest
  <2>3. QED
    BY <1>14, <2>1, <2>2 DEF Build
<1>15. ASSUME NEW c \in Creator, Publish(c) PROVE BuildInv'
  BY <1>15 DEF Publish, MoverRest
<1>16. ASSUME NEW m \in Mover, NEW next \in {"publish", "look"}, LockName(m, next) PROVE BuildInv'
  BY <1>16 DEF LockName, InitFree, MoverRest
<1>17. ASSUME Spot PROVE BuildInv'
  BY <1>17 DEF Spot, MoverRest
<1>18. ASSUME NEW t \in Tree, Sweep(t) PROVE BuildInv'
  BY <1>18 DEF Sweep, InHand, MoverRest
<1>19. ASSUME NEW p \in Proc, Crash(p) PROVE BuildInv'
  BY <1>19 DEF Crash, Forget, LetGo
<1>20. CASE UNCHANGED vars
  BY <1>20 DEF vars, fileVars, saveVars, moveVars
<1>21. QED
  BY <1>1, <1>2, <1>3, <1>4, <1>5, <1>6, <1>7, <1>8, <1>9, <1>10, <1>11, <1>12, <1>13, <1>14, <1>15, <1>16, <1>17, <1>18, <1>19, <1>20, NextSteps DEF Holder, Mover

(* What the other invariants need of the types. *)
Steps == SaveSteps \union DeleteSteps \union MoveSteps
Shapes ==
  /\ place \in [Tree -> Places] /\ json \in [Tree -> Updates \union {NoJson}]
  /\ marker \in [Tree -> Holder \union {NoOne, Left}]
  /\ step \in [Proc -> Steps] /\ tree \in [Holder -> Tree \union {NoTree}]
  /\ read \in [Saver -> Updates \union {NoJson}]
  /\ moved \in [Mover -> Tree \union {NoTree}]
  /\ \A p \in Holder : step[p] \in Inside => tree[p] \in Tree
  /\ \A m \in Mover : step[m] = "judge" => moved[m] \in Tree
  /\ intact \in BOOLEAN

LEMMA TypesShape == ASSUME TypeOK PROVE Shapes
BY DEF TypeOK, Shapes, Steps

MoverSteps == Clear \/ \E c \in Creator : Create(c)
HolderSteps == (\E s \in Saver : Save(s)) \/ \E d \in Deleter : Delete(d)

(* A create or the worker leaves the holders of branch.json's lock where     *)
(* they are.                                                                 *)
LEMMA MoversLeaveHolders ==
  ASSUME Shapes, MoverSteps
  PROVE  /\ UNCHANGED <<marker, tree, read>>
         /\ \A q \in Holder : step'[q] = step[q]
<1> USE DEF GoTo, MoverRest, saveVars
<1>1. UNCHANGED <<marker, tree, read>>
  BY DEF MoverSteps, Clear, Create, Quarantine, Look, LookStale, MoveAside, Trash,
         MoveBack, Begin, Build, LockName, NameBusy, Publish, InspectBlocking,
         GiveUp, Unlock, Spot, Sweep
<1>2. ASSUME NEW m \in Mover, NEW to, step' = [step EXCEPT ![m] = to]
      PROVE  \A q \in Holder : step'[q] = step[q]
  BY <1>2 DEF Shapes, Mover, Holder, Proc
<1>3. ASSUME NEW m \in Mover, Quarantine(m) PROVE \A q \in Holder : step'[q] = step[q]
  BY <1>2, <1>3 DEF Quarantine, Look, LookStale, MoveAside, Trash, MoveBack
<1>4. ASSUME NEW m \in Mover, NEW next \in {"publish", "look"},
             LockName(m, next) \/ NameBusy(m) \/ Unlock(m)
      PROVE  \A q \in Holder : step'[q] = step[q]
  BY <1>2, <1>4 DEF LockName, NameBusy, Unlock
<1>5. ASSUME NEW c \in Creator,
             Begin(c) \/ Build(c) \/ Publish(c) \/ InspectBlocking(c) \/ GiveUp(c)
      PROVE  \A q \in Holder : step'[q] = step[q]
  BY <1>2, <1>5 DEF Begin, Build, Publish, InspectBlocking, GiveUp, Mover
<1>6. ASSUME Spot PROVE \A q \in Holder : step'[q] = step[q]
  BY <1>2, <1>6 DEF Spot, Mover
<1>7. ASSUME NEW t \in Tree, Sweep(t) PROVE \A q \in Holder : step'[q] = step[q]
  BY <1>7 DEF Sweep
<1>8. QED
  BY <1>1, <1>3, <1>4, <1>5, <1>6, <1>7 DEF MoverSteps, Clear, Create, Mover

(* What stands at the name under a lock stays there. *)
LEMMA MoversKeepLocked ==
  ASSUME Shapes, NameInv, BuildInv, MoverSteps, intact',
         NEW t \in Tree, At(t), ~LockFree(t)
  PROVE  place'[t] = "final"
<1> USE DEF At, Shapes, MoverRest
<1>1. ASSUME NEW m \in Mover, Quarantine(m) PROVE place'[t] = "final"
  <2>1. CASE Look(m) \/ LookStale(m)
    BY <2>1 DEF Look, LookStale
  <2>2. CASE MoveAside(m)
    BY <2>2 DEF MoveAside, NameInv, Vacant
  <2>3. CASE Trash(m) \/ MoveBack(m)
    BY <2>3 DEF Trash, MoveBack, NameInv, Vacant
  <2>4. QED
    BY <1>1, <2>1, <2>2, <2>3 DEF Quarantine
<1>2. ASSUME NEW m \in Mover, NEW next \in {"publish", "look"},
             LockName(m, next) \/ NameBusy(m) \/ Unlock(m)
      PROVE  place'[t] = "final"
  BY <1>2 DEF LockName, NameBusy, Unlock, BuildInv, Mover
<1>3. ASSUME NEW c \in Creator,
             Begin(c) \/ Build(c) \/ Publish(c) \/ InspectBlocking(c) \/ GiveUp(c)
      PROVE  place'[t] = "final"
  BY <1>3 DEF Begin, Build, Publish, InspectBlocking, GiveUp, BuildInv, Tree
<1>4. ASSUME Spot PROVE place'[t] = "final"
  BY <1>4 DEF Spot
<1>5. ASSUME NEW u \in Tree, Sweep(u) PROVE place'[t] = "final"
  BY <1>5 DEF Sweep
<1>6. QED
  BY <1>1, <1>2, <1>3, <1>4, <1>5 DEF MoverSteps, Clear, Create, Mover

(* A create or the worker changes no branch.json but that of its own build. *)
LEMMA MoversLeaveJson ==
  ASSUME Shapes, BuildInv, MoverSteps, NEW t \in Tree, place[t] # "unbuilt"
  PROVE  json'[t] = json[t]
<1>1. CASE \E c \in Creator : Build(c)
  BY <1>1 DEF Build, BuildInv, Shapes, MoverRest, Tree
<1>2. CASE ~\E c \in Creator : Build(c)
  BY <1>2 DEF MoverSteps, Clear, Create, Quarantine, Look, LookStale, MoveAside, Trash,
         MoveBack, Begin, LockName, NameBusy, Publish, InspectBlocking,
         GiveUp, Unlock, Spot, Sweep
<1>3. QED
  BY <1>1, <1>2

(* A save or a delete leaves the movers where they are. *)
LEMMA HoldersLeaveMovers ==
  ASSUME Shapes, HolderSteps
  PROVE  /\ UNCHANGED <<init, seen, moved>>
         /\ \A m \in Mover : step'[m] = step[m]
<1> USE DEF GoTo, SaverRest, moveVars
<1>1. UNCHANGED <<init, seen, moved>>
  BY DEF HolderSteps, Save, Delete, Open, TakeLock, Refuse, Load, Prepare, Check,
         Rename, Verify, Link, Release, OpenToDelete, MoveOut, UnlinkOnly
<1>2. ASSUME NEW p \in Holder, NEW to, step' = [step EXCEPT ![p] = to]
      PROVE  \A m \in Mover : step'[m] = step[m]
  BY <1>2 DEF Shapes, Mover, Holder, Proc
<1>3. ASSUME NEW s \in Saver, Save(s) PROVE \E to : step' = [step EXCEPT ![s] = to]
  BY <1>3 DEF Save, Open, TakeLock, Refuse, Load, Prepare, Check, Rename, Verify,
              Link, Write, Conflict, Release
<1>4. ASSUME NEW d \in Deleter, Delete(d) PROVE \E to : step' = [step EXCEPT ![d] = to]
  BY <1>4 DEF Delete, OpenToDelete, TakeLock, Refuse, MoveOut, UnlinkOnly, Release
<1>5. QED
  BY <1>1, <1>2, <1>3, <1>4 DEF HolderSteps, Holder

(* Exclusion is not won back. *)
LEMMA IntactBefore ==
  ASSUME Shapes, [Next]_vars, intact'
  PROVE  intact
<1> USE DEF SaverRest, MoverRest
<1>1. ASSUME NEW s \in Saver, Save(s) PROVE intact
  BY <1>1 DEF Save, Open, TakeLock, Refuse, Load, Prepare, Check,
         Rename, Verify, Link, Release
<1>2. ASSUME NEW d \in Deleter, Delete(d) PROVE intact
  BY <1>2 DEF Delete, OpenToDelete, TakeLock, Refuse, MoveOut, UnlinkOnly, Release
<1>3. ASSUME MoverSteps PROVE intact
  BY <1>3 DEF MoverSteps, Clear, Create, Quarantine, Look, LookStale, MoveAside, Trash,
         MoveBack, Begin, Build, LockName, NameBusy, Publish, InspectBlocking,
         GiveUp, Unlock, Spot, Sweep
<1>4. ASSUME NEW p \in Proc, Crash(p) PROVE intact
  BY <1>4 DEF Crash
<1>5. CASE UNCHANGED vars
  BY <1>5 DEF vars
<1>6. QED
  BY <1>1, <1>2, <1>3, <1>4, <1>5 DEF Next, MoverSteps

(* A holder keeps its place while exclusion lasts. *)
LEMMA LockStep ==
  ASSUME Shapes, NameInv, BuildInv, LockInv, [Next]_vars, intact'
  PROVE  LockInv'
<1> USE DEF LockInv, GoTo, At, Shapes, SaverRest, fileVars, saveVars
<1>0. SUFFICES ASSUME NEW q \in Holder, step'[q] \in Inside
               PROVE  place'[tree'[q]] = "final" /\ marker'[tree'[q]] = q
  BY DEF LockInv
<1> DEFINE Goal == place'[tree'[q]] = "final" /\ marker'[tree'[q]] = q
<1>1. ASSUME MoverSteps PROVE Goal
  <2>1. step[q] \in Inside /\ tree'[q] = tree[q] /\ marker' = marker
    BY <1>0, <1>1, MoversLeaveHolders
  <2>2. ~LockFree(tree[q])
    BY <2>1 DEF LockFree, Proc
  <2>3. QED
    BY <1>1, <2>1, <2>2, MoversKeepLocked
<1>2. ASSUME NEW p \in Holder, NEW to \in {"load", "move"}, TakeLock(p, to) PROVE Goal
  <2>1. PICK t \in Tree : /\ At(t) /\ LockFree(t) /\ marker' = [marker EXCEPT ![t] = p]
                          /\ tree' = [tree EXCEPT ![p] = t]
    BY <1>2 DEF TakeLock
  <2>2. place' = place /\ step' = [step EXCEPT ![p] = to]
    BY <1>2 DEF TakeLock
  <2>3. CASE q = p
    BY <2>1, <2>2, <2>3
  <2>4. CASE q # p
    <3>1. step[q] \in Inside
      BY <1>0, <2>2, <2>4 DEF Proc
    <3>2. tree[q] # t
      BY <2>1, <3>1 DEF LockFree, Proc
    <3>3. QED
      BY <2>1, <2>2, <2>4, <3>1, <3>2
  <2>5. QED
    BY <2>3, <2>4
<1>3. ASSUME NEW s \in Saver, Open(s) \/ Check(s) \/ Verify(s) \/ Load(s) PROVE Goal
  <2>1. UNCHANGED <<place, marker, tree>>
    BY <1>3 DEF Open, Check, Verify, Load
  <2>2. step[q] \in Inside
    <3>1. CASE Open(s)
      BY <1>0, <3>1 DEF Open, Inside, Proc
    <3>2. CASE Check(s)
      BY <1>0, <3>2 DEF Check, Conflict, Inside, Proc
    <3>3. CASE Verify(s)
      BY <1>0, <3>3 DEF Verify, Conflict, Inside, Proc
    <3>4. CASE Load(s)
      BY <1>0, <3>4 DEF Load, Inside, Proc
    <3>5. QED
      BY <1>3, <3>1, <3>2, <3>3, <3>4
  <2>3. QED
    BY <2>1, <2>2
<1>4. ASSUME NEW s \in Saver, Prepare(s) PROVE Goal
  <2>1. step[s] \in Inside /\ step[q] \in Inside
    BY <1>0, <1>4 DEF Prepare, Inside, Proc
  <2>2. ~Vacant
    BY <2>1 DEF Vacant, Holder
  <2>3. PICK t \in Tree : At(t) /\ tree' = [tree EXCEPT ![s] = t]
    BY <1>4, <2>2 DEF Prepare
  <2>4. t = tree[s] /\ UNCHANGED <<place, marker>>
    BY <1>4, <2>1, <2>2, <2>3 DEF Prepare, NameInv, Holder
  <2>5. QED
    BY <2>1, <2>3, <2>4
<1>5. ASSUME NEW s \in Saver, Rename(s) \/ Link(s) PROVE Goal
  <2>1. UNCHANGED <<place, marker, tree>>
    BY <1>5 DEF Rename, Link
  <2>2. step[q] \in Inside
    BY <1>0, <1>5 DEF Rename, Link, Write, Conflict, Inside, Proc
  <2>3. QED
    BY <2>1, <2>2
<1>6. ASSUME NEW d \in Deleter, OpenToDelete(d) \/ UnlinkOnly(d) PROVE Goal
  <2>1. UNCHANGED <<place, marker, tree>>
    BY <1>6 DEF OpenToDelete, UnlinkOnly
  <2>2. step[q] \in Inside
    BY <1>0, <1>6 DEF OpenToDelete, UnlinkOnly, Inside, Proc
  <2>3. QED
    BY <2>1, <2>2
<1>7. ASSUME NEW d \in Deleter, MoveOut(d) PROVE Goal
  <2>1. step[d] \in Inside /\ q # d /\ step[q] \in Inside /\ tree' = tree
    BY <1>0, <1>7 DEF MoveOut, Inside, Proc, Holder
  <2>2. tree[q] # tree[d]
    BY <2>1 DEF Holder
  <2>3. PICK t \in Tree : /\ At(t) /\ place' = [place EXCEPT ![t] = "gone"]
                          /\ marker' = [marker EXCEPT ![t] = NoOne]
    BY <1>7, <2>1 DEF MoveOut, Vacant, Holder
  <2>4. t = tree[d] /\ t = tree[q]
    BY <2>1, <2>3 DEF NameInv, Holder
  <2>5. QED
    BY <2>2, <2>4
<1>8. ASSUME NEW p \in Holder, Refuse(p) PROVE Goal
  <2>1. UNCHANGED <<place, marker, tree>>
    BY <1>8 DEF Refuse
  <2>2. step[q] \in Inside
    BY <1>0, <1>8 DEF Refuse, Outcome, Inside, Proc
  <2>3. QED
    BY <2>1, <2>2
<1>9. ASSUME NEW p \in Holder, Release(p) PROVE Goal
  <2>1. q # p /\ step[q] \in Inside /\ place' = place
    BY <1>0, <1>9 DEF Release, Outcome, Inside, Finishing, Proc
  <2>2. tree'[q] = tree[q]
    BY <1>9, <2>1 DEF Release, Forget
  <2>3. CASE UNCHANGED marker
    BY <2>1, <2>2, <2>3
  <2>4. ASSUME NEW t \in Tree, At(t), marker' = [marker EXCEPT ![t] = NoOne],
               marker[t] \in {p, Left}
        PROVE  Goal
    BY <2>1, <2>2, <2>4 DEF Proc
  <2>5. QED
    BY <1>9, <2>3, <2>4 DEF Release
<1>10. ASSUME NEW p \in Proc, Crash(p) PROVE Goal
  <2>1. q # p /\ step[q] \in Inside
    BY <1>0, <1>10 DEF Crash, Inside, Proc
  <2>2. tree'[q] = tree[q]
    BY <1>10, <2>1 DEF Crash, Forget
  <2>3. place'[tree[q]] = "final"
    BY <1>10, <2>1 DEF Crash, Tree
  <2>4. marker'[tree[q]] = q
    BY <1>10, <2>1 DEF Crash
  <2>5. QED
    BY <2>2, <2>3, <2>4
<1>11. CASE UNCHANGED vars
  BY <1>0, <1>11 DEF vars
<1> HIDE DEF Goal
<1>12. QED
  BY <1>1, <1>2, <1>3, <1>4, <1>5, <1>6, <1>7, <1>8, <1>9, <1>10, <1>11
     DEF Next, Save, Delete, MoverSteps, Holder, Goal

(* What a save or a delete does to the directory while exclusion lasts: at   *)
(* most the tree under the lock leaves its name.                             *)
LEMMA HoldersPlaces ==
  ASSUME Shapes, LockInv, HolderSteps
  PROVE  \/ place' = place
         \/ \E t \in Tree : At(t) /\ place' = [place EXCEPT ![t] = "gone"]
                                 /\ json' = [json EXCEPT ![t] = NoJson]
<1>1. ASSUME NEW s \in Saver, Prepare(s) PROVE place' = place
  BY <1>1 DEF Prepare, LockInv, Inside, Holder, Vacant, Shapes
<1>2. QED
  BY <1>1 DEF HolderSteps, Save, Delete, Open, TakeLock, Refuse, Load, Check,
       Rename, Verify, Link, Release, OpenToDelete, MoveOut, UnlinkOnly, fileVars

(* Two holders are not in one tree. *)
LEMMA HoldersApart ==
  ASSUME LockInv, NEW p \in Holder, NEW q \in Holder, p # q,
         step[p] \in Inside, step[q] \in Inside
  PROVE  tree[p] # tree[q]
BY DEF LockInv

(* A save holds on to a live branch.json, and one that has written is in it. *)
LEMMA SaveStep ==
  ASSUME Shapes, NameInv, BuildInv, LockInv, SaveInv, WaitInv, [Next]_vars, intact'
  PROVE  SaveInv'
<1> USE DEF GoTo, At, Live, Shapes, SaverRest, fileVars, saveVars
<1>0. SUFFICES ASSUME NEW q \in Saver
               PROVE  /\ step'[q] \in Inside => json'[tree'[q]] # NoJson /\ step'[q] # "link"
                      /\ step'[q] \in {"prepare", "check", "rename"} =>
                           read'[q] = json'[tree'[q]]
                      /\ step'[q] \in {"verify", "ok", "answered"} =>
                           /\ tree'[q] # NoTree
                           /\ json'[tree'[q]] # NoJson => q \in json'[tree'[q]].edits
  BY DEF SaveInv
<1> DEFINE Goal == /\ step'[q] \in Inside => json'[tree'[q]] # NoJson /\ step'[q] # "link"
                   /\ step'[q] \in {"prepare", "check", "rename"} =>
                        read'[q] = json'[tree'[q]]
                   /\ step'[q] \in {"verify", "ok", "answered"} =>
                        /\ tree'[q] # NoTree
                        /\ json'[tree'[q]] # NoJson => q \in json'[tree'[q]].edits
<1>a. q \in Holder /\ q \in Proc
  BY DEF Holder, Proc
<1>b. /\ step[q] \in Inside => At(tree[q]) /\ tree[q] \in Tree /\ marker[tree[q]] = q
                               /\ json[tree[q]] # NoJson /\ step[q] # "link"
      /\ step[q] \in {"prepare", "check", "rename"} => read[q] = json[tree[q]]
      /\ step[q] \in {"verify", "ok", "answered"} =>
           /\ tree[q] # NoTree
           /\ json[tree[q]] # NoJson => q \in json[tree[q]].edits
  BY <1>a DEF SaveInv, LockInv
<1>1. ASSUME MoverSteps PROVE Goal
  <2>1. step'[q] = step[q] /\ tree'[q] = tree[q] /\ read'[q] = read[q]
    BY <1>1, <1>a, MoversLeaveHolders
  <2>2. tree[q] # NoTree => json'[tree[q]] = json[tree[q]]
    BY <1>1, <1>a, MoversLeaveJson DEF NameInv
  <2>3. NoTree \notin Tree
    OBVIOUS
  <2>4. step[q] \in {"prepare", "check", "rename"} => step[q] \in Inside
    BY DEF Inside
  <2>5. QED
    BY <1>b, <2>1, <2>2, <2>3, <2>4
<1>2. ASSUME NEW p \in Holder, NEW to \in {"load", "move"}, TakeLock(p, to) PROVE Goal
  <2>1. PICK t \in Tree : At(t) /\ tree' = [tree EXCEPT ![p] = t]
    BY <1>2 DEF TakeLock
  <2>2. json' = json /\ read' = read /\ step' = [step EXCEPT ![p] = to] /\ step[p] = "waiting"
    BY <1>2 DEF TakeLock
  <2>3. CASE q = p
    <3>1. json[t] # NoJson
      BY <2>1, <2>2, <2>3 DEF WaitInv
    <3>2. QED
      BY <1>a, <2>1, <2>2, <2>3, <3>1
  <2>4. CASE q # p
    BY <1>a, <1>b, <2>1, <2>2, <2>4
  <2>5. QED
    BY <2>3, <2>4
<1>3. ASSUME NEW s \in Saver, Open(s) \/ Check(s) \/ Verify(s) PROVE Goal
  <2>1. UNCHANGED <<json, tree, read>>
    BY <1>3 DEF Open, Check, Verify
  <2>2. CASE q # s
    <3>1. step'[q] = step[q]
      BY <1>a, <1>3, <2>2 DEF Open, Check, Verify, Conflict, Proc, Holder
    <3>2. QED
      BY <1>b, <2>1, <3>1
  <2>3. CASE q = s
    BY <1>a, <1>b, <1>3, <2>1, <2>3 DEF Open, Check, Verify, Conflict, Inside
  <2>4. QED
    BY <2>2, <2>3
<1>4. ASSUME NEW s \in Saver, Load(s) PROVE Goal
  <2>1. UNCHANGED <<json, tree>>
    BY <1>4 DEF Load
  <2>2. CASE q # s
    <3>1. step'[q] = step[q] /\ read'[q] = read[q]
      BY <1>a, <1>4, <2>2 DEF Load, Proc, Holder
    <3>2. QED
      BY <1>b, <2>1, <3>1
  <2>3. CASE q = s
    <3>1. step[q] \in Inside /\ ~Vacant
      BY <1>b, <1>4, <2>3 DEF Load, Inside, Vacant
    <3>2. PICK t \in Tree : At(t) /\ read' = [read EXCEPT ![s] = json[t]]
      BY <1>4, <3>1 DEF Load
    <3>3. t = tree[q]
      BY <1>b, <3>1, <3>2 DEF NameInv
    <3>4. step'[q] = "prepare" \/ step'[q] = "fail"
      BY <1>a, <1>4, <2>3 DEF Load
    <3>5. QED
      BY <1>b, <2>1, <2>3, <3>1, <3>2, <3>3, <3>4 DEF Inside
  <2>4. QED
    BY <2>2, <2>3
<1>5. ASSUME NEW s \in Saver, Prepare(s) PROVE Goal
  <2>1. UNCHANGED <<json, read>>
    BY <1>5 DEF Prepare
  <2>2. CASE q # s
    <3>1. step'[q] = step[q] /\ tree'[q] = tree[q]
      BY <1>a, <1>5, <2>2 DEF Prepare, Proc, Holder
    <3>2. QED
      BY <1>b, <2>1, <3>1
  <2>3. CASE q = s
    <3>1. step[q] \in Inside /\ step[q] = "prepare" /\ ~Vacant
      BY <1>b, <1>5, <2>3 DEF Prepare, Inside, Vacant
    <3>2. PICK t \in Tree : At(t) /\ tree' = [tree EXCEPT ![s] = t]
      BY <1>5, <3>1 DEF Prepare
    <3>3. t = tree[q]
      BY <1>b, <3>1, <3>2 DEF NameInv
    <3>4. step'[q] = "check"
      BY <1>a, <1>b, <1>5, <2>3, <3>1 DEF Prepare
    <3>5. QED
      BY <1>a, <1>b, <2>1, <2>3, <3>1, <3>2, <3>3, <3>4
  <2>4. QED
    BY <2>2, <2>3
<1>6. ASSUME NEW s \in Saver, Rename(s) PROVE Goal
  <2>1. step[s] = "rename" /\ step[s] \in Inside /\ s \in Holder
    BY <1>6 DEF Rename, Inside, Holder
  <2>2. At(tree[s]) /\ tree[s] \in Tree /\ json[tree[s]] # NoJson /\ read[s] = json[tree[s]]
    BY <2>1 DEF LockInv, SaveInv
  <2> DEFINE new == [version |-> read[s].version + 1, by |-> s,
                     edits |-> read[s].edits \union {s}]
  <2>3. json' = [json EXCEPT ![tree[s]] = new] /\ step' = [step EXCEPT ![s] = "verify"]
    BY <1>6, <2>2 DEF Rename, Write
  <2>4. UNCHANGED <<tree, read>>
    BY <1>6 DEF Rename
  <2>5. new \in Updates /\ new # NoJson
    BY <2>2, SentinelAssumption DEF Updates
  <2>6. new.edits = json[tree[s]].edits \union {s}
    BY <2>2
  <2> HIDE DEF new
  <2>7. CASE q = s
    BY <1>a, <2>1, <2>2, <2>3, <2>4, <2>5, <2>6, <2>7
  <2>8. CASE q # s
    <3>1. step'[q] = step[q] /\ tree'[q] = tree[q] /\ read'[q] = read[q]
      BY <1>a, <2>3, <2>4, <2>8
    <3>2. step[q] \in Inside => tree[q] # tree[s]
      BY <1>a, <2>1, <2>8, HoldersApart
    <3>3. CASE tree[q] # tree[s]
      <4>1. tree[q] # NoTree => json'[tree[q]] = json[tree[q]]
        BY <1>a, <2>2, <2>3, <3>3
      <4>2. NoTree \notin Tree
        OBVIOUS
      <4>3. QED
        BY <1>b, <3>1, <4>1, <4>2 DEF Inside
    <3>4. CASE tree[q] = tree[s]
      BY <1>b, <2>2, <2>3, <2>5, <2>6, <3>1, <3>2, <3>4 DEF Inside
    <3>5. QED
      BY <3>3, <3>4
  <2>9. QED
    BY <2>7, <2>8
<1>7. ASSUME NEW s \in Saver, Link(s) PROVE Goal
  BY <1>7 DEF Link, SaveInv, Inside
<1>8. ASSUME NEW d \in Deleter, MoveOut(d) \/ UnlinkOnly(d) PROVE Goal
  <2>1. step[d] \in Inside /\ d \in Holder /\ q # d
    BY <1>8 DEF MoveOut, UnlinkOnly, Inside, Holder
  <2>2. At(tree[d]) /\ tree[d] \in Tree
    BY <2>1 DEF LockInv
  <2>3. PICK t \in Tree : At(t) /\ json' = [json EXCEPT ![t] = NoJson]
    BY <1>8, <2>2 DEF MoveOut, UnlinkOnly, Vacant
  <2>4. t = tree[d]
    BY <2>2, <2>3 DEF NameInv
  <2>5. step'[q] = step[q] /\ UNCHANGED <<tree, read>>
    BY <1>8, <1>a, <2>1 DEF MoveOut, UnlinkOnly
  <2>6. step[q] \in Inside => tree[q] # t
    BY <1>a, <2>1, <2>4, HoldersApart
  <2>7. step[q] \in {"prepare", "check", "rename"} => step[q] \in Inside
    BY DEF Inside
  <2>8. CASE tree[q] = t
    BY <1>b, <2>3, <2>5, <2>6, <2>7, <2>8
  <2>9. CASE tree[q] # t
    <3>1. json'[tree[q]] = json[tree[q]] \/ tree[q] = NoTree
      BY <1>a, <2>3, <2>9
    <3>2. step[q] \in Inside => tree[q] # NoTree
      BY <1>b
    <3>3. QED
      BY <1>b, <2>5, <2>7, <3>1, <3>2
  <2>10. QED
    BY <2>8, <2>9
<1>9. ASSUME NEW d \in Deleter, OpenToDelete(d) PROVE Goal
  BY <1>a, <1>b, <1>9 DEF OpenToDelete, Holder, Proc
<1>10. ASSUME NEW p \in Holder, Refuse(p) PROVE Goal
  <2>1. UNCHANGED <<json, tree, read>>
    BY <1>10 DEF Refuse
  <2>2. step'[q] = step[q] \/ step'[q] = "failed"
    BY <1>a, <1>10 DEF Refuse, Outcome
  <2>3. QED
    BY <1>b, <2>1, <2>2 DEF Inside
<1>11. ASSUME NEW p \in Holder, Release(p) PROVE Goal
  <2>1. json' = json
    BY <1>11 DEF Release
  <2>2. CASE q # p
    <3>1. step'[q] = step[q] /\ tree'[q] = tree[q] /\ read'[q] = read[q]
      BY <1>a, <1>11, <2>2 DEF Release, Forget
    <3>2. QED
      BY <1>b, <2>1, <3>1
  <2>3. CASE q = p
    <3>1. step'[q] = "failed" \/ (step'[q] = "answered" /\ step[q] = "ok" /\ tree'[q] = tree[q])
      BY <1>a, <1>11, <2>3 DEF Release, Forget, Outcome, Finishing
    <3>2. QED
      BY <1>b, <2>1, <3>1 DEF Inside
  <2>4. QED
    BY <2>2, <2>3
<1>12. ASSUME NEW p \in Proc, Crash(p) PROVE Goal
  <2>1. json' = json
    BY <1>12 DEF Crash
  <2>2. CASE q # p
    <3>1. step'[q] = step[q] /\ tree'[q] = tree[q] /\ read'[q] = read[q]
      BY <1>a, <1>12, <2>2 DEF Crash, Forget
    <3>2. QED
      BY <1>b, <2>1, <3>1
  <2>3. CASE q = p
    <3>1. step'[q] = "failed"
      BY <1>a, <1>12, <2>3 DEF Crash, Holder
    <3>2. QED
      BY <3>1 DEF Inside
  <2>4. QED
    BY <2>2, <2>3
<1>13. CASE UNCHANGED vars
  BY <1>b, <1>13 DEF vars
<1> HIDE DEF Goal
<1>14. QED
  BY <1>1, <1>2, <1>3, <1>4, <1>5, <1>6, <1>7, <1>8, <1>9, <1>10, <1>11, <1>12, <1>13
     DEF Next, Save, Delete, MoverSteps, Holder, Goal

(* What comes to the name through a create or the worker is live, or was in  *)
(* hand.                                                                     *)
LEMMA MoversArrive ==
  ASSUME Shapes, BuildInv, MoverSteps, NEW t \in Tree, place'[t] = "final"
  PROVE  At(t) \/ InHand(t) \/ (Live(t) /\ place[t] \in {"staged", "aside"})
<1> USE DEF At, Live, Shapes, MoverRest
<1>1. ASSUME NEW m \in Mover, Quarantine(m) PROVE At(t) \/ InHand(t)
  <2>1. CASE Look(m) \/ LookStale(m)
    BY <2>1 DEF Look, LookStale
  <2>2. CASE MoveAside(m)
    BY <2>2 DEF MoveAside
  <2>3. CASE Trash(m) \/ MoveBack(m)
    BY <2>3 DEF Trash, MoveBack, InHand
  <2>4. QED
    BY <1>1, <2>1, <2>2, <2>3 DEF Quarantine
<1>2. ASSUME NEW m \in Mover, NEW next \in {"publish", "look"},
             LockName(m, next) \/ NameBusy(m) \/ Unlock(m)
      PROVE  At(t)
  BY <1>2 DEF LockName, NameBusy, Unlock
<1>3. ASSUME NEW c \in Creator, Begin(c) \/ Build(c) \/ InspectBlocking(c) \/ GiveUp(c)
      PROVE  At(t)
  BY <1>3 DEF Begin, Build, InspectBlocking, GiveUp
<1>4. ASSUME NEW c \in Creator, Publish(c)
      PROVE  At(t) \/ (Live(t) /\ place[t] = "staged")
  BY <1>4 DEF Publish, BuildInv, Naming
<1>5. ASSUME Spot PROVE At(t)
  BY <1>5 DEF Spot
<1>6. ASSUME NEW u \in Tree, Sweep(u) PROVE At(t) \/ (Live(t) /\ place[t] = "aside")
  BY <1>6 DEF Sweep
<1>7. QED
  BY <1>1, <1>2, <1>3, <1>4, <1>5, <1>6 DEF MoverSteps, Clear, Create, Mover

(* What a quarantine gets in hand was in hand or at the name. *)
LEMMA MoversTake ==
  ASSUME Shapes, MoverSteps, NEW m \in Mover, step'[m] = "judge"
  PROVE  \/ /\ step[m] = "judge" /\ moved'[m] = moved[m]
            /\ ~(Quarantine(m) \/ Unlock(m))
         \/ MoveAside(m) /\ At(moved'[m]) /\ moved'[m] \in Tree
               /\ place' = [place EXCEPT ![moved'[m]] = "aside"]
<1> USE DEF GoTo, Shapes, moveVars, Proc
<1>1. ASSUME NEW n \in Mover, Quarantine(n) \/ Unlock(n), n # m
      PROVE  step'[m] = step[m] /\ moved'[m] = moved[m]
  BY <1>1 DEF Quarantine, Look, LookStale, MoveAside, Trash, MoveBack, Unlock, LetGo, Mover
<1>2. CASE Quarantine(m) \/ Unlock(m)
  BY <1>2 DEF Quarantine, Look, LookStale, MoveAside, Trash, MoveBack, Cleared,
              Unlock, LetGo, Mover
<1>3. ASSUME NEW n \in Mover, NEW next \in {"publish", "look"},
             LockName(n, next) \/ NameBusy(n)
      PROVE  step'[m] = step[m] /\ moved'[m] = moved[m]
  BY <1>3 DEF LockName, NameBusy, Mover
<1>4. ASSUME NEW c \in Creator,
             Begin(c) \/ Build(c) \/ Publish(c) \/ InspectBlocking(c) \/ GiveUp(c)
      PROVE  step'[m] = step[m] /\ moved'[m] = moved[m]
  BY <1>4 DEF Begin, Build, Publish, InspectBlocking, GiveUp, Mover
<1>5. ASSUME Spot PROVE step'[m] = step[m] /\ moved'[m] = moved[m]
  BY <1>5 DEF Spot, Mover
<1>6. ASSUME NEW t \in Tree, Sweep(t) PROVE step'[m] = step[m] /\ moved'[m] = moved[m]
  BY <1>6 DEF Sweep
<1>7. CASE ~(Quarantine(m) \/ Unlock(m))
  BY <1>1, <1>3, <1>4, <1>5, <1>6, <1>7 DEF MoverSteps, Clear, Create, Mover
<1>8. QED
  BY <1>2, <1>7

(* A death leaves nothing more in hand, and nothing at the name that was not *)
(* there.                                                                    *)
LEMMA DeathLeaves ==
  ASSUME Shapes, NEW p \in Proc, Crash(p)
  PROVE  /\ json' = json
         /\ \A t \in Tree : place'[t] = place[t] \/ (place[t] = "staged" /\ place'[t] = "gone")
         /\ \A m \in Mover \ {p} : step'[m] = step[m] /\ moved'[m] = moved[m]
         /\ \A q \in Proc : step'[q] = step[q] \/ step'[q] \in {"idle", "failed", "done"}
BY DEF Crash, GoTo, Shapes, LetGo, moveVars, Proc, Mover

(* No save waits at residue. *)
LEMMA WaitStep ==
  ASSUME Shapes, NameInv, BuildInv, LockInv, SaveInv, WaitInv, HandInv,
         [Next]_vars, intact'
  PROVE  WaitInv'
<1> USE DEF At, Live, Shapes
<1>0. SUFFICES ASSUME NEW q \in Saver, step'[q] = "waiting", NEW t \in Tree,
                      place'[t] = "final" \/ InHand(t)'
               PROVE  json'[t] # NoJson
  BY DEF WaitInv
<1>a. q \in Holder /\ q \in Proc
  BY DEF Holder, Proc
<1>1. CASE MoverSteps
  <2>1. step[q] = "waiting"
    BY <1>0, <1>1, <1>a, MoversLeaveHolders
  <2>2. CASE place'[t] = "final"
    <3>1. Live(t) /\ place[t] # "unbuilt"
      BY <1>1, <2>1, <2>2, MoversArrive DEF WaitInv, InHand, NameInv
    <3>2. QED
      BY <1>1, <3>1, MoversLeaveJson
  <2>3. ASSUME NEW m \in Mover, step'[m] = "judge", moved'[m] = t
        PROVE  json'[t] # NoJson
    <3>1. (InHand(t) /\ place[t] = "aside") \/ At(t)
      BY <1>1, <2>3, MoversTake DEF InHand, NameInv
    <3>2. Live(t) /\ place[t] # "unbuilt"
      BY <2>1, <3>1 DEF WaitInv
    <3>3. QED
      BY <1>1, <3>2, MoversLeaveJson
  <2>4. QED
    BY <1>0, <2>2, <2>3 DEF InHand
<1>2. CASE HolderSteps
  <2>1. place'[t] = "final" => At(t)
    BY <1>2, HoldersPlaces
  <2>2. InHand(t)' => InHand(t)
    BY <1>2, HoldersLeaveMovers DEF InHand
  <2>3. ASSUME NEW s \in Saver, Open(s) PROVE json'[t] # NoJson
    <3>1. PICK u \in Tree : At(u) /\ Live(u)
      BY <2>3 DEF Open
    <3>2. t = u
      BY <1>0, <2>1, <2>2, <3>1 DEF NameInv, HandInv, InHand, Vacant
    <3>3. QED
      BY <2>3, <3>1, <3>2 DEF Open, fileVars
  <2>4. CASE ~\E s \in Saver : Open(s)
    <3>1. step[q] = "waiting"
      <4>1. ASSUME NEW s \in Saver, Save(s) PROVE step[q] = "waiting"
        BY <1>0, <1>a, <2>4, <4>1
           DEF Save, TakeLock, Refuse, Outcome, Load, Prepare, Check, Rename, Verify,
               Link, Write, Conflict, Release, GoTo
      <4>2. ASSUME NEW d \in Deleter, Delete(d) PROVE step[q] = "waiting"
        BY <1>0, <1>a, <4>2
           DEF Delete, OpenToDelete, TakeLock, Refuse, Outcome, MoveOut, UnlinkOnly,
               Release, GoTo
      <4>3. QED
        BY <1>2, <4>1, <4>2 DEF HolderSteps
    <3>2. Live(t)
      BY <1>0, <2>1, <2>2, <3>1 DEF WaitInv
    <3>3. ASSUME NEW s \in Saver, Save(s) PROVE json'[t] # NoJson
      <4>1. CASE Rename(s)
        <5>1. [version |-> read[s].version + 1, by |-> s,
               edits |-> read[s].edits \union {s}] # NoJson
          <6>1. read[s] \in Updates
            BY <4>1 DEF Rename, SaveInv, Inside, LockInv, Holder
          <6>2. QED
            BY <6>1, SentinelAssumption DEF Updates
        <5>2. read[s] # NoJson
          BY <4>1 DEF Rename, SaveInv, Inside, LockInv, Holder
        <5>3. QED
          BY <3>2, <4>1, <5>1, <5>2 DEF Rename, Write
      <4>2. CASE Link(s)
        BY <4>2 DEF Link, SaveInv, Inside
      <4>3. CASE ~Rename(s) /\ ~Link(s)
        BY <3>2, <3>3, <4>3 DEF Save, Open, TakeLock, Refuse, Load, Prepare, Check,
             Verify, Release, fileVars
      <4>4. QED
        BY <4>1, <4>2, <4>3
    <3>4. ASSUME NEW d \in Deleter, Delete(d) PROVE json'[t] # NoJson
      <4>1. CASE MoveOut(d)
        <5>1. CASE Vacant
          BY <3>2, <4>1, <5>1 DEF MoveOut, fileVars, Vacant
        <5>2. PICK u \in Tree : /\ At(u) /\ json' = [json EXCEPT ![u] = NoJson]
                                /\ place' = [place EXCEPT ![u] = "gone"]
          BY <4>1, <5>1 DEF MoveOut, LockInv, Inside, Holder, Vacant
        <5>3. t # u
          BY <1>0, <2>2, <5>2 DEF InHand, NameInv
        <5>4. QED
          BY <3>2, <5>2, <5>3
      <4>2. CASE UnlinkOnly(d)
        BY <3>1, <4>2 DEF UnlinkOnly
      <4>3. CASE OpenToDelete(d) \/ TakeLock(d, "move") \/ Refuse(d) \/ Release(d)
        BY <3>2, <4>3 DEF OpenToDelete, TakeLock, Refuse, Release, fileVars
      <4>4. QED
        BY <3>4, <4>1, <4>2, <4>3 DEF Delete
    <3>5. QED
      BY <1>2, <3>3, <3>4 DEF HolderSteps
  <2>5. QED
    BY <2>3, <2>4
<1>3. ASSUME NEW p \in Proc, Crash(p) PROVE json'[t] # NoJson
  <2>1. step[q] = "waiting" /\ (place'[t] = "final" => At(t))
    BY <1>0, <1>3, <1>a, DeathLeaves
  <2>2. InHand(t)' => InHand(t)
    <3>1. ASSUME NEW m \in Mover, step'[m] = "judge", moved'[m] = t
          PROVE  step[m] = "judge" /\ moved[m] = t
      BY <1>3, <3>1, DeathLeaves DEF Crash, GoTo, Proc
    <3>2. QED
      BY <3>1 DEF InHand
  <2>3. QED
    BY <1>0, <1>3, <2>1, <2>2, DeathLeaves DEF WaitInv
<1>4. CASE UNCHANGED vars
  BY <1>0, <1>4 DEF vars, fileVars, moveVars, WaitInv, InHand
<1>5. QED
  BY <1>1, <1>2, <1>3, <1>4 DEF Next, MoverSteps, HolderSteps

(* While a quarantine has a tree in hand, nothing comes to its name. *)
LEMMA HandStep ==
  ASSUME Shapes, NameInv, BuildInv, LockInv, HandInv, [Next]_vars, intact'
  PROVE  HandInv'
<1> USE DEF At, Shapes
<1>0. SUFFICES ASSUME NEW m \in Mover, step'[m] = "judge", NEW t \in Tree
               PROVE  place'[t] # "final"
  BY DEF HandInv, Vacant
<1>1. CASE MoverSteps
  <2>1. CASE MoveAside(m) /\ At(moved'[m]) /\ moved'[m] \in Tree
               /\ place' = [place EXCEPT ![moved'[m]] = "aside"]
    BY <2>1 DEF NameInv
  <2>2. CASE step[m] = "judge" /\ ~(Quarantine(m) \/ Unlock(m))
    <3>1. init = m /\ ~At(t)
      BY <2>2 DEF NameInv, HandInv, Vacant, Naming
    <3>2. ASSUME NEW n \in Mover, Quarantine(n) PROVE place'[t] # "final"
      <4>1. step[n] \in Naming
        BY <3>2 DEF Quarantine, Look, LookStale, MoveAside, Trash, MoveBack, Naming
      <4>2. n = m
        BY <3>1, <4>1 DEF NameInv
      <4>3. QED
        BY <2>2, <3>2, <4>2
    <3>3. ASSUME NEW n \in Mover, NEW next \in {"publish", "look"},
                 LockName(n, next) \/ NameBusy(n) \/ Unlock(n)
          PROVE  place'[t] # "final"
      BY <3>1, <3>3 DEF LockName, NameBusy, Unlock
    <3>4. ASSUME NEW c \in Creator, Begin(c) \/ Build(c) \/ InspectBlocking(c) \/ GiveUp(c)
          PROVE  place'[t] # "final"
      BY <3>1, <3>4 DEF Begin, Build, InspectBlocking, GiveUp
    <3>5. ASSUME NEW c \in Creator, Publish(c) PROVE place'[t] # "final"
      BY <2>2, <3>1, <3>5 DEF Publish, NameInv, Naming, Mover
    <3>6. ASSUME Spot PROVE place'[t] # "final"
      BY <3>1, <3>6 DEF Spot
    <3>7. ASSUME NEW u \in Tree, Sweep(u) PROVE place'[t] # "final"
      BY <3>1, <3>7 DEF Sweep, InitFree, Mover, Proc
    <3>8. QED
      BY <1>1, <3>2, <3>3, <3>4, <3>5, <3>6, <3>7 DEF MoverSteps, Clear, Create, Mover
  <2>3. QED
    BY <1>0, <1>1, <2>1, <2>2, MoversTake
<1>2. CASE HolderSteps
  <2>1. step[m] = "judge"
    BY <1>0, <1>2, HoldersLeaveMovers
  <2>2. QED
    BY <1>2, <2>1, HoldersPlaces DEF HandInv, Vacant
<1>3. ASSUME NEW p \in Proc, Crash(p) PROVE place'[t] # "final"
  <2>1. step[m] = "judge"
    BY <1>0, <1>3, DeathLeaves DEF Proc
  <2>2. QED
    BY <1>3, <2>1, DeathLeaves DEF HandInv, Vacant
<1>4. CASE UNCHANGED vars
  BY <1>0, <1>4 DEF vars, fileVars, HandInv, Vacant
<1>5. QED
  BY <1>1, <1>2, <1>3, <1>4 DEF Next, MoverSteps, HolderSteps

(* No tree is made by a recursive mkdir. *)
LEMMA HuskStep ==
  ASSUME Shapes, NameInv, LockInv, HuskInv, [Next]_vars, intact'
  PROVE  HuskInv'
<1> USE DEF Shapes, At, MoverRest
<1>0. SUFFICES ASSUME NEW h \in Husk PROVE place'[h] = "unbuilt"
  BY DEF HuskInv
<1>a. h \in Tree /\ h \notin Creator /\ place[h] = "unbuilt"
  BY DEF Tree, HuskInv
<1>1. CASE MoverSteps
  <2>1. ASSUME NEW m \in Mover, Quarantine(m) PROVE place'[h] = "unbuilt"
    BY <1>a, <2>1 DEF Quarantine, Look, LookStale, MoveAside, Trash, MoveBack, NameInv
  <2>2. ASSUME NEW m \in Mover, NEW next \in {"publish", "look"},
               LockName(m, next) \/ NameBusy(m) \/ Unlock(m)
        PROVE  place'[h] = "unbuilt"
    BY <1>a, <2>2 DEF LockName, NameBusy, Unlock, Mover
  <2>3. ASSUME NEW c \in Creator,
               Begin(c) \/ Build(c) \/ Publish(c) \/ InspectBlocking(c) \/ GiveUp(c)
        PROVE  place'[h] = "unbuilt"
    BY <1>a, <2>3 DEF Begin, Build, Publish, InspectBlocking, GiveUp
  <2>4. ASSUME Spot PROVE place'[h] = "unbuilt"
    BY <1>a, <2>4 DEF Spot
  <2>5. ASSUME NEW u \in Tree, Sweep(u) PROVE place'[h] = "unbuilt"
    BY <1>a, <2>5 DEF Sweep
  <2>6. QED
    BY <1>1, <2>1, <2>2, <2>3, <2>4, <2>5 DEF MoverSteps, Clear, Create, Mover
<1>2. CASE HolderSteps
  BY <1>2, <1>a, HoldersPlaces
<1>3. ASSUME NEW p \in Proc, Crash(p) PROVE place'[h] = "unbuilt"
  BY <1>3, <1>a DEF Crash
<1>4. CASE UNCHANGED vars
  BY <1>4, <1>a DEF vars, fileVars
<1>5. QED
  BY <1>1, <1>2, <1>3, <1>4 DEF Next, MoverSteps, HolderSteps

(* What a save or a delete does to a branch.json while exclusion lasts: its  *)
(* own edit is added to it, or it goes.                                      *)
LEMMA HoldersWrite ==
  ASSUME Shapes, BuildInv, LockInv, SaveInv, HolderSteps, NEW t \in Tree
  PROVE  \/ json'[t] = json[t]
         \/ json'[t] = NoJson /\ At(t)
         \/ \E s \in Saver : /\ At(t) /\ Live(t) /\ place' = place
                              /\ json' = [json EXCEPT ![t] = json'[t]]
                              /\ json'[t] # NoJson
                              /\ json'[t].edits = json[t].edits \union {s}
                              /\ json'[t].version = json[t].version + 1
<1> USE DEF Shapes, At, Live
<1>1. ASSUME NEW s \in Saver, Save(s), ~Rename(s) PROVE json' = json
  <2>1. ~Link(s)
    BY DEF Link, SaveInv, Inside
  <2>2. QED
    BY <1>1, <2>1 DEF Save, Open, TakeLock, Refuse, Load, Prepare, Check, Verify,
         Release, fileVars
<1>2. ASSUME NEW s \in Saver, Rename(s), json'[t] # json[t]
      PROVE  /\ At(t) /\ Live(t) /\ place' = place
             /\ json' = [json EXCEPT ![t] = json'[t]]
             /\ json'[t] # NoJson
             /\ json'[t].edits = json[t].edits \union {s}
             /\ json'[t].version = json[t].version + 1
  <2>1. step[s] = "rename" /\ step[s] \in Inside /\ s \in Holder
    BY <1>2 DEF Rename, Inside, Holder
  <2>2. At(tree[s]) /\ tree[s] \in Tree /\ json[tree[s]] # NoJson /\ read[s] = json[tree[s]]
    BY <2>1 DEF LockInv, SaveInv
  <2> DEFINE new == [version |-> read[s].version + 1, by |-> s,
                     edits |-> read[s].edits \union {s}]
  <2>3. json' = [json EXCEPT ![tree[s]] = new] /\ place' = place
    BY <1>2, <2>2 DEF Rename, Write
  <2>4. new # NoJson
    BY <2>2, SentinelAssumption DEF Updates
  <2>5. /\ new.edits = json[tree[s]].edits \union {s}
        /\ new.version = json[tree[s]].version + 1
    BY <2>2
  <2> HIDE DEF new
  <2>6. t = tree[s] /\ json'[t] = new
    BY <1>2, <2>2, <2>3
  <2>7. QED
    BY <2>2, <2>3, <2>4, <2>5, <2>6
<1>3. ASSUME NEW d \in Deleter, Delete(d) PROVE json'[t] = json[t] \/ (json'[t] = NoJson /\ At(t))
  BY <1>3 DEF Delete, OpenToDelete, TakeLock, Refuse, MoveOut, UnlinkOnly, Release, fileVars
<1>4. QED
  BY <1>1, <1>2, <1>3 DEF HolderSteps

(* A first branch.json holds no edits. *)
LEMMA FirstStep ==
  ASSUME Shapes, BuildInv, LockInv, SaveInv, FirstInv, [Next]_vars, intact'
  PROVE  FirstInv'
<1> USE DEF Shapes, At, Live
<1>0. SUFFICES ASSUME NEW t \in Tree, json'[t] # NoJson, json'[t].version = 1
               PROVE  json'[t].edits = {}
  BY DEF FirstInv
<1>1. CASE MoverSteps
  <2>1. CASE \E c \in Creator : Build(c)
    BY <1>0, <2>1 DEF Build, FirstInv
  <2>2. CASE ~\E c \in Creator : Build(c)
    <3>1. json' = json
      BY <1>1, <2>2 DEF MoverSteps, Clear, Create, Quarantine, Look, LookStale, MoveAside,
           Trash, MoveBack, Begin, LockName, NameBusy, Publish, InspectBlocking,
           GiveUp, Unlock, Spot, Sweep
    <3>2. QED
      BY <1>0, <3>1 DEF FirstInv
  <2>3. QED
    BY <2>1, <2>2
<1>2. CASE HolderSteps
  <2>1. Live(t) => json[t].version \in Nat /\ json[t].version > 0
    BY DEF BuildInv, Updates
  <2>2. QED
    BY <1>0, <1>2, <2>1, HoldersWrite DEF FirstInv
<1>3. ASSUME NEW p \in Proc, Crash(p) PROVE json'[t].edits = {}
  BY <1>0, <1>3, DeathLeaves DEF FirstInv
<1>4. CASE UNCHANGED vars
  BY <1>0, <1>4 DEF vars, fileVars, FirstInv
<1>5. QED
  BY <1>1, <1>2, <1>3, <1>4 DEF Next, MoverSteps, HolderSteps

(* A live branch is not trashed, and aside only in hand. *)
LEMMA StayStep ==
  ASSUME Shapes, NameInv, BuildInv, LockInv, SaveInv, HandInv, StayInv,
         [Next]_vars, intact'
  PROVE  StayInv'
<1> USE DEF Shapes, At, Live
<1>0. SUFFICES ASSUME NEW t \in Tree, json'[t] # NoJson
               PROVE  place'[t] # "trash" /\ (place'[t] = "aside" => InHand(t)')
  BY DEF StayInv
<1> DEFINE Goal == place'[t] # "trash" /\ (place'[t] = "aside" => InHand(t)')
<1>1. CASE MoverSteps
  <2>1. place[t] # "unbuilt" => Live(t)
    BY <1>0, <1>1, MoversLeaveJson
  <2>2. ASSUME NEW m \in Mover, MoveAside(m) PROVE Goal
    <3>1. CASE Vacant
      <4>1. place' = place
        BY <2>2, <3>1 DEF MoveAside, Vacant
      <4>2. /\ step' = [step EXCEPT ![m] = Cleared(m)] /\ step[m] = "aside"
            /\ moved' = [moved EXCEPT ![m] = NoTree]
        BY <2>2, <3>1 DEF MoveAside, LetGo, GoTo, Vacant
      <4>3. \A n \in Mover : step[n] = "judge" => step'[n] = "judge" /\ moved'[n] = moved[n]
        BY <4>2 DEF Proc, Mover
      <4>4. QED
        BY <2>1, <4>1, <4>3 DEF StayInv, InHand
    <3>2. CASE ~Vacant
      <4>1. PICK u \in Tree : /\ At(u) /\ place' = [place EXCEPT ![u] = "aside"]
                              /\ moved' = [moved EXCEPT ![m] = u]
                              /\ step' = [step EXCEPT ![m] = "judge"]
        BY <2>2, <3>2 DEF MoveAside, GoTo
      <4>2. CASE t = u
        <5>1. step'[m] = "judge" /\ moved'[m] = t
          BY <4>1, <4>2 DEF Proc
        <5>2. QED
          BY <4>1, <4>2, <5>1 DEF InHand
      <4>3. CASE t # u
        <5>1. place'[t] = place[t]
          BY <4>1, <4>3
        <5>2. \A n \in Mover : step[n] = "judge" => step'[n] = "judge" /\ (n # m => moved'[n] = moved[n])
          BY <4>1 DEF Proc, Mover
        <5>3. step[m] # "judge"
          BY <2>2 DEF MoveAside
        <5>4. QED
          BY <2>1, <5>1, <5>2, <5>3 DEF StayInv, InHand
      <4>4. QED
        BY <4>2, <4>3
    <3>3. QED
      BY <3>1, <3>2
  <2>3. ASSUME NEW m \in Mover, Trash(m) \/ MoveBack(m) PROVE Goal
    <3>1. step[m] = "judge" /\ Vacant
      BY <2>3 DEF Trash, MoveBack, HandInv
    <3>2. CASE t = moved[m]
      <4>1. Live(t)
        BY <2>1, <3>1, <3>2 DEF NameInv
      <4>2. MoveBack(m)
        BY <2>3, <3>2, <4>1 DEF Trash, Condemn
      <4>3. QED
        BY <3>1, <3>2, <4>2 DEF MoveBack
    <3>3. CASE t # moved[m]
      <4>1. place'[t] = place[t]
        BY <2>3, <3>1, <3>3 DEF Trash, MoveBack
      <4>2. \A n \in Mover : step[n] = "judge" /\ moved[n] = t => step'[n] = "judge" /\ moved'[n] = t
        BY <2>3, <3>3 DEF Trash, MoveBack, LetGo, GoTo, Proc, Mover
      <4>3. QED
        BY <2>1, <4>1, <4>2 DEF StayInv, InHand
    <3>4. QED
      BY <3>2, <3>3
  <2>4. ASSUME NEW u \in Tree, Sweep(u) PROVE Goal
    <3>1. t = u => ~Live(t)
      BY <2>4 DEF Sweep, StayInv
    <3>2. t # u
      BY <2>1, <2>4, <3>1 DEF Sweep
    <3>3. place'[t] = place[t] /\ InHand(t)' = InHand(t)
      BY <2>4, <3>2 DEF Sweep, InHand, moveVars
    <3>4. QED
      BY <2>1, <3>3 DEF StayInv
  <2>5. CASE ~(\E m \in Mover : MoveAside(m) \/ Trash(m) \/ MoveBack(m)) /\ ~(\E u \in Tree : Sweep(u))
    <3>1. place'[t] \in {"staged", "gone", "final"} \/ place'[t] = place[t]
      BY <1>1, <2>5 DEF MoverSteps, Clear, Create, Quarantine, Look, LookStale,
           Begin, Build, LockName, NameBusy, Publish, InspectBlocking,
           GiveUp, Unlock, Spot, MoverRest, Mover, Tree
    <3>2. ASSUME NEW m \in Mover, step[m] = "judge"
          PROVE  step'[m] = "judge" /\ moved'[m] = moved[m]
      BY <1>1, <2>5, <3>2 DEF MoverSteps, Clear, Create, Quarantine, Look, LookStale,
           Begin, Build, LockName, NameBusy, Publish, InspectBlocking, GoTo,
           GiveUp, Unlock, Spot, moveVars, Mover, Proc
    <3>3. QED
      BY <2>1, <3>1, <3>2 DEF StayInv, InHand
  <2>6. QED
    BY <2>2, <2>3, <2>4, <2>5
<1>2. CASE HolderSteps
  <2>1. InHand(t)' = InHand(t)
    BY <1>2, HoldersLeaveMovers DEF InHand
  <2>2. place'[t] = place[t] \/ place'[t] = "gone"
    BY <1>2, HoldersPlaces
  <2>3. Live(t)
    BY <1>0, <1>2, HoldersWrite
  <2>4. QED
    BY <2>1, <2>2, <2>3 DEF StayInv
<1>3. ASSUME NEW p \in Proc, Crash(p) PROVE Goal
  <2>1. Live(t) /\ (place'[t] = place[t] \/ place'[t] = "gone")
    BY <1>0, <1>3, DeathLeaves
  <2>2. ASSUME NEW m \in Mover, step[m] = "judge", moved[m] = t PROVE InHand(t)'
    <3>1. m # p
      BY <1>3, <2>1, <2>2 DEF Crash
    <3>2. QED
      BY <1>3, <2>2, <3>1, DeathLeaves DEF InHand
  <2>3. QED
    BY <2>1, <2>2 DEF StayInv, InHand
<1>4. CASE UNCHANGED vars
  BY <1>0, <1>4 DEF vars, fileVars, moveVars, StayInv, InHand
<1> HIDE DEF Goal
<1>5. QED
  BY <1>1, <1>2, <1>3, <1>4 DEF Next, MoverSteps, HolderSteps, Goal

-----------------------------------------------------------------------------
(* The inductive invariant. *)
THEOREM DirectoryInvariant == Spec => []DirectoryInv
<1>1. Init => DirectoryInv
  <2>1. SUFFICES ASSUME Init PROVE DirectoryInv
    OBVIOUS
  <2>2. [version |-> 1, edits |-> {}, by |-> First] \in Updates
    BY DEF Updates
  <2>3. \A t \in Tree : place[t] \in {"unbuilt", "final"} /\ (t # First => place[t] = "unbuilt")
    BY <2>1 DEF Init
  <2>4. \A t \in Tree : json[t] # NoJson => json[t] = [version |-> 1, edits |-> {}, by |-> First]
    BY <2>1 DEF Init
  <2>5. /\ place \in [Tree -> Places] /\ json \in [Tree -> Updates \union {NoJson}]
        /\ marker \in [Tree -> Holder \union {NoOne, Left}]
    BY <2>1, <2>2 DEF Init, Places
  <2>6. \A p \in Proc : step[p] = "idle"
    BY <2>1 DEF Init
  <2>7. Saver \subseteq Proc /\ Deleter \subseteq Proc /\ Mover \subseteq Proc /\ Holder \subseteq Proc
    BY DEF Proc, Holder, Mover
  <2>8. TypeOK
    BY <2>1, <2>5, <2>6, <2>7
       DEF Init, TypeOK, SaveSteps, DeleteSteps, MoveSteps, Inside
  <2>9. NameInv
    BY <2>1, <2>3, <2>6, <2>7 DEF Init, NameInv, At, Naming
  <2>10. BuildInv
    BY <2>1, <2>3, <2>4, <2>6, <2>7 DEF BuildInv, Naming, Live, Tree, Mover
  <2>11. QuietInv
    <3>1. LockInv /\ SaveInv /\ WaitInv /\ HandInv
      BY <2>6, <2>7 DEF LockInv, SaveInv, WaitInv, HandInv, Inside
    <3>2. HuskInv /\ FirstInv /\ StayInv
      BY <2>3, <2>4 DEF HuskInv, FirstInv, StayInv, Live, Tree
    <3>3. QED
      BY <3>1, <3>2 DEF QuietInv
  <2>12. QED
    BY <2>8, <2>9, <2>10, <2>11 DEF DirectoryInv
<1>2. DirectoryInv /\ [Next]_vars => DirectoryInv'
  <2>1. SUFFICES ASSUME DirectoryInv, [Next]_vars PROVE DirectoryInv'
    OBVIOUS
  <2>2. Shapes /\ NameInv /\ BuildInv /\ TypeOK
    BY <2>1, TypesShape DEF DirectoryInv
  <2>3. TypeOK' /\ NameInv' /\ BuildInv'
    BY <2>1, <2>2, TypeStep, NameStep, BuildStep
  <2>4. ASSUME intact' PROVE QuietInv'
    <3>1. QuietInv
      BY <2>1, <2>2, <2>4, IntactBefore DEF DirectoryInv
    <3>2. QED
      BY <2>1, <2>2, <2>4, <3>1, LockStep, SaveStep, WaitStep, HandStep, HuskStep,
         FirstStep, StayStep DEF QuietInv
  <2>5. QED
    BY <2>3, <2>4 DEF DirectoryInv
<1>3. QED
  BY <1>1, <1>2, PTL DEF Spec

(* Every state of the branch's directory is well typed. *)
THEOREM TypeCorrect == Spec => []TypeOK
<1>1. DirectoryInv => TypeOK
  BY DEF DirectoryInv
<1>2. QED
  BY <1>1, DirectoryInvariant, PTL

(* No answered save is lost from a live branch.json while branch.json's lock *)
(* excludes, whatever creates, deletes and quarantines do.                   *)
THEOREM UpdatesAreKept == Spec => []UpdatesSurvive
<1>1. DirectoryInv => UpdatesSurvive
  BY DEF DirectoryInv, QuietInv, SaveInv, UpdatesSurvive
<1>2. QED
  BY <1>1, DirectoryInvariant, PTL

(* [PROV-1]: nothing but a published build comes to stand at the name. *)
THEOREM PublishedWhole == Spec => []NothingHalfMade
<1>1. DirectoryInv => NothingHalfMade
  BY DEF DirectoryInv, QuietInv, HuskInv, FirstInv, NothingHalfMade, At
<1>2. QED
  BY <1>1, DirectoryInvariant, PTL

(* A quarantine that took a live branch for residue puts it back. *)
THEOREM QuarantineSparesBranches == Spec => []LiveBranchesStay
<1>1. DirectoryInv => LiveBranchesStay
  BY DEF DirectoryInv, QuietInv, StayInv, LiveBranchesStay
<1>2. QED
  BY <1>1, DirectoryInvariant, PTL

-----------------------------------------------------------------------------
(* The record. *)

RecordOf(where, content) ==
  IF \E t \in Tree : where[t] \in {"final", "aside"} /\ content[t] # NoJson
    THEN content[CHOOSE t \in Tree :
                   where[t] \in {"final", "aside"} /\ content[t] # NoJson].edits
    ELSE NoJson

Bears(t) == place[t] \in {"final", "aside"} /\ Live(t)

LEMMA RecordIs ==
  /\ Record = RecordOf(place, json)
  /\ Record' = RecordOf(place', json')
BY DEF Record, RecordOf, Live

(* The record of a directory in which one tree bears it. *)
LEMMA RecordOfOne ==
  ASSUME NEW where, NEW content, NEW t \in Tree,
         where[t] \in {"final", "aside"}, content[t] # NoJson,
         \A u \in Tree : where[u] \in {"final", "aside"} /\ content[u] # NoJson => u = t
  PROVE  RecordOf(where, content) = content[t].edits
BY DEF RecordOf

LEMMA RecordOfNone ==
  ASSUME NEW where, NEW content,
         \A u \in Tree : ~(where[u] \in {"final", "aside"} /\ content[u] # NoJson)
  PROVE  RecordOf(where, content) = NoJson
BY DEF RecordOf

(* While exclusion lasts, one tree at most bears the record. *)
LEMMA OneBears ==
  DirectoryInv /\ intact => \A t, u \in Tree : Bears(t) /\ Bears(u) => t = u
<1>1. SUFFICES ASSUME DirectoryInv, intact, NEW t \in Tree, NEW u \in Tree,
                      Bears(t), Bears(u)
               PROVE  t = u
  OBVIOUS
<1>2. NameInv /\ StayInv /\ HandInv
  BY <1>1 DEF DirectoryInv, QuietInv
<1>3. ASSUME NEW v \in Tree, Bears(v), place[v] = "aside"
      PROVE  Vacant /\ \E m \in Mover : step[m] = "judge" /\ moved[m] = v /\ init = m
  BY <1>2, <1>3 DEF Bears, StayInv, HandInv, InHand, NameInv, Naming
<1>4. CASE At(t) /\ At(u)
  BY <1>2, <1>4 DEF NameInv
<1>5. CASE place[t] = "aside" /\ place[u] = "aside"
  BY <1>1, <1>3, <1>5
<1>6. CASE (At(t) /\ place[u] = "aside") \/ (place[t] = "aside" /\ At(u))
  BY <1>1, <1>3, <1>6 DEF Vacant
<1>7. QED
  BY <1>1, <1>4, <1>5, <1>6 DEF Bears, At

(* Creates and quarantines keep the tree that bears the record, and only a   *)
(* publish makes one.                                                        *)
LEMMA MoversBear ==
  ASSUME DirectoryInv, DirectoryInv', intact, intact', MoverSteps, NEW t \in Tree
  PROVE  /\ Bears(t) => Bears(t)' /\ json'[t] = json[t]
         /\ Bears(t)' /\ ~Bears(t) => json'[t].edits = {}
<1> USE DEF At, Live
<1>1. Shapes /\ NameInv /\ BuildInv /\ StayInv' /\ StayInv
  BY TypesShape DEF DirectoryInv, QuietInv
<1>2. place[t] # "unbuilt" => json'[t] = json[t]
  BY <1>1, MoversLeaveJson
<1>3. place[t] \in {"final", "aside"} => place'[t] \in {"final", "aside", "trash"}
  <2>1. ASSUME NEW m \in Mover, Quarantine(m), place[t] \in {"final", "aside"}
        PROVE  place'[t] \in {"final", "aside", "trash"}
    BY <1>1, <2>1 DEF Shapes, Quarantine, Look, LookStale, MoveAside, Trash, MoveBack
  <2>2. ASSUME NEW m \in Mover, NEW next \in {"publish", "look"},
               LockName(m, next) \/ NameBusy(m) \/ Unlock(m), place[t] \in {"final", "aside"}
        PROVE  place'[t] \in {"final", "aside"}
    BY <1>1, <2>2 DEF Shapes, LockName, NameBusy, Unlock, BuildInv, Mover
  <2>3. ASSUME NEW c \in Creator, place[t] \in {"final", "aside"},
               Begin(c) \/ Build(c) \/ Publish(c) \/ InspectBlocking(c) \/ GiveUp(c)
        PROVE  place'[t] \in {"final", "aside"}
    BY <1>1, <2>3 DEF Shapes, Begin, Build, Publish, InspectBlocking, GiveUp, BuildInv
  <2>4. ASSUME Spot PROVE place' = place
    BY <2>4 DEF Spot
  <2>5. ASSUME NEW u \in Tree, Sweep(u), place[t] \in {"final", "aside"}
        PROVE  place'[t] \in {"final", "aside", "trash"}
    BY <1>1, <2>5 DEF Shapes, Sweep
  <2>6. QED
    BY <2>1, <2>2, <2>3, <2>4, <2>5 DEF MoverSteps, Clear, Create, Mover
<1>4. ASSUME Bears(t) PROVE Bears(t)' /\ json'[t] = json[t]
  BY <1>1, <1>2, <1>3, <1>4 DEF Bears, StayInv
<1>5. ASSUME Bears(t)', ~Bears(t) PROVE json'[t].edits = {}
  <2>1. CASE place'[t] = "aside"
    <3>1. PICK m \in Mover : step'[m] = "judge" /\ moved'[m] = t
      BY <1>1, <1>5, <2>1 DEF StayInv, Bears, InHand
    <3>2. place[t] \in {"final", "aside"}
      BY <1>1, <3>1, MoversTake DEF NameInv
    <3>3. QED
      BY <1>2, <1>5, <3>2 DEF Bears
  <2>2. CASE place'[t] = "final"
    <3>1. place[t] \in {"final", "aside"} \/ (place[t] = "staged" /\ Live(t))
      BY <1>1, <2>2, MoversArrive DEF InHand, NameInv
    <3>2. place[t] = "staged" /\ Live(t)
      BY <1>2, <1>5, <3>1 DEF Bears
    <3>3. QED
      BY <1>1, <1>2, <3>2 DEF BuildInv
  <2>3. QED
    BY <1>5, <2>1, <2>2 DEF Bears
<1>6. QED
  BY <1>4, <1>5

(* A save adds its edit to what bears the record, a delete ends it. *)
LEMMA HoldersBear ==
  ASSUME DirectoryInv, intact, HolderSteps, NEW t \in Tree
  PROVE  /\ Bears(t)' => Bears(t)
         /\ Bears(t) /\ ~Bears(t)' => json'[t] = NoJson
         /\ Bears(t)' => \/ json'[t].edits = json[t].edits
                          \/ \E s \in Saver : json'[t].edits = json[t].edits \union {s}
<1>1. Shapes /\ BuildInv /\ LockInv /\ SaveInv
  BY TypesShape DEF DirectoryInv, QuietInv
<1>2. place'[t] = place[t] \/ (At(t) /\ place'[t] = "gone" /\ json'[t] = NoJson)
  BY <1>1, HoldersPlaces DEF Shapes
<1>3. \/ json'[t] = json[t] \/ json'[t] = NoJson
      \/ Live(t) /\ json'[t] # NoJson
           /\ \E s \in Saver : json'[t].edits = json[t].edits \union {s}
  BY <1>1, HoldersWrite
<1>4. QED
  BY <1>2, <1>3 DEF Bears, Live, At

(* Every step is one of the record's, or none. *)
LEMMA RecordStep ==
  ASSUME DirectoryInv, DirectoryInv', [Next]_vars
  PROVE  Promise!Next \/ UNCHANGED Promise!vars
<1> USE DEF Promise!Next, Promise!vars
<1>1. CASE ~intact'
  <2>1. intact' \in BOOLEAN
    BY DEF DirectoryInv, TypeOK
  <2>2. intact' = FALSE
    BY <1>1, <2>1
  <2>3. QED
    BY <2>2 DEF Promise!GiveUp
<1>2. CASE intact'
  <2>1. intact /\ intact' = intact
    <3>1. intact \in BOOLEAN /\ intact' \in BOOLEAN
      BY DEF DirectoryInv, TypeOK
    <3>2. intact
      BY <1>2, TypesShape, IntactBefore DEF DirectoryInv
    <3>3. QED
      BY <1>2, <3>1, <3>2
  <2>2. \A t, u \in Tree : Bears(t) /\ Bears(u) => t = u
    BY <2>1, OneBears
  <2>3. \A t, u \in Tree : Bears(t)' /\ Bears(u)' => t = u
    <3>1. (DirectoryInv /\ intact => \A t, u \in Tree : Bears(t) /\ Bears(u) => t = u)'
      BY OneBears, PTL
    <3>2. QED
      BY <1>2, <3>1
  <2>4. \A t \in Tree : Bears(t) => Record = json[t].edits
    BY <2>2, RecordIs, RecordOfOne DEF Bears, Live
  <2>5. \A t \in Tree : Bears(t)' => Record' = json'[t].edits
    BY <2>3, RecordIs, RecordOfOne DEF Bears, Live
  <2>6. (\A t \in Tree : ~Bears(t)) => Record = NoJson
    BY RecordIs, RecordOfNone DEF Bears, Live
  <2>7. (\A t \in Tree : ~Bears(t)') => Record' = NoJson
    BY RecordIs, RecordOfNone DEF Bears, Live
  <2>8. \A t \in Tree : Bears(t) => json[t].edits # NoJson
    <3>1. \A t \in Tree : Bears(t) => json[t] \in Updates
      BY DEF DirectoryInv, TypeOK, Bears, Live
    <3>2. \A t \in Tree : Bears(t) => json[t].edits \in SUBSET Saver
      BY <3>1 DEF Updates
    <3>3. QED
      BY <3>2, SentinelAssumption
  <2>9. CASE MoverSteps
    <3>1. CASE \E t \in Tree : Bears(t)
      BY <1>2, <2>1, <2>4, <2>5, <2>9, <3>1, MoversBear
    <3>2. CASE \A t \in Tree : ~Bears(t)
      <4>1. CASE \A t \in Tree : ~Bears(t)'
        BY <2>1, <2>6, <2>7, <3>2, <4>1
      <4>2. CASE \E t \in Tree : Bears(t)'
        BY <1>2, <2>1, <2>5, <2>6, <2>9, <3>2, <4>2, MoversBear DEF Promise!Create
      <4>3. QED
        BY <4>1, <4>2
    <3>3. QED
      BY <3>1, <3>2
  <2>10. CASE HolderSteps
    <3>1. CASE \E t \in Tree : Bears(t)'
      <4>1. PICK t \in Tree : Bears(t)' /\ Bears(t)
        BY <2>1, <2>10, <3>1, HoldersBear
      <4>2. Record = json[t].edits /\ Record' = json'[t].edits /\ Record # NoJson
        BY <2>4, <2>5, <2>8, <4>1
      <4>3. CASE json'[t].edits = json[t].edits
        BY <2>1, <4>2, <4>3
      <4>4. CASE \E s \in Saver : json'[t].edits = json[t].edits \union {s}
        BY <2>1, <4>2, <4>4 DEF Promise!Save
      <4>5. QED
        BY <2>1, <2>10, <4>1, <4>3, <4>4, HoldersBear
    <3>2. CASE \A t \in Tree : ~Bears(t)'
      <4>1. CASE \E t \in Tree : Bears(t)
        BY <2>1, <2>4, <2>7, <2>8, <3>2, <4>1 DEF Promise!Delete
      <4>2. CASE \A t \in Tree : ~Bears(t)
        BY <2>1, <2>6, <2>7, <3>2, <4>2
      <4>3. QED
        BY <4>1, <4>2
    <3>3. QED
      BY <3>1, <3>2
  <2>11. CASE (\E p \in Proc : Crash(p)) \/ UNCHANGED vars
    <3>1. Shapes
      BY TypesShape DEF DirectoryInv
    <3>2. json' = json /\ \A t \in Tree : place'[t] = place[t]
                          \/ (place[t] = "staged" /\ place'[t] = "gone")
      BY <2>11, <3>1, DeathLeaves DEF vars, fileVars
    <3>3. \A t \in Tree : Bears(t)' <=> Bears(t)
      BY <3>2 DEF Bears, Live
    <3>4. CASE \E t \in Tree : Bears(t)
      BY <2>1, <2>4, <2>5, <3>2, <3>3, <3>4
    <3>5. CASE \A t \in Tree : ~Bears(t)
      BY <2>1, <2>6, <2>7, <3>3, <3>5
    <3>6. QED
      BY <3>4, <3>5
  <2>12. QED
    BY <2>9, <2>10, <2>11 DEF Next, MoverSteps, HolderSteps
<1>3. QED
  BY <1>1, <1>2

(* The directory, its locks, temporary names and versions implement one      *)
(* record per branch, for any number of saves, creates and deletes.          *)
THEOREM DirectoryImplementsRecord == Spec => ImplementsRecord
<1>1. Init => Promise!Init
  <2>1. SUFFICES ASSUME Init PROVE Promise!Init
    OBVIOUS
  <2>2. \A t \in Tree : json[t] # NoJson => json[t].edits = {}
    BY <2>1 DEF Init
  <2>3. Record \in {NoJson, {}}
    BY <2>2 DEF Record, Live
  <2>4. QED
    BY <2>1, <2>3 DEF Init, Promise!Init
<1>2. DirectoryInv /\ DirectoryInv' /\ [Next]_vars => [Promise!Next]_(Promise!vars)
  BY RecordStep
<1>3. QED
  BY <1>1, <1>2, DirectoryInvariant, PTL DEF Spec, ImplementsRecord, Promise!Spec
=============================================================================
