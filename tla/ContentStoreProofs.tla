------------------------- MODULE ContentStoreProofs -------------------------
(* Proofs about ContentStore, for any number of requests, containers,        *)
(* entries and places, kills, failed unlinks and takeovers: its types, that  *)
(* answered saves stand and keep to their files, that no URL of collections  *)
(* of different paths gets two files, and that the store implements          *)
(* EntryStore.                                                               *)
EXTENDS ContentStore, FiniteSetTheorems, TLAPS

USE NameAssumption

-----------------------------------------------------------------------------
(* The inductive invariant.                                                  *)

(* What a request is at follows from what it was asked for. *)
ControlInv ==
  \A r \in Request :
    /\ pc[r] \notin {"idle"} \union Answered =>
         /\ op[r] \in Operation
         /\ Kind(r) = "rename" =>
              op[r].at # op[r].to /\ Collection[op[r].at] = Collection[op[r].to]
    /\ pc[r] \in {"opened", "put"} => Kind(r) = "write"
    /\ pc[r] = "linked" => Kind(r) = "rename"
    /\ pc[r] = "scanned" => Kind(r) = "repair"
    /\ pc[r] \in Keyed => Kind(r) # "repair"
    /\ pc[r] = "judged" => Kind(r) \in {"write", "rename"}
    /\ pc[r] # "failing" => tries[r] < MaxTries

(* A request past its second resolution has one file. *)
Steady == {"resolved", "judged", "linked", "put"}
FoundInv ==
  \A r \in Request : pc[r] \in Steady =>
    \E f \in File : found[r] = {f} /\ f[1] = op[r].at

(* While no live holder's marker is taken over, who is inside has it.        *)
LockInv ==
  takeovers = 0 => \A r \in Request : pc[r] \in InLock => holder = r /\ ~stale

(* While none has crossed, those inside are one container's, which has       *)
(* entry keys between them, and no repair is among them.                     *)
CrossInv ==
  /\ takeovers = 0 => ~crossed
  /\ ~crossed =>
       \A q, r \in Request :
         q # r /\ pc[q] \in InLock /\ pc[r] \in InLock => ~OnlyMarker(q, r)

KeyInv ==
  \A q, r \in Request :
    q # r /\ home[q] = home[r] => Held(q) \intersect Held(r) = {}

(* Until a request has written, no file has its id. *)
Unwritten == Before \union (InLock \ {"put", "leaving", "failing"})
FreshId(r) ==
  /\ indexed[r][r] = None
  /\ pc[r] \in Unwritten => \A s \in Place : ~On(<<s, r>>)

(* The file a request has found is there, under its id's key, or is a new    *)
(* one's, under the key of a place that has none.                            *)
FoundStays(r) ==
  \A f \in File : pc[r] \in Steady /\ f \in found[r] =>
    \/ key[r] = f[2] /\ On(f)
    \/ /\ Kind(r) = "write" /\ key[r] = op[r].at /\ f[2] = r
       /\ pc[r] # "put" => At(op[r].at) = {}

(* What a request was judged by is so until it has acted on it. *)
JudgmentStays(r) ==
  \A f \in File : pc[r] \in Steady /\ f \in found[r] =>
    /\ pc[r] = "judged" /\ Kind(r) = "write" => file[f] = op[r].token
    /\ pc[r] \in {"judged", "put"} /\ Kind(r) = "write" =>
         \A s \in Place :
           indexed[r][f[2]] = s /\ s # f[1] => ~On(<<s, f[2]>>)
    /\ pc[r] = "judged" /\ Kind(r) = "rename" => At(op[r].to) = {}
    /\ pc[r] = "linked" => file[<<op[r].to, f[2]>>] = file[f]

(* A save's content stands, from its write on. *)
Stands(c) == c \in retired \/ \E f \in File : file[f] = c
ContentStands(r) ==
  pc[r] \in {"put", "saved"} \/ (pc[r] = "leaving" /\ Kind(r) = "write") => Stands(r)

RequestInv ==
  ~crossed => \A r \in Request :
    FreshId(r) /\ FoundStays(r) /\ JudgmentStays(r) /\ ContentStands(r)

(* Nobody has the URL that a create or a rename was let have. *)
Free(s) == \A t \in Place : Rival(t, s) => At(t) = {}
UrlStays(r) ==
  pc[r] = "judged" =>
    /\ Kind(r) = "write" /\ op[r].token = None => Free(op[r].at)
    /\ Kind(r) = "rename" => Free(op[r].to)

UrlInv ==
  takeovers = 0 => UrlsUnique /\ \A r \in Request : UrlStays(r)

SlugInv == ~crossed => SlugsUnique

Base == TypeOK /\ ControlInv /\ FoundInv
Locks == LockInv /\ CrossInv /\ KeyInv
StoreInv == Base /\ Locks /\ RequestInv /\ SlugInv /\ UrlInv

-----------------------------------------------------------------------------
(* Helpers.                                                                  *)

(* A set of numbers has a least one. *)
LEMMA Least ==
  ASSUME NEW S \in SUBSET Nat, S # {}
  PROVE  \E n \in S : \A m \in S : n <= m
<1> DEFINE T == {0..n : n \in S}
<1>1. T \subseteq FiniteSubsetsOf(Nat) /\ T # {}
  <2>1. ASSUME NEW n \in S PROVE 0..n \in FiniteSubsetsOf(Nat)
    <3>1. IsFiniteSet(0..n)
      BY FS_Interval
    <3>2. QED
      BY <3>1 DEF FiniteSubsetsOf
  <2>2. QED
    BY <2>1
<1>2. IsWellFoundedOn(StrictSubsetOrdering(Nat), FiniteSubsetsOf(Nat))
  BY FS_StrictSubsetOrderingWellFounded
<1>3. PICK A \in T : \A B \in T : ~ (<<B, A>> \in StrictSubsetOrdering(Nat))
  <2> HIDE DEF T
  <2> QED
  BY <1>1, <1>2, WFMin
<1>4. PICK n \in S : A = 0..n
  OBVIOUS
<1>5. ASSUME NEW m \in S, m < n
      PROVE FALSE
  <2>1. <<0..m, 0..n>> \in StrictSubsetOrdering(Nat)
    BY <1>5 DEF StrictSubsetOrdering
  <2>2. QED
    BY <2>1, <1>3, <1>4
<1>6. QED
  BY <1>5

(* The smallest of some paths is one of them. *)
LEMMA SmallestIsOne ==
  ASSUME NEW S \in SUBSET Place, S # {}
  PROVE  Smallest(S) \in S
<1> USE RankAssumption
<1>0. {Rank[s] : s \in S} \in SUBSET Nat /\ {Rank[s] : s \in S} # {}
  OBVIOUS
<1>1. PICK n \in {Rank[s] : s \in S} : \A m \in {Rank[s] : s \in S} : n <= m
  <2> DEFINE T == {Rank[s] : s \in S}
  <2> HIDE DEF T
  <2>1. T \in SUBSET Nat /\ T # {}
    BY <1>0 DEF T
  <2>2. \E n \in T : \A m \in T : n <= m
    BY <2>1, Least
  <2>3. QED
    BY <2>2 DEF T
<1>2. PICK s \in S : Rank[s] = n
  OBVIOUS
<1>3. \A t \in S : Rank[s] <= Rank[t]
  BY <1>1, <1>2
<1>4. QED
  BY <1>3 DEF Smallest

(* What the index keeps of an id is where a file of it is, if there is one. *)
LEMMA KeptIsOne ==
  ASSUME NEW i \in Id
  PROVE  /\ Kept(i) \in Place \union {None}
         /\ Kept(i) \in Place => On(<<Kept(i), i>>)
<1>1. CASE PlacesOf(i) = {}
  BY <1>1 DEF Kept, Key
<1>2. CASE PlacesOf(i) # {}
  <2>1. PlacesOf(i) \in SUBSET Place
    BY DEF PlacesOf
  <2>2. Smallest(PlacesOf(i)) \in PlacesOf(i)
    BY <2>1, <1>2, SmallestIsOne
  <2>3. QED
    BY <2>2, <1>2 DEF Kept, PlacesOf
<1>3. QED
  BY <1>1, <1>2

(* Where a request has one file, that is its target. *)
LEMMA TargetIs ==
  ASSUME NEW r, NEW f, found[r] = {f}
  PROVE  Target(r) = f
BY DEF Target

(* What a request resolves is a file of the slug it asks for: a present one, *)
(* or the new one's if there is none.                                        *)
LEMMA ResolutionIs ==
  ASSUME NEW r \in Request, op[r] \in Operation, NEW f \in Resolutions(r)
  PROVE  /\ f \in File /\ f[1] = op[r].at
         /\ On(f) \/ (At(op[r].at) = {} /\ f[2] = r)
         /\ EntryKey(f) \in Key
         /\ EntryKey(f) = IF On(f) THEN f[2] ELSE f[1]
<1> DEFINE s == op[r].at
<1>1. s \in Place /\ r \in Id
  BY DEF Operation, Id
<1>2. CASE At(s) = {}
  <2>1. f = <<s, r>>
    BY <1>2 DEF Resolutions
  <2>2. QED
    BY <2>1, <1>1, <1>2 DEF File, Key, EntryKey, At
<1>3. CASE At(s) # {}
  <2>1. PICK i \in At(s) : f = <<s, i>>
    BY <1>3 DEF Resolutions
  <2>2. i \in Id /\ On(<<s, i>>)
    BY <2>1 DEF At
  <2>3. QED
    BY <2>1, <2>2, <1>1 DEF File, Key, EntryKey
<1>4. QED
  BY <1>2, <1>3

-----------------------------------------------------------------------------
(* The frame of a step: what one request does leaves the others' records.    *)
Alone(r) ==
  \A s \in Request \ {r} :
    /\ home'[s] = home[s] /\ op'[s] = op[s] /\ pc'[s] = pc[s]
    /\ indexed'[s] = indexed[s] /\ quarantined'[s] = quarantined[s]
    /\ key'[s] = key[s] /\ found'[s] = found[s] /\ tries'[s] = tries[s]

RequestStep(r) ==
  \/ Approach(r) \/ EntryStep(r) \/ WriteStep(r) \/ RenameStep(r)
  \/ Delete(r) \/ RepairStep(r) \/ Leave(r)

LEMMA StepIsAlone ==
  ASSUME TypeOK, NEW r \in Request, RequestStep(r)
  PROVE  Alone(r)
<1> USE DEF TypeOK, Alone, GoTo, indexVars
<1>1. CASE Approach(r)
  <2>1. CASE Ask(r)
    BY <2>1 DEF Ask
  <2>2. CASE Warm(r) \/ Enter(r)
    BY <2>2 DEF Warm, Enter
  <2>3. CASE PrePass(r)
    BY <2>3 DEF PrePass, Forget, OnExit
  <2>4. CASE GiveUp(r)
    BY <2>4 DEF GiveUp, Forget, OnExit
  <2>5. QED
    BY <1>1, <2>1, <2>2, <2>3, <2>4 DEF Approach
<1>2. CASE EntryStep(r)
  BY <1>2 DEF EntryStep, TakeKeys, Resolve, Judge
<1>3. CASE WriteStep(r) \/ RenameStep(r) \/ Delete(r)
  BY <1>3 DEF WriteStep, Put, Tidy, RenameStep, Link, Unlink, UnlinkFails, Delete
<1>4. CASE RepairStep(r) \/ Leave(r)
  BY <1>4 DEF RepairStep, Scan, Archive, Leave, Forget, OnExit
<1>5. QED
  BY <1>1, <1>2, <1>3, <1>4 DEF RequestStep


-----------------------------------------------------------------------------
(* Types and control.                                                        *)

LEMMA InitBase ==
  ASSUME Init
  PROVE  Base
<1> USE BoundAssumption
<1>1. file \in [File -> Id \union {None}]
  <2>1. PICK where \in [Original -> Place] :
          file = [f \in File |->
                    IF f[2] \in Original /\ where[f[2]] = f[1] THEN f[2] ELSE None]
    BY DEF Init
  <2>2. QED
    BY <2>1 DEF Id
<1>2. indexed \in [Request -> [Id -> Place \union {None}]]
  BY DEF Init, Blank
<1>3. TypeOK
  <2>1. 0 \in 0..MaxTries /\ 0 \in 0..MaxTroubles
    OBVIOUS
  <2>2. QED
    BY <1>1, <1>2, <2>1 DEF Init, TypeOK, Before
<1>4. ControlInv
  <2>1. \A r \in Request : pc[r] = "idle" /\ tries[r] = 0
    BY DEF Init
  <2>2. 0 < MaxTries
    OBVIOUS
  <2>3. QED
    BY <2>1, <2>2 DEF ControlInv, Keyed
<1>5. FoundInv
  BY DEF Init, FoundInv, Steady
<1>6. QED
  BY <1>3, <1>4, <1>5 DEF Base

(* Forgetting keeps the types. *)
LEMMA ForgetType ==
  ASSUME TypeOK, NEW S \in SUBSET Request, Forget(S)
  PROVE  /\ home' \in [Request -> Process \union {None}]
         /\ op' \in [Request -> Operation \union {None}]
         /\ indexed' \in [Request -> [Id -> Place \union {None}]]
         /\ quarantined' \in [Request -> SUBSET Id]
         /\ key' \in [Request -> Key \union {None}]
         /\ found' \in [Request -> SUBSET File]
         /\ tries' \in [Request -> 0..MaxTries]
<1>1. Blank \in [Id -> Place \union {None}] /\ 0 \in 0..MaxTries
  BY BoundAssumption DEF Blank
<1>2. QED
  BY <1>1 DEF TypeOK, Forget, OnExit

(* One request's new place in its program. *)
LEMMA GoToType ==
  ASSUME TypeOK, NEW r \in Request, NEW to \in Before \union InLock \union Answered,
         GoTo(r, to)
  PROVE  pc' \in [Request -> Before \union InLock \union Answered]
BY DEF TypeOK, GoTo

LEMMA MoreTroubleType ==
  ASSUME TypeOK, MoreTrouble
  PROVE  mishaps + 1 \in 0..MaxTroubles /\ takeovers + 1 \in 0..MaxTroubles
BY BoundAssumption DEF TypeOK, MoreTrouble

LEMMA ApproachType ==
  ASSUME Base, NEW r \in Request, Approach(r)
  PROVE  TypeOK'
<1> USE DEF Base, indexVars, lockVars, boundVars
<1>1. CASE Ask(r)
  <2>1. PICK p \in Process : home' = [home EXCEPT ![r] = p]
    BY <1>1 DEF Ask
  <2>2. PICK o \in Operation :
          /\ op' = [op EXCEPT ![r] = o]
          /\ GoTo(r, CASE o.kind = "write" -> "opened"
                      [] o.kind \in {"rename", "delete"} -> "warm"
                      [] o.kind = "repair" -> "waiting")
    BY <1>1 DEF Ask
  <2>3. o.kind \in Kinds
    BY DEF Operation
  <2>4. \E to \in Before : GoTo(r, to)
    BY <2>2, <2>3 DEF Kinds, Before
  <2>5. QED
    BY <1>1, <2>1, <2>2, <2>4, GoToType DEF Ask, TypeOK
<1>2. CASE Warm(r)
  <2>1. [i \in Id |-> Kept(i)] \in [Id -> Place \union {None}]
    BY KeptIsOne
  <2>2. Duplicated \in SUBSET Id
    BY DEF Duplicated
  <2>3. pc' \in [Request -> Before \union InLock \union Answered]
    BY <1>2, GoToType DEF Warm, Before
  <2>4. QED
    BY <1>2, <2>1, <2>2, <2>3 DEF Warm, TypeOK
<1>3. CASE PrePass(r)
  <2>1. op[r] \in Operation
    BY <1>3 DEF PrePass, ControlInv, Answered
  <2>2. PICK f \in Resolutions(r) :
          \/ /\ key' = [key EXCEPT ![r] = EntryKey(f)] /\ GoTo(r, "waiting")
             /\ UNCHANGED <<home, op, indexVars, found, tries>>
          \/ Forget({r}) /\ GoTo(r, "over")
    BY <1>3 DEF PrePass
  <2>3. EntryKey(f) \in Key
    BY <2>1, ResolutionIs
  <2>4. pc' \in [Request -> Before \union InLock \union Answered]
    BY <2>2, GoToType DEF Before, Answered
  <2>5. CASE Forget({r})
    BY <1>3, <2>4, <2>5, ForgetType DEF PrePass, TypeOK
  <2>6. CASE key' = [key EXCEPT ![r] = EntryKey(f)]
             /\ UNCHANGED <<home, op, indexVars, found, tries>>
    BY <1>3, <2>3, <2>4, <2>6 DEF PrePass, TypeOK
  <2>7. QED
    BY <2>2, <2>5, <2>6
<1>4. CASE Enter(r)
  <2>1. pc' \in [Request -> Before \union InLock \union Answered]
    BY <1>4, GoToType DEF Enter, InLock
  <2>2. takeovers' \in 0..MaxTroubles
    BY <1>4, MoreTroubleType DEF Enter, TypeOK
  <2>3. crossed' \in BOOLEAN
    BY <1>4 DEF Enter, TypeOK
  <2>4. QED
    BY <1>4, <2>1, <2>2, <2>3 DEF Enter, TypeOK
<1>5. CASE GiveUp(r)
  <2>1. pc' \in [Request -> Before \union InLock \union Answered]
    BY <1>5, GoToType DEF GiveUp, Answered
  <2>2. QED
    BY <1>5, <2>1, ForgetType DEF GiveUp, TypeOK
<1>6. QED
  BY <1>1, <1>2, <1>3, <1>4, <1>5 DEF Approach

LEMMA EntryType ==
  ASSUME Base, NEW r \in Request, EntryStep(r)
  PROVE  TypeOK'
<1> USE DEF Base, indexVars, lockVars, boundVars
<1>1. CASE TakeKeys(r)
  BY <1>1, GoToType DEF TakeKeys, TypeOK, InLock, Keyed
<1>2. CASE Resolve(r)
  <2>1. op[r] \in Operation /\ tries[r] < MaxTries
    BY <1>2 DEF Resolve, ControlInv, Answered
  <2>2. PICK f \in Resolutions(r) :
       \/ /\ found' = [found EXCEPT ![r] = {f}] /\ GoTo(r, "resolved")
          /\ UNCHANGED <<key, tries>>
       \/ /\ tries' = [tries EXCEPT ![r] = @ + 1]
          /\ key' = [key EXCEPT ![r] = EntryKey(f)]
          /\ GoTo(r, IF tries'[r] < MaxTries THEN "inside" ELSE "failing")
          /\ UNCHANGED found
       \/ GoTo(r, "failing") /\ UNCHANGED <<key, tries, found>>
    BY <1>2 DEF Resolve
  <2>3. EntryKey(f) \in Key /\ f \in File
    BY <2>1, ResolutionIs
  <2>4. pc' \in [Request -> Before \union InLock \union Answered]
    BY <2>2, GoToType DEF InLock, Keyed
  <2>5. tries[r] + 1 \in 0..MaxTries
    BY <2>1, BoundAssumption DEF TypeOK
  <2>6. key' \in [Request -> Key \union {None}]
    <3>1. key' = [key EXCEPT ![r] = EntryKey(f)] \/ key' = key
      BY <2>2
    <3>2. QED
      BY <3>1, <2>3 DEF TypeOK
  <2>7. found' \in [Request -> SUBSET File]
    <3>1. found' = [found EXCEPT ![r] = {f}] \/ found' = found
      BY <2>2
    <3>2. QED
      BY <3>1, <2>3 DEF TypeOK
  <2>8. tries' \in [Request -> 0..MaxTries]
    BY <2>2, <2>5 DEF TypeOK
  <2>9. QED
    BY <1>2, <2>4, <2>6, <2>7, <2>8 DEF Resolve, TypeOK
<1>3. CASE Judge(r)
  BY <1>3, GoToType DEF Judge, TypeOK, InLock, Keyed
<1>4. QED
  BY <1>1, <1>2, <1>3 DEF EntryStep

(* What a request in its steady part has found, and what it was asked for. *)
LEMMA SteadyType ==
  ASSUME Base, NEW r \in Request, pc[r] \in Steady
  PROVE  /\ op[r] \in Operation /\ Target(r) \in File
         /\ found[r] = {Target(r)} /\ Target(r)[1] = op[r].at
         /\ Dest(r) \in File
         /\ indexed[r][Target(r)[2]] \in Place \union {None}
<1>1. op[r] \in Operation
  BY DEF Base, ControlInv, Steady, Answered
<1>2. PICK f \in File : found[r] = {f} /\ f[1] = op[r].at
  BY DEF Base, FoundInv
<1>3. Target(r) = f
  BY <1>2, TargetIs
<1>4. QED
  BY <1>1, <1>2, <1>3 DEF Dest, File, Operation, Base, TypeOK

LEMMA WorkType ==
  ASSUME Base, NEW r \in Request, WriteStep(r) \/ RenameStep(r) \/ Delete(r)
  PROVE  TypeOK'
<1> USE DEF Base, indexVars, lockVars, boundVars
<1>1. pc[r] \in Steady
  BY DEF WriteStep, RenameStep, Put, Tidy, Link, Unlink, UnlinkFails, Delete, Steady
<1>2. Target(r) \in File /\ op[r] \in Operation
  BY <1>1, SteadyType
<1>3. file[Target(r)] \in Id \union {None} /\ op[r].token \in Id \union {None}
  BY <1>2 DEF TypeOK, Operation
<1>4. CASE Put(r)
  <2>1. r \in Id
    BY DEF Id
  <2>2. QED
    BY <1>4, <1>3, <2>1, GoToType DEF Put, TypeOK, InLock, Keyed
<1>5. CASE Tidy(r)
  BY <1>5, GoToType DEF Tidy, TypeOK, InLock
<1>6. CASE Link(r)
  <2>1. pc' \in [Request -> Before \union InLock \union Answered]
    BY <1>6, GoToType DEF Link, InLock, Keyed
  <2>2. QED
    BY <1>6, <1>3, <2>1 DEF Link, TypeOK
<1>7. CASE Unlink(r)
  <2>1. pc' \in [Request -> Before \union InLock \union Answered]
    BY <1>7, GoToType DEF Unlink, InLock
  <2>2. QED
    BY <1>7, <2>1 DEF Unlink, TypeOK
<1>8. CASE UnlinkFails(r)
  BY <1>8, GoToType, MoreTroubleType DEF UnlinkFails, TypeOK, InLock
<1>9. CASE Delete(r)
  <2>1. pc' \in [Request -> Before \union InLock \union Answered]
    BY <1>9, GoToType DEF Delete, InLock
  <2>2. QED
    BY <1>9, <1>3, <2>1 DEF Delete, TypeOK
<1>10. QED
  BY <1>4, <1>5, <1>6, <1>7, <1>8, <1>9 DEF WriteStep, RenameStep

LEMMA RepairType ==
  ASSUME Base, NEW r \in Request, RepairStep(r) \/ Leave(r)
  PROVE  TypeOK'
<1> USE DEF Base, indexVars, lockVars, boundVars
<1>1. CASE Scan(r)
  <2>1. PICK dropped \in SUBSET File :
          /\ found' = [found EXCEPT ![r] = dropped]
          /\ GoTo(r, IF dropped = {} THEN "failing" ELSE "scanned")
    BY <1>1 DEF Scan
  <2>2. pc' \in [Request -> Before \union InLock \union Answered]
    BY <2>1, GoToType DEF InLock
  <2>3. QED
    BY <1>1, <2>1, <2>2 DEF Scan, TypeOK
<1>2. CASE Archive(r)
  <2>1. PICK f \in found[r] :
       /\ file' = [file EXCEPT ![f] = None]
       /\ retired' = retired \union ({file[f]} \ {None})
       /\ found' = [found EXCEPT ![r] = @ \ {f}]
       /\ GoTo(r, CASE ~On(f) -> "failing"
                   [] On(f) /\ found[r] = {f} -> "leaving"
                   [] On(f) /\ found[r] # {f} -> "scanned")
    BY <1>2 DEF Archive
  <2>2. pc' \in [Request -> Before \union InLock \union Answered]
    <3>1. \E to \in {"failing", "leaving", "scanned"} : GoTo(r, to)
      BY <2>1
    <3>2. QED
      BY <3>1, GoToType DEF InLock
  <2>3. f \in File /\ file[f] \in Id \union {None}
    BY DEF TypeOK
  <2>4. QED
    BY <1>2, <2>1, <2>2, <2>3 DEF Archive, TypeOK
<1>3. CASE Leave(r)
  <2>1. pc' \in [Request -> Before \union InLock \union Answered]
    BY <1>3, GoToType DEF Leave, Outcome, Answered
  <2>2. holder' \in Request \union {None} /\ stale' \in BOOLEAN
    BY <1>3 DEF Leave, TypeOK
  <2>3. QED
    BY <1>3, <2>1, <2>2, ForgetType DEF Leave, TypeOK
<1>4. QED
  BY <1>1, <1>2, <1>3 DEF RepairStep

LEMMA DieType ==
  ASSUME TypeOK, NEW p \in Process, Die(p)
  PROVE  TypeOK'
<1> USE DEF indexVars
<1>1. PICK S \in SUBSET Request : Forget(S) /\ pc' = OnExit(S, pc, "over")
  BY DEF Die
<1>2. pc' \in [Request -> Before \union InLock \union Answered]
  BY <1>1 DEF TypeOK, OnExit, Answered
<1>3. stale' \in BOOLEAN /\ mishaps' \in 0..MaxTroubles
  BY MoreTroubleType DEF Die, TypeOK
<1>4. QED
  BY <1>1, <1>2, <1>3, ForgetType DEF Die, TypeOK

(* What the acting request's record is after a step of it keeps the rules of *)
(* control, if the others' records keep.                                     *)
Controlled(r) ==
  /\ pc[r] \notin {"idle"} \union Answered =>
       /\ op[r] \in Operation
       /\ Kind(r) = "rename" =>
            op[r].at # op[r].to /\ Collection[op[r].at] = Collection[op[r].to]
  /\ pc[r] \in {"opened", "put"} => Kind(r) = "write"
  /\ pc[r] = "linked" => Kind(r) = "rename"
  /\ pc[r] = "scanned" => Kind(r) = "repair"
  /\ pc[r] \in Keyed => Kind(r) # "repair"
  /\ pc[r] = "judged" => Kind(r) \in {"write", "rename"}
  /\ pc[r] # "failing" => tries[r] < MaxTries

OneFound(r) ==
  pc[r] \in Steady => \E f \in File : found[r] = {f} /\ f[1] = op[r].at

LEMMA OthersStay ==
  ASSUME Base, NEW r \in Request, Alone(r), Controlled(r)', OneFound(r)'
  PROVE  ControlInv' /\ FoundInv'
<1>1. ASSUME NEW s \in Request \ {r}
      PROVE  Controlled(s)' /\ OneFound(s)'
  <2>1. Controlled(s) /\ OneFound(s)
    BY DEF Base, ControlInv, FoundInv, Controlled, OneFound
  <2>2. /\ home'[s] = home[s] /\ op'[s] = op[s] /\ pc'[s] = pc[s]
        /\ found'[s] = found[s] /\ tries'[s] = tries[s]
    BY DEF Alone
  <2>3. QED
    BY <2>1, <2>2 DEF Controlled, OneFound, Kind
<1>2. \A s \in Request : Controlled(s)' /\ OneFound(s)'
  BY <1>1
<1>3. QED
  BY <1>2 DEF Controlled, OneFound, ControlInv, FoundInv

(* A request that has ended keeps them. *)
LEMMA EndedIsControlled ==
  ASSUME NEW r \in Request, NEW S \in SUBSET Request, r \in S, Forget(S),
         pc'[r] \in Answered
  PROVE  Controlled(r)' /\ OneFound(r)'
<1>1. tries'[r] = 0 /\ 0 < MaxTries
  BY BoundAssumption DEF Forget, OnExit
<1>2. QED
  BY <1>1 DEF Controlled, OneFound, Answered, Keyed, Steady

LEMMA ControlStep ==
  ASSUME Base, NEW r \in Request, RequestStep(r)
  PROVE  Controlled(r)' /\ OneFound(r)'
<1> USE DEF indexVars, lockVars, boundVars
<1>0. Controlled(r) /\ OneFound(r)
  BY DEF Base, ControlInv, FoundInv, Controlled, OneFound
<1>t. /\ op \in [Request -> Operation \union {None}]
      /\ pc \in [Request -> Before \union InLock \union Answered]
      /\ found \in [Request -> SUBSET File]
      /\ tries \in [Request -> 0..MaxTries]
  BY DEF Base, TypeOK
<1>1. CASE Ask(r)
  <2>1. PICK o \in Operation :
          /\ o.kind = "rename" =>
               o.at # o.to /\ Collection[o.at] = Collection[o.to]
          /\ op' = [op EXCEPT ![r] = o]
          /\ GoTo(r, CASE o.kind = "write" -> "opened"
                      [] o.kind \in {"rename", "delete"} -> "warm"
                      [] o.kind = "repair" -> "waiting")
    BY <1>1 DEF Ask
  <2>2. o.kind \in Kinds /\ op'[r] = o
    BY <1>t, <2>1 DEF Operation
  <2>3. pc'[r] \in {"opened", "warm", "waiting"}
        /\ (pc'[r] = "opened" => o.kind = "write")
    BY <1>t, <2>1, <2>2 DEF Kinds, GoTo
  <2>4. tries'[r] < MaxTries
    BY <1>1, <1>0 DEF Ask, Controlled
  <2>5. QED
    BY <2>1, <2>2, <2>3, <2>4 DEF Controlled, OneFound, Kind, Keyed, Steady
<1>2. CASE Warm(r)
  <2>1. pc'[r] = "warm" /\ op'[r] = op[r] /\ tries'[r] = tries[r]
    BY <1>2, <1>t DEF Warm, GoTo
  <2>2. QED
    BY <1>0, <1>2, <2>1 DEF Warm, Controlled, OneFound, Kind, Keyed, Steady, Answered
<1>3. CASE PrePass(r)
  <2>1. CASE pc'[r] = "waiting" /\ op' = op /\ tries' = tries
    BY <1>0, <1>3, <2>1 DEF PrePass, Controlled, OneFound, Kind, Keyed, Steady, Answered
  <2>2. CASE Forget({r}) /\ pc'[r] = "over"
    BY <2>2, EndedIsControlled DEF Answered
  <2>3. QED
    BY <1>3, <1>t, <2>1, <2>2 DEF PrePass, GoTo
<1>4. CASE Enter(r)
  <2>1. pc'[r] = "inside" /\ op'[r] = op[r] /\ tries'[r] = tries[r]
    BY <1>4, <1>t DEF Enter, GoTo
  <2>2. QED
    BY <1>0, <1>4, <2>1 DEF Enter, Controlled, OneFound, Kind, Keyed, Steady, Answered
<1>5. CASE GiveUp(r)
  BY <1>5, <1>t, EndedIsControlled DEF GiveUp, GoTo, Answered
<1>6. CASE TakeKeys(r)
  <2>1. pc'[r] = "keyed" /\ op'[r] = op[r] /\ tries'[r] = tries[r]
    BY <1>6, <1>t DEF TakeKeys, GoTo
  <2>2. QED
    BY <1>0, <1>6, <2>1 DEF TakeKeys, Controlled, OneFound, Kind, Keyed, Steady, Answered
<1>7. CASE Resolve(r)
  <2>0. pc[r] = "keyed" /\ op[r] \in Operation /\ op' = op
    BY <1>7, <1>0 DEF Resolve, Controlled, Answered
  <2>1. PICK f \in Resolutions(r) :
       \/ /\ found' = [found EXCEPT ![r] = {f}] /\ GoTo(r, "resolved")
          /\ UNCHANGED <<key, tries>>
       \/ /\ tries' = [tries EXCEPT ![r] = @ + 1]
          /\ GoTo(r, IF tries'[r] < MaxTries THEN "inside" ELSE "failing")
       \/ GoTo(r, "failing") /\ UNCHANGED <<key, tries, found>>
    BY <1>7 DEF Resolve
  <2>2. f \in File /\ f[1] = op[r].at
    BY <2>0, ResolutionIs
  <2>3. CASE found' = [found EXCEPT ![r] = {f}] /\ pc'[r] = "resolved" /\ tries' = tries
    <3>1. found'[r] = {f}
      BY <2>3, <1>t
    <3>2. QED
      BY <1>0, <2>0, <2>2, <2>3, <3>1
      DEF Controlled, OneFound, Kind, Keyed, Steady, Answered
  <2>4. CASE pc'[r] = IF tries'[r] < MaxTries THEN "inside" ELSE "failing"
    BY <1>0, <2>0, <2>4 DEF Controlled, OneFound, Kind, Keyed, Steady, Answered
  <2>5. CASE pc'[r] = "failing"
    BY <1>0, <2>0, <2>5 DEF Controlled, OneFound, Kind, Keyed, Steady, Answered
  <2>6. QED
    BY <1>t, <2>1, <2>3, <2>4, <2>5 DEF GoTo
<1>8. CASE Judge(r)
  <2>1. pc'[r] \in {"judged", "failing"} /\ op'[r] = op[r] /\ tries'[r] = tries[r]
        /\ found'[r] = found[r]
    BY <1>8, <1>t DEF Judge, GoTo
  <2>2. QED
    BY <1>0, <1>8, <2>1 DEF Judge, Controlled, OneFound, Kind, Keyed, Steady, Answered
<1>9. CASE WriteStep(r) \/ RenameStep(r) \/ Delete(r)
  <2>1. pc[r] \in Steady /\ op' = op /\ tries' = tries /\ found' = found
    BY <1>9 DEF WriteStep, RenameStep, Put, Tidy, Link, Unlink, UnlinkFails, Delete,
                Steady
  <2>2. \/ pc[r] = "judged" /\ Kind(r) = "write" /\ pc'[r] = "put"
        \/ pc[r] = "judged" /\ Kind(r) = "rename" /\ pc'[r] = "linked"
        \/ pc'[r] \in {"leaving", "failing"}
    BY <1>9, <1>t DEF WriteStep, RenameStep, Put, Tidy, Link, Unlink, UnlinkFails, Delete,
                GoTo
  <2>3. tries[r] < MaxTries /\ op[r] \in Operation /\ Kind(r)' = Kind(r)
    BY <2>1, <1>0 DEF Controlled, Steady, Answered, Kind
  <2>4. QED
    BY <1>0, <2>1, <2>2, <2>3 DEF Controlled, OneFound, Keyed, Steady, Answered, Kind
<1>10. CASE RepairStep(r)
  <2>1. /\ pc[r] \in {"inside", "scanned"} /\ Kind(r) = "repair"
        /\ op' = op /\ tries' = tries
    BY <1>10, <1>0 DEF RepairStep, Scan, Archive, Controlled
  <2>2. pc'[r] \in {"scanned", "failing", "leaving"}
    <3>1. CASE Scan(r)
      BY <3>1, <1>t DEF Scan, GoTo
    <3>2. CASE Archive(r)
      BY <3>2, <1>t DEF Archive, GoTo
    <3>3. QED
      BY <1>10, <3>1, <3>2 DEF RepairStep
  <2>3. QED
    BY <1>0, <2>1, <2>2 DEF Controlled, OneFound, Keyed, Steady, Answered, Kind
<1>11. CASE Leave(r)
  <2>1. Forget({r}) /\ pc'[r] \in Answered
    BY <1>11, <1>t DEF Leave, Outcome, GoTo, Answered
  <2>2. QED
    BY <2>1, EndedIsControlled
<1>12. QED
  BY <1>1, <1>2, <1>3, <1>4, <1>5, <1>6, <1>7, <1>8, <1>9, <1>10, <1>11
  DEF RequestStep, Approach, EntryStep

LEMMA DieControl ==
  ASSUME Base, NEW p \in Process, Die(p)
  PROVE  ControlInv' /\ FoundInv'
<1>1. PICK S \in SUBSET Request : Forget(S) /\ pc' = OnExit(S, pc, "over")
  BY DEF Die
<1>2. ASSUME NEW r \in Request
      PROVE  Controlled(r)' /\ OneFound(r)'
  <2>1. CASE r \in S
    BY <1>1, <2>1, EndedIsControlled DEF OnExit, Answered
  <2>2. CASE r \notin S
    <3>1. Controlled(r) /\ OneFound(r)
      BY DEF Base, ControlInv, FoundInv, Controlled, OneFound
    <3>2. /\ op'[r] = op[r] /\ pc'[r] = pc[r]
          /\ found'[r] = found[r] /\ tries'[r] = tries[r]
      BY <1>1, <2>2 DEF Forget, OnExit
    <3>3. QED
      BY <3>1, <3>2 DEF Controlled, OneFound, Kind
  <2>3. QED
    BY <2>1, <2>2
<1>3. QED
  BY <1>2 DEF Controlled, OneFound, ControlInv, FoundInv

(* Every step keeps the types and the rules of control. *)
LEMMA BaseStep ==
  ASSUME Base, [Next]_vars
  PROVE  Base'
<1>1. ASSUME NEW r \in Request, RequestStep(r)
      PROVE  Base'
  <2>1. TypeOK'
    BY <1>1, ApproachType, EntryType, WorkType, RepairType DEF RequestStep
  <2>2. ControlInv' /\ FoundInv'
    BY <1>1, StepIsAlone, ControlStep, OthersStay DEF Base
  <2>3. QED
    BY <2>1, <2>2 DEF Base
<1>2. ASSUME NEW p \in Process, Die(p)
      PROVE  Base'
  BY <1>2, DieType, DieControl DEF Base
<1>3. CASE UNCHANGED vars
  <2>1. TypeOK'
    BY <1>3 DEF Base, TypeOK, vars, indexVars, lockVars, boundVars
  <2>2. ControlInv' /\ FoundInv'
    BY <1>3 DEF Base, ControlInv, FoundInv, Kind, vars
  <2>3. QED
    BY <2>1, <2>2 DEF Base
<1>4. QED
  BY <1>1, <1>2, <1>3 DEF Next, RequestStep, Finished

-----------------------------------------------------------------------------
(* The locks.                                                                *)

(* A request that is inside the lock after a step was so before, and holds   *)
(* no new key.                                                               *)
Inner(s) ==
  /\ pc'[s] \in InLock =>
       pc[s] \in InLock /\ home'[s] = home[s] /\ op'[s] = op[s]
  /\ Held(s)' \subseteq Held(s)

LEMMA OthersInner ==
  ASSUME NEW r \in Request, Alone(r), Inner(r)
  PROVE  \A s \in Request : Inner(s)
<1>1. ASSUME NEW s \in Request \ {r}
      PROVE  Inner(s)
  BY DEF Alone, Inner, Held, Keys, Kind
<1>2. QED
  BY <1>1

LEMMA StepInner ==
  ASSUME Base, NEW r \in Request, RequestStep(r), ~Enter(r), ~TakeKeys(r)
  PROVE  \A s \in Request : Inner(s)
<1> USE DEF indexVars, lockVars, boundVars
<1>t. pc \in [Request -> Before \union InLock \union Answered]
  BY DEF Base, TypeOK
<1>1. CASE Approach(r)
  <2>1. pc'[r] \notin InLock
    <3>1. CASE Ask(r)
      <4>1. PICK o \in Operation :
              GoTo(r, CASE o.kind = "write" -> "opened"
                      [] o.kind \in {"rename", "delete"} -> "warm"
                      [] o.kind = "repair" -> "waiting")
        BY <3>1 DEF Ask
      <4>2. o.kind \in Kinds
        BY DEF Operation
      <4>3. QED
        BY <1>t, <4>1, <4>2 DEF Kinds, GoTo, InLock, Keyed
    <3>2. CASE Warm(r) \/ PrePass(r) \/ GiveUp(r)
      BY <1>t, <3>2 DEF Warm, PrePass, GiveUp, GoTo, InLock, Keyed
    <3>3. QED
      BY <1>1, <3>1, <3>2 DEF Approach
  <2>2. QED
    BY <2>1, StepIsAlone, OthersInner DEF Base, Inner, Held, InLock
<1>2. CASE Resolve(r)
  <2>1. pc[r] = "keyed" /\ home' = home /\ op' = op
    BY <1>2 DEF Resolve
  <2>2. \/ pc'[r] = "resolved" /\ key' = key
        \/ pc'[r] \in {"inside", "failing"}
    BY <1>2, <1>t DEF Resolve, GoTo
  <2>3. Inner(r)
    BY <2>1, <2>2 DEF Inner, Held, Keys, Kind, Keyed, InLock
  <2>4. QED
    BY <2>3, StepIsAlone, OthersInner DEF Base
<1>3. CASE Judge(r) \/ WriteStep(r) \/ RenameStep(r) \/ Delete(r)
  <2>1. pc[r] \in Steady /\ home' = home /\ op' = op /\ key' = key
    BY <1>3 DEF WriteStep, RenameStep, Put, Tidy, Link, Unlink, UnlinkFails, Delete,
                Judge, Steady
  <2>2. Inner(r)
    BY <2>1 DEF Inner, Held, Keys, Kind, Keyed, InLock, Steady
  <2>3. QED
    BY <2>2, StepIsAlone, OthersInner DEF Base
<1>4. CASE RepairStep(r)
  <2>1. /\ pc[r] \in {"inside", "scanned"}
        /\ home' = home /\ op' = op /\ key' = key
    BY <1>4 DEF RepairStep, Scan, Archive
  <2>2. pc'[r] \in {"scanned", "failing", "leaving"}
    <3>1. CASE Scan(r)
      BY <3>1, <1>t DEF Scan, GoTo
    <3>2. CASE Archive(r)
      BY <3>2, <1>t DEF Archive, GoTo
    <3>3. QED
      BY <1>4, <3>1, <3>2 DEF RepairStep
  <2>3. Inner(r)
    BY <2>1, <2>2 DEF Inner, Held, Keyed, InLock
  <2>4. QED
    BY <2>3, StepIsAlone, OthersInner DEF Base
<1>5. CASE Leave(r)
  <2>1. pc'[r] \in Answered
    BY <1>5, <1>t DEF Leave, Outcome, GoTo, Answered
  <2>2. Inner(r)
    BY <2>1 DEF Inner, Held, Keyed, InLock, Answered
  <2>3. QED
    BY <2>2, StepIsAlone, OthersInner DEF Base
<1>6. QED
  BY <1>1, <1>2, <1>3, <1>4, <1>5 DEF RequestStep, EntryStep

LEMMA DieInner ==
  ASSUME NEW p \in Process, Die(p)
  PROVE  \A s \in Request : Inner(s)
<1>1. PICK S \in SUBSET Request : Forget(S) /\ pc' = OnExit(S, pc, "over")
  BY DEF Die
<1>2. ASSUME NEW s \in Request
      PROVE  Inner(s)
  <2>1. CASE s \in S
    BY <1>1, <2>1 DEF OnExit, Inner, Held, Keyed, InLock
  <2>2. CASE s \notin S
    BY <1>1, <2>2 DEF OnExit, Forget, Inner, Held, Keys, Kind
  <2>3. QED
    BY <2>1, <2>2
<1>3. QED
  BY <1>2

(* Keys that nobody adds to stay apart. *)
LEMMA InnerKeys ==
  ASSUME KeyInv, \A s \in Request : Inner(s)
  PROVE  KeyInv'
<1>1. ASSUME NEW q \in Request, NEW r \in Request, q # r, home'[q] = home'[r],
             Held(q)' \intersect Held(r)' # {}
      PROVE  FALSE
  <2>1. pc'[q] \in InLock /\ pc'[r] \in InLock
    BY <1>1 DEF Held, InLock
  <2>2. Held(q) \intersect Held(r) = {}
    BY <2>1, <1>1 DEF KeyInv, Inner
  <2>3. QED
    BY <2>2, <1>1 DEF Inner
<1>2. QED
  BY <1>1 DEF KeyInv

LEMMA InnerCross ==
  ASSUME CrossInv, \A s \in Request : Inner(s), crossed' = crossed,
         takeovers' = 0 => takeovers = 0
  PROVE  CrossInv'
BY DEF CrossInv, Inner, OnlyMarker, Kind

LEMMA InnerLock ==
  ASSUME LockInv, \A s \in Request : Inner(s), takeovers' = takeovers,
         \A s \in Request : pc'[s] \in InLock /\ holder = s /\ ~stale =>
           holder' = s /\ ~stale'
  PROVE  LockInv'
BY DEF LockInv, Inner

LEMMA EnterLocks ==
  ASSUME Base, Locks, NEW r \in Request, Enter(r)
  PROVE  Locks'
<1> USE DEF indexVars
<1>t. /\ pc \in [Request -> Before \union InLock \union Answered]
      /\ takeovers \in Nat
  BY BoundAssumption DEF Base, TypeOK
<1>1. pc[r] = "waiting" /\ pc' = [pc EXCEPT ![r] = "inside"]
  BY <1>t DEF Enter, GoTo
<1>2. /\ home' = home /\ op' = op /\ key' = key
      /\ holder' = r /\ stale' = FALSE
      /\ crossed' = (crossed \/ \E q \in Request :
                                  pc[q] \in InLock /\ OnlyMarker(q, r))
  BY DEF Enter
<1>3. takeovers' = 0 => takeovers = 0 /\ (holder = None \/ stale)
  BY <1>t DEF Enter
<1>4. takeovers' = 0 => \A s \in Request : pc[s] \notin InLock
  BY <1>3 DEF Locks, LockInv, Key, Id
<1>5. LockInv'
  BY <1>1, <1>t, <1>2, <1>4 DEF LockInv
<1>6. CrossInv'
  <2>1. takeovers' = 0 => ~crossed'
    BY <1>2, <1>3, <1>4 DEF Locks, CrossInv
  <2>2. ASSUME ~crossed', NEW q \in Request, NEW s \in Request, q # s,
               pc'[q] \in InLock, pc'[s] \in InLock
        PROVE  ~OnlyMarker(q, s)'
    <3>1. OnlyMarker(q, s)' = OnlyMarker(q, s) /\ OnlyMarker(q, s) = OnlyMarker(s, q)
      BY <1>2 DEF OnlyMarker, Kind
    <3>2. CASE q # r /\ s # r
      BY <3>1, <3>2, <2>2, <1>1, <1>t, <1>2 DEF Locks, CrossInv
    <3>3. CASE q = r
      BY <3>1, <3>3, <2>2, <1>1, <1>t, <1>2
    <3>4. CASE s = r
      BY <3>1, <3>4, <2>2, <1>1, <1>t, <1>2
    <3>5. QED
      BY <3>2, <3>3, <3>4
  <2>3. QED
    BY <2>1, <2>2 DEF CrossInv
<1>7. KeyInv'
  <2>1. \A s \in Request : Held(s)' = Held(s)
    BY <1>1, <1>t, <1>2 DEF Held, Keys, Kind, Keyed
  <2>2. QED
    BY <2>1, <1>2 DEF Locks, KeyInv
<1>8. QED
  BY <1>5, <1>6, <1>7 DEF Locks

LEMMA TakeKeysLocks ==
  ASSUME Base, Locks, NEW r \in Request, TakeKeys(r)
  PROVE  Locks'
<1> USE DEF indexVars, lockVars, boundVars
<1>t. pc \in [Request -> Before \union InLock \union Answered]
  BY DEF Base, TypeOK
<1>1. /\ pc[r] = "inside" /\ pc' = [pc EXCEPT ![r] = "keyed"]
      /\ home' = home /\ op' = op /\ key' = key
      /\ holder' = holder /\ stale' = stale
      /\ crossed' = crossed /\ takeovers' = takeovers
  BY DEF TakeKeys, GoTo
<1>2. \A s \in Request : pc'[s] \in InLock => pc[s] \in InLock
  BY <1>1, <1>t DEF InLock, Keyed
<1>3. LockInv'
  BY <1>1, <1>2 DEF Locks, LockInv
<1>4. CrossInv'
  BY <1>1, <1>2 DEF Locks, CrossInv, OnlyMarker, Kind
<1>5. KeyInv'
  <2>1. /\ \A s \in Request \ {r} : Held(s)' = Held(s)
        /\ Held(r)' = Keys(r)
    BY <1>1, <1>t DEF Held, Keys, Kind, Keyed
  <2>2. \A q \in Request \ {r} : home[q] = home[r] => Held(q) \intersect Keys(r) = {}
    BY DEF TakeKeys
  <2>3. QED
    BY <2>1, <2>2, <1>1 DEF Locks, KeyInv
<1>6. QED
  BY <1>3, <1>4, <1>5 DEF Locks

(* Every step keeps the locks' rules. *)
LEMMA LocksStep ==
  ASSUME Base, Locks, [Next]_vars
  PROVE  Locks'
<1> USE DEF indexVars, lockVars, boundVars
<1>1. ASSUME NEW r \in Request, RequestStep(r)
      PROVE  Locks'
  <2>1. CASE Enter(r)
    BY <2>1, EnterLocks
  <2>2. CASE TakeKeys(r)
    BY <2>2, TakeKeysLocks
  <2>3. CASE ~Enter(r) /\ ~TakeKeys(r)
    <3>1. \A s \in Request : Inner(s)
      BY <1>1, <2>3, StepInner
    <3>2. crossed' = crossed /\ takeovers' = takeovers
      BY <1>1, <2>3 DEF RequestStep, Approach, Ask, Warm, PrePass, GiveUp, EntryStep, Resolve,
        Judge, WriteStep, Put, Tidy, RenameStep, Link, Unlink, UnlinkFails, Delete,
        RepairStep, Scan, Archive, Leave
    <3>3. CASE Leave(r)
      <4>1. pc[r] \in InLock /\ pc'[r] \notin InLock
        BY <3>3 DEF Leave, Outcome, GoTo, Base, TypeOK, InLock, Keyed
      <4>2. takeovers = 0 => \A s \in Request \ {r} : pc[s] \notin InLock
        BY <4>1 DEF Locks, LockInv
      <4>3. LockInv'
        BY <3>1, <3>2, <4>1, <4>2 DEF LockInv, Inner
      <4>4. QED
        BY <3>1, <3>2, <4>3, InnerKeys, InnerCross DEF Locks
    <3>4. CASE ~Leave(r)
      <4>1. holder' = holder /\ stale' = stale
        BY <1>1, <2>3, <3>4 DEF RequestStep, Approach, Ask, Warm, PrePass, GiveUp,
          EntryStep, Resolve, Judge, WriteStep, Put, Tidy, RenameStep, Link, Unlink,
          UnlinkFails, Delete, RepairStep, Scan, Archive
      <4>2. QED
        BY <3>1, <3>2, <4>1, InnerKeys, InnerCross, InnerLock DEF Locks
    <3>5. QED
      BY <3>3, <3>4
  <2>4. QED
    BY <2>1, <2>2, <2>3
<1>2. ASSUME NEW p \in Process, Die(p)
      PROVE  Locks'
  <2>1. \A s \in Request : Inner(s)
    BY <1>2, DieInner
  <2>2. PICK S \in SUBSET Request :
          /\ pc' = OnExit(S, pc, "over") /\ stale' = (stale \/ holder \in S)
          /\ holder' = holder /\ crossed' = crossed /\ takeovers' = takeovers
    BY <1>2 DEF Die
  <2>3. \A s \in Request : pc'[s] \in InLock => s \notin S
    BY <2>2 DEF OnExit, InLock, Keyed
  <2>4. QED
    BY <2>1, <2>2, <2>3, InnerKeys, InnerCross, InnerLock DEF Locks
<1>3. CASE UNCHANGED vars
  BY <1>3 DEF vars, Locks, LockInv, CrossInv, OnlyMarker, Kind, KeyInv, Held, Keys
<1>4. QED
  BY <1>1, <1>2, <1>3 DEF Next, RequestStep, Finished

-----------------------------------------------------------------------------
(* What one step does to the files.                                          *)

(* What the invariant says of the one file that a request has found. *)
LEMMA OnTarget ==
  ASSUME StoreInv, ~crossed, NEW r \in Request, pc[r] \in Steady
  PROVE  /\ \/ key[r] = Target(r)[2] /\ On(Target(r))
            \/ /\ Kind(r) = "write" /\ key[r] = op[r].at /\ Target(r)[2] = r
               /\ pc[r] # "put" => At(op[r].at) = {}
         /\ pc[r] = "judged" /\ Kind(r) = "write" => file[Target(r)] = op[r].token
         /\ pc[r] \in {"judged", "put"} /\ Kind(r) = "write" =>
              ~(Relocates(r) /\ On(Indexed(r)))
         /\ pc[r] = "judged" /\ Kind(r) = "rename" => At(op[r].to) = {}
         /\ pc[r] = "linked" => file[Dest(r)] = file[Target(r)]
<1>1. /\ Target(r) \in File /\ Target(r) \in found[r]
      /\ indexed[r][Target(r)[2]] \in Place \union {None}
  BY SteadyType DEF StoreInv
<1>2. FoundStays(r) /\ JudgmentStays(r)
  BY DEF StoreInv, RequestInv
<1>3. \/ key[r] = Target(r)[2] /\ On(Target(r))
      \/ /\ Kind(r) = "write" /\ key[r] = op[r].at /\ Target(r)[2] = r
         /\ pc[r] # "put" => At(op[r].at) = {}
  BY <1>1, <1>2 DEF FoundStays
<1>4. /\ pc[r] = "judged" /\ Kind(r) = "write" => file[Target(r)] = op[r].token
      /\ pc[r] \in {"judged", "put"} /\ Kind(r) = "write" =>
           \A s \in Place : indexed[r][Target(r)[2]] = s /\ s # Target(r)[1] =>
             ~On(<<s, Target(r)[2]>>)
      /\ pc[r] = "judged" /\ Kind(r) = "rename" => At(op[r].to) = {}
      /\ pc[r] = "linked" => file[<<op[r].to, Target(r)[2]>>] = file[Target(r)]
  BY <1>1, <1>2 DEF JudgmentStays
<1>5. QED
  BY <1>1, <1>3, <1>4 DEF Relocates, Indexed, Dest

(* A write, a link, an unlink, a delete or an archive: one file has a new    *)
(* content, or none.                                                         *)
Sets(g, v) == g \in File /\ v \in Id \union {None} /\ file' = [file EXCEPT ![g] = v]

(* A file that is new has a place that was free, and an id that is the       *)
(* request's or on some file already.                                        *)
Proper(q, g, v) ==
  v # None /\ ~On(g) =>
    /\ At(g[1]) = {}
    /\ g[2] = q \/ \E f \in File : On(f) /\ f[2] = g[2]

(* The request has the file's id locked, or the id is its own and new; and   *)
(* a new file's place.                                                       *)
Covered(q, g, v) ==
  \/ pc[q] = "scanned" /\ v = None
  \/ /\ pc[q] \in Keyed
     /\ g[2] \in Held(q) \/ (g[2] = q /\ pc[q] = "judged")
     /\ ~On(g) => g[1] \in Held(q)

Effect(q, g, v) == Sets(g, v) /\ Proper(q, g, v) /\ Covered(q, g, v)

LEMMA PutEffect ==
  ASSUME StoreInv, ~crossed, NEW r \in Request, Put(r)
  PROVE  /\ Effect(r, Target(r), r)
         /\ file[Target(r)] = op[r].token
         /\ ~On(Target(r)) => op[r].token = None /\ key[r] = op[r].at
         /\ Target(r)[1] = op[r].at
<1>1. pc[r] = "judged" /\ Kind(r) = "write" /\ pc[r] \in Steady /\ pc[r] \in Keyed
  BY DEF Put, Steady, Keyed
<1>2. Target(r) \in File /\ Target(r)[1] = op[r].at /\ r \in Id
  BY <1>1, SteadyType DEF StoreInv, Id
<1>3. /\ \/ key[r] = Target(r)[2] /\ On(Target(r))
         \/ key[r] = op[r].at /\ Target(r)[2] = r /\ At(op[r].at) = {}
      /\ file[Target(r)] = op[r].token
  BY <1>1, OnTarget
<1>4. key[r] \in Held(r)
  BY <1>1 DEF Held, Keys
<1>5. Sets(Target(r), r)
  BY <1>2 DEF Sets, Put
<1>6. QED
  BY <1>1, <1>2, <1>3, <1>4, <1>5 DEF Effect, Proper, Covered, On

LEMMA TidyEffect ==
  ASSUME StoreInv, ~crossed, NEW r \in Request, Tidy(r)
  PROVE  file' = file
<1>1. pc[r] = "put" /\ Kind(r) = "write" /\ pc[r] \in Steady
  BY DEF Tidy, Steady, StoreInv, Base, ControlInv
<1>2. ~(Relocates(r) /\ On(Indexed(r)))
  BY <1>1, OnTarget
<1>3. file \in [File -> Id \union {None}]
  BY DEF StoreInv, Base, TypeOK
<1>4. CASE ~Relocates(r)
  BY <1>4 DEF Tidy
<1>5. CASE Relocates(r) /\ ~On(Indexed(r))
  BY <1>3, <1>5 DEF Tidy, On
<1>6. QED
  BY <1>2, <1>4, <1>5

LEMMA LinkEffect ==
  ASSUME StoreInv, ~crossed, NEW r \in Request, Link(r)
  PROVE  \/ file' = file /\ pc'[r] = "failing"
         \/ /\ Effect(r, Dest(r), file[Target(r)])
            /\ On(Target(r)) /\ ~On(Dest(r)) /\ Dest(r) # Target(r)
<1>1. pc[r] = "judged" /\ Kind(r) = "rename" /\ pc[r] \in Steady /\ pc[r] \in Keyed
  BY DEF Link, Steady, Keyed
<1>2. /\ Target(r) \in File /\ Target(r)[1] = op[r].at /\ Dest(r) \in File
      /\ op[r] \in Operation
  BY <1>1, SteadyType DEF StoreInv
<1>3. /\ key[r] = Target(r)[2] /\ On(Target(r))
      /\ At(op[r].to) = {}
  BY <1>1, OnTarget
<1>4. Held(r) = {key[r], op[r].to}
  BY <1>1 DEF Held, Keys
<1>5. op[r].at # op[r].to
  BY <1>1 DEF StoreInv, Base, ControlInv, Answered
<1>6. Dest(r)[1] = op[r].to /\ Dest(r)[2] = Target(r)[2] /\ Dest(r) # Target(r)
  BY <1>2, <1>5 DEF Dest
<1>7. file[Target(r)] \in Id \union {None}
  BY <1>2 DEF StoreInv, Base, TypeOK
<1>8. CASE ~(On(Target(r)) /\ ~On(Dest(r)))
  BY <1>8 DEF Link, GoTo, StoreInv, Base, TypeOK
<1>9. CASE On(Target(r)) /\ ~On(Dest(r))
  <2>1. Sets(Dest(r), file[Target(r)])
    BY <1>2, <1>7, <1>9 DEF Sets, Link
  <2>2. Proper(r, Dest(r), file[Target(r)])
    BY <1>2, <1>3, <1>6 DEF Proper
  <2>3. Covered(r, Dest(r), file[Target(r)])
    BY <1>1, <1>3, <1>4, <1>6 DEF Covered
  <2>4. QED
    BY <1>6, <1>9, <2>1, <2>2, <2>3 DEF Effect
<1>10. QED
  BY <1>8, <1>9

LEMMA UnlinkEffect ==
  ASSUME StoreInv, ~crossed, NEW r \in Request, Unlink(r) \/ Delete(r)
  PROVE  Effect(r, Target(r), None) /\ On(Target(r))
<1>1. /\ pc[r] \in Steady /\ pc[r] \in Keyed /\ pc[r] # "put"
      /\ Kind(r) # "write"
  BY DEF Unlink, Delete, Steady, Keyed, StoreInv, Base, ControlInv
<1>2. Target(r) \in File
  BY <1>1, SteadyType DEF StoreInv
<1>3. key[r] = Target(r)[2] /\ On(Target(r))
  BY <1>1, OnTarget
<1>4. key[r] \in Held(r)
  BY <1>1 DEF Held, Keys
<1>5. Sets(Target(r), None)
  BY <1>2 DEF Sets, Unlink, Delete
<1>6. QED
  BY <1>1, <1>2, <1>3, <1>4, <1>5 DEF Effect, Proper, Covered

LEMMA ArchiveEffect ==
  ASSUME TypeOK, NEW r \in Request, Archive(r)
  PROVE  \E g \in found[r] :
           /\ Effect(r, g, None)
           /\ retired' = retired \union ({file[g]} \ {None})
<1>1. PICK g \in found[r] :
        /\ file' = [file EXCEPT ![g] = None]
        /\ retired' = retired \union ({file[g]} \ {None})
  BY DEF Archive
<1>2. g \in File
  BY DEF TypeOK
<1>3. QED
  BY <1>1, <1>2 DEF Archive, Effect, Sets, Proper, Covered

(* Any step of a request leaves the files alone or has such an effect. *)
LEMMA StepEffect ==
  ASSUME StoreInv, ~crossed, NEW r \in Request, RequestStep(r)
  PROVE  \/ file' = file
         \/ \E g \in File : \E v \in Id \union {None} : Effect(r, g, v)
<1> USE DEF Effect, Sets
<1>1. CASE Put(r)
  BY <1>1, PutEffect
<1>2. CASE Tidy(r)
  BY <1>2, TidyEffect
<1>3. CASE Link(r)
  BY <1>3, LinkEffect
<1>4. CASE Unlink(r) \/ Delete(r)
  BY <1>4, UnlinkEffect
<1>5. CASE Archive(r)
  BY <1>5, ArchiveEffect DEF StoreInv, Base, TypeOK
<1>6. CASE \/ Approach(r) \/ EntryStep(r) \/ UnlinkFails(r) \/ Scan(r) \/ Leave(r)
  BY <1>6 DEF Approach, Ask, Warm, PrePass, Enter, GiveUp, EntryStep, TakeKeys, Resolve,
              Judge, UnlinkFails, Scan, Leave
<1>7. QED
  BY <1>1, <1>2, <1>3, <1>4, <1>5, <1>6 DEF RequestStep, WriteStep, RenameStep, RepairStep

(* A new file has a slug of its own. *)
LEMMA EffectSlugs ==
  ASSUME TypeOK, SlugsUnique, NEW r, NEW g, NEW v, Effect(r, g, v)
  PROVE  SlugsUnique'
<1>1. /\ \A f \in File : f # g => file'[f] = file[f]
      /\ g \in File /\ file'[g] = v
  BY DEF Effect, Sets, TypeOK
<1>2. ASSUME NEW f \in File, NEW h \in File, On(f)', On(h)', f[1] = h[1], f # h
      PROVE  FALSE
  <2>1. CASE f # g /\ h # g
    BY <1>1, <1>2, <2>1 DEF On, SlugsUnique
  <2>2. CASE f = g \/ h = g
    <3>1. PICK k \in File : On(k) /\ k # g /\ k[1] = g[1]
      BY <1>1, <1>2, <2>2 DEF On
    <3>2. v # None
      BY <1>1, <1>2, <2>2 DEF On
    <3>3. CASE On(g)
      BY <3>1, <3>3, <1>1 DEF SlugsUnique
    <3>4. CASE ~On(g)
      <4>1. At(g[1]) = {}
        BY <3>2, <3>4 DEF Effect, Proper
      <4>2. k = <<k[1], k[2]>> /\ k[2] \in Id
        BY DEF File
      <4>3. k[2] \in At(g[1])
        BY <3>1, <4>2 DEF At
      <4>4. QED
        BY <4>1, <4>3
    <3>5. QED
      BY <3>3, <3>4
  <2>3. QED
    BY <2>1, <2>2
<1>3. QED
  BY <1>2 DEF SlugsUnique

-----------------------------------------------------------------------------
(* What stands goes on standing.                                             *)

(* A change of one file keeps every content that is also elsewhere, or that  *)
(* is retired with the change.                                               *)
LEMMA SetsStands ==
  ASSUME TypeOK, NEW g \in File, NEW v, file' = [file EXCEPT ![g] = v],
         retired \subseteq retired', NEW c \in Id, Stands(c),
         file[g] = c => c \in retired' \/ v = c \/ \E f \in File \ {g} : file[f] = c
  PROVE  Stands(c)'
<1>1. /\ \A f \in File : f # g => file'[f] = file[f]
      /\ file'[g] = v
  BY DEF TypeOK
<1>2. CASE c \in retired \/ c \in retired'
  BY <1>2 DEF Stands
<1>3. CASE c \notin retired /\ c \notin retired'
  <2>1. PICK f \in File : file[f] = c
    BY <1>3 DEF Stands
  <2>2. CASE f # g
    BY <1>1, <2>1, <2>2 DEF Stands
  <2>3. CASE f = g
    BY <1>1, <1>3, <2>1, <2>3 DEF Stands
  <2>4. QED
    BY <2>2, <2>3
<1>4. QED
  BY <1>2, <1>3

LEMMA StandsStep ==
  ASSUME StoreInv, ~crossed, NEW r \in Request, RequestStep(r), NEW c \in Id, Stands(c)
  PROVE  Stands(c)'
<1> USE DEF indexVars, lockVars, boundVars
<1>t. TypeOK
  BY DEF StoreInv, Base
<1>n. c # None
  BY DEF Key
<1>1. CASE Put(r)
  <2>1. /\ Sets(Target(r), r) /\ file[Target(r)] = op[r].token
    BY <1>1, PutEffect DEF Effect
  <2>2. retired' = retired \union ({op[r].token} \ {None})
    BY <1>1 DEF Put
  <2>3. file[Target(r)] = c => c \in retired'
    BY <2>1, <2>2, <1>n
  <2>4. QED
    BY <1>t, <2>1, <2>2, <2>3, SetsStands DEF Sets
<1>2. CASE Tidy(r)
  BY <1>2, TidyEffect DEF Tidy, Stands
<1>3. CASE Link(r)
  <2>1. retired' = retired
    BY <1>3 DEF Link
  <2>2. CASE file' = file
    BY <2>1, <2>2 DEF Stands
  <2>3. CASE Sets(Dest(r), file[Target(r)]) /\ ~On(Dest(r))
    BY <1>t, <1>n, <2>1, <2>3, SetsStands DEF Sets, On
  <2>4. QED
    BY <1>3, <2>2, <2>3, LinkEffect DEF Effect
<1>4. CASE Unlink(r)
  <2>1. /\ retired' = retired /\ Sets(Target(r), None)
    BY <1>4, UnlinkEffect DEF Unlink, Effect
  <2>2. pc[r] \in Steady /\ pc[r] = "linked" /\ Kind(r) = "rename"
    BY <1>4 DEF Unlink, Steady, StoreInv, Base, ControlInv
  <2>3. file[Dest(r)] = file[Target(r)] /\ Dest(r) \in File
    BY <2>2, OnTarget, SteadyType DEF StoreInv
  <2>4. Dest(r) # Target(r)
    <3>1. op[r].at # op[r].to
      BY <2>2 DEF StoreInv, Base, ControlInv, Answered
    <3>2. Target(r)[1] = op[r].at
      BY <2>2, SteadyType DEF StoreInv
    <3>3. QED
      BY <3>1, <3>2 DEF Dest
  <2>5. QED
    BY <1>t, <2>1, <2>3, <2>4, SetsStands DEF Sets
<1>5. CASE Delete(r)
  <2>1. /\ retired' = retired \union ({file[Target(r)]} \ {None})
        /\ Sets(Target(r), None)
    BY <1>5, UnlinkEffect DEF Delete, Effect
  <2>2. file[Target(r)] = c => c \in retired'
    BY <2>1, <1>n
  <2>3. QED
    BY <1>t, <2>1, <2>2, SetsStands DEF Sets
<1>6. CASE Archive(r)
  <2>1. PICK g \in found[r] :
          Sets(g, None) /\ retired' = retired \union ({file[g]} \ {None})
    BY <1>t, <1>6, ArchiveEffect DEF Effect
  <2>2. file[g] = c => c \in retired'
    BY <2>1, <1>n
  <2>3. QED
    BY <1>t, <2>1, <2>2, SetsStands DEF Sets
<1>7. CASE \/ Approach(r) \/ EntryStep(r) \/ UnlinkFails(r) \/ Scan(r) \/ Leave(r)
  <2>1. file' = file /\ retired' = retired
    BY <1>7 DEF Approach, Ask, Warm, PrePass, Enter, GiveUp, EntryStep, TakeKeys, Resolve,
                Judge, UnlinkFails, Scan, Leave
  <2>2. QED
    BY <2>1 DEF Stands
<1>8. QED
  BY <1>1, <1>2, <1>3, <1>4, <1>5, <1>6, <1>7
  DEF RequestStep, WriteStep, RenameStep, RepairStep

-----------------------------------------------------------------------------
(* What a step does to another request: nothing that it relies on.           *)

(* A file that is new with a step has another id than a request that has not *)
(* written yet and does not act.                                             *)
LEMMA FreshStays ==
  ASSUME StoreInv, ~crossed, NEW q \in Request, NEW r \in Request \ {q},
         NEW g, NEW v, Effect(q, g, v), Alone(q)
  PROVE  FreshId(r)'
<1>1. FreshId(r)
  BY DEF StoreInv, RequestInv
<1>2. indexed'[r] = indexed[r] /\ pc'[r] = pc[r]
  BY DEF Alone
<1>3. /\ \A f \in File : f # g => file'[f] = file[f]
      /\ g \in File /\ file'[g] = v
  BY DEF Effect, Sets, StoreInv, Base, TypeOK
<1>4. ASSUME pc[r] \in Unwritten, NEW s \in Place, On(<<s, r>>)'
      PROVE  FALSE
  <2>1. <<s, r>> \in File /\ ~On(<<s, r>>)
    BY <1>1, <1>4 DEF FreshId, File, Id
  <2>2. g = <<s, r>> /\ v # None
    BY <2>1, <1>3, <1>4 DEF On
  <2>3. \E f \in File : On(f) /\ f[2] = r
    BY <2>1, <2>2 DEF Effect, Proper
  <2>4. QED
    BY <2>3, <1>1, <1>4 DEF FreshId, File
<1>5. QED
  BY <1>1, <1>2, <1>4 DEF FreshId

(* Whoever acts on a file leaves alone what another has locked. *)
LEMMA LockedStays ==
  ASSUME StoreInv, ~crossed, NEW q \in Request, NEW r \in Request \ {q},
         NEW g, NEW v, Effect(q, g, v), pc[r] \in Steady, NEW h \in File, file'[h] # file[h]
  PROVE  /\ h[2] \notin Held(r) \/ ~On(h)
         /\ ~On(h) => h[1] \notin Held(r)
         /\ ~On(h) => h[2] \in Held(q) \/ h[2] = q
<1>1. h = g
  BY DEF Effect, Sets, StoreInv, Base, TypeOK
<1>2. pc[r] \in InLock /\ pc[r] \in Keyed
  BY DEF Steady, InLock, Keyed
<1>3. pc[q] # "scanned"
  <2>1. ASSUME pc[q] = "scanned"
        PROVE  FALSE
    <3>1. Kind(q) = "repair" /\ pc[q] \in InLock
      BY <2>1 DEF StoreInv, Base, ControlInv, InLock
    <3>2. QED
      BY <3>1, <1>2 DEF StoreInv, Locks, CrossInv, OnlyMarker
  <2>2. QED
    BY <2>1
<1>4. /\ pc[q] \in Keyed
      /\ g[2] \in Held(q) \/ (g[2] = q /\ pc[q] = "judged")
      /\ ~On(g) => g[1] \in Held(q)
  BY <1>3 DEF Effect, Covered
<1>5. Held(q) \intersect Held(r) = {}
  <2>1. pc[q] \in InLock
    BY <1>4 DEF InLock
  <2>2. home[q] = home[r]
    BY <2>1, <1>2 DEF StoreInv, Locks, CrossInv, OnlyMarker
  <2>3. QED
    BY <2>2 DEF StoreInv, Locks, KeyInv
<1>6. g[2] = q /\ pc[q] = "judged" => ~On(g)
  BY <1>1 DEF StoreInv, RequestInv, FreshId, Unwritten, InLock, Keyed, File
<1>7. QED
  BY <1>1, <1>4, <1>5, <1>6

LEMMA OthersRely ==
  ASSUME StoreInv, ~crossed, NEW q \in Request, NEW r \in Request \ {q},
         NEW g, NEW v, Effect(q, g, v), Alone(q), pc[r] \in Steady
  PROVE  FoundStays(r)' /\ JudgmentStays(r)'
<1>p. PICK f \in File : f = Target(r)
  BY SteadyType DEF StoreInv
<1>o. op[r] \in Operation /\ f[1] = op[r].at /\ found[r] = {f}
  BY <1>p, SteadyType DEF StoreInv
<1>a. PICK a \in Place : a = op[r].at
  BY <1>o DEF Operation
<1>b. PICK b \in Place : b = op[r].to
  BY <1>o DEF Operation
<1>1. /\ f = <<a, f[2]>> /\ f[1] = a /\ f[2] \in Id
      /\ found[r] = {f} /\ op[r] \in Operation
  BY <1>o, <1>a DEF File
<1>2. /\ op'[r] = op[r] /\ pc'[r] = pc[r] /\ key'[r] = key[r]
      /\ found'[r] = found[r] /\ indexed'[r] = indexed[r]
  BY DEF Alone
<1>3. /\ \/ key[r] = f[2] /\ On(f)
         \/ /\ Kind(r) = "write" /\ key[r] = a /\ f[2] = r
            /\ pc[r] # "put" => At(a) = {}
      /\ pc[r] = "judged" /\ Kind(r) = "write" => file[f] = op[r].token
      /\ pc[r] = "judged" /\ Kind(r) = "rename" => At(b) = {}
      /\ pc[r] = "linked" => file[<<b, f[2]>>] = file[f]
  BY <1>p, <1>a, <1>b, OnTarget DEF Dest
<1>4. \A s \in Place :
        pc[r] \in {"judged", "put"} /\ Kind(r) = "write" /\
        indexed[r][f[2]] = s /\ s # f[1] => ~On(<<s, f[2]>>)
  BY <1>1 DEF StoreInv, RequestInv, JudgmentStays
<1>5. key[r] \in Held(r) /\ (Kind(r) = "rename" => b \in Held(r))
  BY <1>b DEF Held, Keys, Steady, Keyed
<1>6. /\ \A h \in File : file'[h] # file[h] =>
           /\ h[2] \notin Held(r) \/ ~On(h)
           /\ ~On(h) => h[1] \notin Held(r)
           /\ ~On(h) => h[2] \in Held(q) \/ h[2] = q
  BY LockedStays
<1>7. \A s \in Place : s \in Held(r) /\ At(s) = {} => At(s)' = {}
  <2>1. ASSUME NEW s \in Place, s \in Held(r), At(s) = {}, NEW i \in Id, On(<<s, i>>)'
        PROVE  FALSE
    <3>1. <<s, i>> \in File /\ ~On(<<s, i>>)
      BY <2>1 DEF At, File
    <3>2. QED
      BY <3>1, <2>1, <1>6 DEF On
  <2>2. QED
    BY <2>1 DEF At
<1>8. ASSUME key[r] = f[2], On(f), NEW s \in Place, file'[<<s, f[2]>>] # file[<<s, f[2]>>]
      PROVE  FALSE
  \* the id is locked, and there is a file of it: nobody makes it
  <2>1. <<s, f[2]>> \in File
    BY <1>1 DEF File
  <2>2. ~On(<<s, f[2]>>)
    BY <2>1, <1>5, <1>6, <1>8
  <2>3. g = <<s, f[2]>> /\ v # None
    BY <2>1, <2>2, <1>8 DEF Effect, Sets, On, StoreInv, Base, TypeOK
  <2>4. g[2] \in Held(q) \/ (g[2] = q /\ pc[q] = "judged")
    BY <2>3, <2>2 DEF Effect, Covered
  <2>5. g[2] # q \/ pc[q] # "judged"
    BY <2>3, <1>8, <1>1 DEF StoreInv, RequestInv, FreshId, Unwritten, InLock, Keyed
  <2>6. f[2] \in Held(q) /\ f[2] \in Held(r)
    BY <2>3, <2>4, <2>5, <1>5, <1>8
  <2>7. pc[q] \in InLock /\ pc[r] \in InLock
    BY <2>6 DEF Held, InLock
  <2>8. QED
    BY <2>6, <2>7 DEF StoreInv, Locks, CrossInv, KeyInv, OnlyMarker
<1>9. FoundStays(r)'
  <2>1. CASE key[r] = f[2] /\ On(f)
    <3>1. file'[f] = file[f]
      BY <2>1, <1>1, <1>8
    <3>2. QED
      BY <2>1, <3>1, <1>1, <1>2 DEF FoundStays, On
  <2>2. CASE /\ Kind(r) = "write" /\ key[r] = a /\ f[2] = r
             /\ pc[r] # "put" => At(a) = {}
    <3>1. pc[r] # "put" => At(a)' = {}
      BY <2>2, <1>5, <1>7
    <3>2. Kind(r)' = "write" /\ key'[r] = op'[r].at /\ op'[r].at = a
      BY <2>2, <1>2, <1>a DEF Kind
    <3>3. QED
      BY <2>2, <3>1, <3>2, <1>1, <1>2 DEF FoundStays, At
  <2>3. QED
    BY <1>3, <2>1, <2>2
<1>10. JudgmentStays(r)'
  <2>1. pc[r] = "judged" => file'[f] = file[f]
    <3>1. CASE key[r] = f[2] /\ On(f)
      BY <3>1, <1>1, <1>8
    <3>2. CASE key[r] = a /\ f[2] = r /\ (pc[r] # "put" => At(a) = {})
      <4>1. pc[r] = "judged" => ~On(f)
        BY <3>2, <1>1 DEF At
      <4>2. QED
        BY <4>1, <3>2, <1>1, <1>5, <1>6
    <3>3. QED
      BY <1>3, <3>1, <3>2
  <2>2. ASSUME pc[r] \in {"judged", "put"}, Kind(r) = "write",
               NEW s \in Place, indexed[r][f[2]] = s, s # f[1]
        PROVE  ~On(<<s, f[2]>>)'
    <3>1. ~On(<<s, f[2]>>)
      BY <1>4, <2>2
    <3>2. CASE key[r] = f[2] /\ On(f)
      BY <3>1, <3>2, <1>8 DEF On
    <3>3. CASE f[2] = r
      BY <3>3, <2>2 DEF StoreInv, RequestInv, FreshId, Key
    <3>4. QED
      BY <1>3, <3>2, <3>3
  <2>3. pc[r] = "judged" /\ Kind(r) = "rename" => At(b)' = {}
    BY <1>3, <1>5, <1>7
  <2>4. pc[r] = "linked" => file'[<<b, f[2]>>] = file'[f]
    <3>1. pc[r] = "linked" => Kind(r) = "rename" /\ key[r] = f[2] /\ On(f)
      BY <1>3 DEF StoreInv, Base, ControlInv
    <3>2. QED
      BY <3>1, <1>1, <1>3, <1>8
  <2>5. /\ found'[r] = {f} /\ pc'[r] = pc[r] /\ op'[r].to = b /\ op'[r].token = op[r].token
        /\ Kind(r)' = Kind(r) /\ indexed'[r] = indexed[r]
    BY <1>1, <1>2, <1>b DEF Kind
  <2>6. ASSUME NEW s \in Place, pc[r] \in {"judged", "put"}, Kind(r) = "write",
               indexed'[r][f[2]] = s, s # f[1]
        PROVE  ~On(<<s, f[2]>>)'
    BY <2>2, <2>5, <2>6
  <2>7. QED
    BY <2>1, <2>3, <2>4, <2>5, <2>6, <1>3 DEF JudgmentStays, At
<1>11. QED
  BY <1>9, <1>10

-----------------------------------------------------------------------------
(* What a step does to the request that takes it.                            *)

LEMMA OwnFresh ==
  ASSUME StoreInv, ~crossed, NEW r \in Request, RequestStep(r)
  PROVE  FreshId(r)'
<1> USE DEF indexVars, lockVars, boundVars
<1>t. /\ pc \in [Request -> Before \union InLock \union Answered]
      /\ indexed \in [Request -> [Id -> Place \union {None}]]
      /\ file \in [File -> Id \union {None}] /\ r \in Id
  BY DEF StoreInv, Base, TypeOK, Id
<1>0. FreshId(r)
  BY DEF StoreInv, RequestInv
<1>1. CASE Warm(r)
  <2>1. PlacesOf(r) = {}
    BY <1>0, <1>1 DEF Warm, FreshId, PlacesOf, Unwritten, Before
  <2>2. indexed'[r][r] = None
    BY <1>t, <1>1, <2>1 DEF Warm, Kept
  <2>3. \A s \in Place : ~On(<<s, r>>)'
    BY <1>1, <2>1 DEF Warm, PlacesOf, On
  <2>4. QED
    BY <2>2, <2>3 DEF FreshId
<1>2. CASE Forget({r}) /\ pc'[r] \in Answered
  <2>1. indexed'[r][r] = None
    BY <1>t, <1>2 DEF Forget, OnExit, Blank
  <2>2. QED
    BY <2>1, <1>2 DEF FreshId, Unwritten, Before, InLock, Keyed, Answered
<1>3. CASE Leave(r) \/ GiveUp(r)
  <2>1. Forget({r}) /\ pc'[r] \in Answered
    BY <1>3, <1>t DEF Leave, Outcome, GiveUp, GoTo, Answered
  <2>2. QED
    BY <1>2, <2>1
<1>4. CASE PrePass(r)
  <2>1. CASE indexed' = indexed
    BY <1>0, <1>4, <2>1 DEF PrePass, FreshId, Unwritten, Before, On
  <2>2. CASE Forget({r}) /\ pc'[r] \in Answered
    BY <1>2, <2>2
  <2>3. QED
    BY <1>4, <1>t, <2>1, <2>2 DEF PrePass, GoTo, Answered
<1>5. CASE Ask(r) \/ Enter(r) \/ EntryStep(r) \/ UnlinkFails(r) \/ Scan(r)
  <2>1. indexed' = indexed /\ file' = file /\ pc[r] \in Unwritten
    BY <1>5 DEF Ask, Enter, EntryStep, TakeKeys, Resolve, Judge, UnlinkFails, Scan,
                Unwritten, Before, InLock, Keyed
  <2>2. QED
    BY <1>0, <2>1 DEF FreshId, On
<1>6. CASE WriteStep(r)
  <2>1. indexed' = indexed /\ pc'[r] \in {"put", "leaving"}
    BY <1>6, <1>t DEF WriteStep, Put, Tidy, GoTo
  <2>2. QED
    BY <1>0, <2>1 DEF FreshId, Unwritten, Before
<1>7. CASE Link(r) \/ Unlink(r) \/ Delete(r) \/ Archive(r)
  <2>1. indexed' = indexed /\ pc[r] \in Unwritten
    BY <1>7 DEF Link, Unlink, Delete, Archive, Unwritten, InLock, Keyed
  <2>2. \A s \in Place : ~On(<<s, r>>)
    BY <1>0, <2>1 DEF FreshId
  <2>3. ASSUME NEW s \in Place, On(<<s, r>>)'
        PROVE  FALSE
    <3>1. file'[<<s, r>>] # file[<<s, r>>] /\ <<s, r>> \in File
      BY <2>2, <2>3, <1>t DEF On, File
    <3>2. CASE Link(r)
      <4>1. pc[r] \in Steady
        BY <3>2 DEF Link, Steady
      <4>2. On(Target(r)) /\ Target(r) \in File /\ Sets(Dest(r), file[Target(r)])
        BY <4>1, <3>1, <3>2, LinkEffect, SteadyType DEF Effect, StoreInv
      <4>3. <<s, r>> = Dest(r)
        BY <4>2, <3>1, <1>t DEF Sets
      <4>4. Target(r)[2] = r
        BY <4>3 DEF Dest
      <4>5. QED
        BY <4>2, <4>4, <2>2 DEF File
    <3>3. CASE Unlink(r) \/ Delete(r)
      <4>1. Sets(Target(r), None)
        BY <3>3, UnlinkEffect DEF Effect
      <4>2. QED
        BY <4>1, <3>1, <2>3, <1>t DEF Sets, On
    <3>4. CASE Archive(r)
      <4>1. PICK g \in File : Sets(g, None)
        BY <3>4, ArchiveEffect DEF Effect, Sets, StoreInv, Base, TypeOK
      <4>2. QED
        BY <4>1, <3>1, <2>3, <1>t DEF Sets, On
    <3>5. QED
      BY <1>7, <3>2, <3>3, <3>4
  <2>4. QED
    BY <1>0, <2>1, <2>3 DEF FreshId
<1>8. QED
  BY <1>1, <1>3, <1>4, <1>5, <1>6, <1>7
  DEF RequestStep, Approach, RenameStep, RepairStep

LEMMA OwnContent ==
  ASSUME StoreInv, ~crossed, NEW r \in Request, RequestStep(r)
  PROVE  ContentStands(r)'
<1> USE DEF indexVars, lockVars, boundVars
<1>t. /\ pc \in [Request -> Before \union InLock \union Answered] /\ r \in Id
      /\ file \in [File -> Id \union {None}]
  BY DEF StoreInv, Base, TypeOK, Id
<1>0. ContentStands(r)
  BY DEF StoreInv, RequestInv
<1>1. CASE Put(r)
  <2>1. Sets(Target(r), r)
    BY <1>1, PutEffect DEF Effect
  <2>2. file'[Target(r)] = r
    BY <2>1, <1>t DEF Sets
  <2>3. QED
    BY <2>1, <2>2 DEF ContentStands, Stands, Sets
<1>2. CASE Tidy(r)
  <2>1. Stands(r)
    BY <1>0, <1>2 DEF Tidy, ContentStands
  <2>2. QED
    BY <2>1, <1>2, <1>t, StandsStep DEF RequestStep, WriteStep, ContentStands
<1>3. CASE Leave(r)
  <2>1. pc'[r] = "over" \/ (pc'[r] = "saved" /\ pc[r] = "leaving" /\ Kind(r) = "write")
    BY <1>3, <1>t DEF Leave, Outcome, GoTo
  <2>2. pc'[r] = "saved" => Stands(r)
    BY <2>1, <1>0 DEF ContentStands
  <2>3. QED
    BY <2>1, <2>2, <1>3, <1>t, StandsStep DEF RequestStep, ContentStands
<1>4. CASE RenameStep(r) \/ Delete(r) \/ RepairStep(r)
  <2>1. Kind(r) # "write" /\ op' = op
    BY <1>4 DEF RenameStep, Link, Unlink, UnlinkFails, Delete, RepairStep, Scan, Archive,
                StoreInv, Base, ControlInv
  <2>2. pc'[r] \notin {"put", "saved"}
    <3>1. CASE RenameStep(r) \/ Delete(r)
      BY <3>1, <1>t DEF RenameStep, Link, Unlink, UnlinkFails, Delete, GoTo
    <3>2. CASE Scan(r)
      BY <3>2, <1>t DEF Scan, GoTo
    <3>3. CASE Archive(r)
      BY <3>3, <1>t DEF Archive, GoTo
    <3>4. QED
      BY <1>4, <3>1, <3>2, <3>3 DEF RepairStep
  <2>3. QED
    BY <2>1, <2>2 DEF ContentStands, Kind
<1>5. CASE Approach(r) \/ EntryStep(r)
  <2>1. pc'[r] \notin {"put", "saved", "leaving"}
    <3>1. CASE Ask(r)
      <4>1. PICK o \in Operation :
              GoTo(r, CASE o.kind = "write" -> "opened"
                      [] o.kind \in {"rename", "delete"} -> "warm"
                      [] o.kind = "repair" -> "waiting")
        BY <3>1 DEF Ask
      <4>2. o.kind \in Kinds
        BY DEF Operation
      <4>3. QED
        BY <1>t, <4>1, <4>2 DEF Kinds, GoTo
    <3>2. CASE Warm(r) \/ PrePass(r) \/ Enter(r) \/ GiveUp(r)
      BY <3>2, <1>t DEF Warm, PrePass, Enter, GiveUp, GoTo
    <3>3. CASE EntryStep(r)
      BY <3>3, <1>t DEF EntryStep, TakeKeys, Resolve, Judge, GoTo
    <3>4. QED
      BY <1>5, <3>1, <3>2, <3>3 DEF Approach
  <2>2. QED
    BY <2>1 DEF ContentStands
<1>6. QED
  BY <1>1, <1>2, <1>3, <1>4, <1>5 DEF RequestStep, WriteStep

(* The steps into and through the steady part. *)
LEMMA OwnRely ==
  ASSUME StoreInv, ~crossed, NEW r \in Request, RequestStep(r)
  PROVE  FoundStays(r)' /\ JudgmentStays(r)'
<1> USE DEF indexVars, lockVars, boundVars
<1>t. /\ pc \in [Request -> Before \union InLock \union Answered]
      /\ found \in [Request -> SUBSET File]
      /\ file \in [File -> Id \union {None}]
  BY DEF StoreInv, Base, TypeOK
<1>0. CASE pc'[r] \notin Steady
  BY <1>0 DEF FoundStays, JudgmentStays
<1>1. CASE Resolve(r) /\ pc'[r] \in Steady
  <2>0. op[r] \in Operation /\ op' = op /\ file' = file /\ pc[r] = "keyed"
    BY <1>1 DEF Resolve, StoreInv, Base, ControlInv, Answered
  <2>1. PICK f \in Resolutions(r) :
          /\ EntryKey(f) = key[r] /\ (On(f) \/ Kind(r) = "write")
          /\ found' = [found EXCEPT ![r] = {f}] /\ pc'[r] = "resolved"
          /\ key' = key
    BY <1>1, <1>t DEF Resolve, GoTo, Steady
  <2>2. /\ f \in File /\ f[1] = op[r].at
        /\ On(f) \/ (At(op[r].at) = {} /\ f[2] = r)
        /\ EntryKey(f) = IF On(f) THEN f[2] ELSE f[1]
    BY <2>0, ResolutionIs
  <2>3. found'[r] = {f}
    BY <2>1, <1>t
  <2>4. FoundStays(r)'
    BY <2>0, <2>1, <2>2, <2>3 DEF FoundStays, On, At, Kind
  <2>5. JudgmentStays(r)'
    BY <2>1 DEF JudgmentStays
  <2>6. QED
    BY <2>4, <2>5
<1>2. ASSUME pc[r] \in Steady, pc'[r] \in Steady,
             Judge(r) \/ Put(r) \/ Link(r)
      PROVE  FoundStays(r)' /\ JudgmentStays(r)'
  <2>p. PICK f \in File : f = Target(r)
    BY <1>2, SteadyType DEF StoreInv
  <2>o. op[r] \in Operation /\ f[1] = op[r].at /\ found[r] = {f}
    BY <2>p, <1>2, SteadyType DEF StoreInv
  <2>a. PICK a \in Place : a = op[r].at
    BY <2>o DEF Operation
  <2>b. PICK b \in Place : b = op[r].to
    BY <2>o DEF Operation
  <2>1. /\ f = <<a, f[2]>> /\ f[1] = a /\ f[2] \in Id /\ found'[r] = {f}
        /\ op' = op /\ key' = key /\ indexed' = indexed /\ Kind(r)' = Kind(r)
        /\ op'[r].at = a /\ op'[r].to = b /\ op'[r].token = op[r].token
    BY <1>2, <2>o, <2>a, <2>b DEF File, Judge, Put, Link, Kind
  <2>2. /\ \/ key[r] = f[2] /\ On(f)
           \/ /\ Kind(r) = "write" /\ key[r] = a /\ f[2] = r
              /\ pc[r] # "put" => At(a) = {}
        /\ pc[r] \in {"judged", "put"} /\ Kind(r) = "write" =>
             ~(Relocates(r) /\ On(Indexed(r)))
    BY <1>2, <2>p, <2>a, <2>b, OnTarget
  <2>3. CASE Judge(r)
    <3>1. /\ pc[r] = "resolved" /\ pc'[r] = "judged" /\ file' = file
          /\ Kind(r) = "write" => MayWrite(r)
          /\ Kind(r) = "rename" => MayRename(r)
      BY <2>3, <1>2, <1>t DEF Judge, GoTo, Steady
    <3>2. FoundStays(r)'
      BY <2>1, <2>2, <3>1 DEF FoundStays, On, At
    <3>3. Kind(r) = "write" => file'[f] = op[r].token
      BY <2>p, <3>1 DEF MayWrite
    <3>4. Kind(r) = "rename" => At(b)' = {}
      BY <2>b, <3>1 DEF MayRename, At, On
    <3>5. ASSUME Kind(r) = "write", NEW s \in Place, indexed[r][f[2]] = s, s # f[1]
          PROVE  ~On(<<s, f[2]>>)
      <4>1. Relocates(r) /\ Indexed(r) = <<s, f[2]>>
        BY <3>5, <2>p DEF Relocates, Indexed, Key
      <4>2. CASE On(f)
        BY <4>1, <4>2, <3>1, <3>5, <2>p DEF MayWrite, Ambiguous
      <4>3. CASE f[2] = r
        BY <4>3, <3>5 DEF StoreInv, RequestInv, FreshId, Key
      <4>4. QED
        BY <2>2, <4>2, <4>3
    <3>6. JudgmentStays(r)'
      BY <2>1, <3>1, <3>3, <3>4, <3>5 DEF JudgmentStays, On
    <3>7. QED
      BY <3>2, <3>6
  <2>4. CASE Put(r)
    <3>1. /\ pc[r] = "judged" /\ Kind(r) = "write" /\ pc'[r] = "put"
          /\ file' = [file EXCEPT ![f] = r] /\ r # None
      BY <2>4, <2>p, <1>t DEF Put, GoTo, Key, Id
    <3>2. FoundStays(r)'
      BY <2>1, <2>2, <3>1, <1>t DEF FoundStays, On
    <3>3. ASSUME NEW s \in Place, indexed[r][f[2]] = s, s # f[1]
          PROVE  ~On(<<s, f[2]>>)'
      <4>1. Relocates(r) /\ Indexed(r) = <<s, f[2]>>
        BY <3>3, <2>p DEF Relocates, Indexed, Key
      <4>2. file'[<<s, f[2]>>] = file[<<s, f[2]>>]
        BY <3>1, <3>3, <2>1, <1>t DEF File
      <4>3. QED
        BY <4>1, <4>2, <2>2, <3>1 DEF On
    <3>4. JudgmentStays(r)'
      BY <2>1, <3>1, <3>3 DEF JudgmentStays
    <3>5. QED
      BY <3>2, <3>4
  <2>5. CASE Link(r)
    <3>1. pc'[r] # "failing" /\ Kind(r) = "rename"
      BY <1>2, <2>5 DEF Link, Steady
    <3>2. /\ pc'[r] = "linked" /\ Dest(r) = <<b, f[2]>> /\ f # Dest(r)
          /\ Sets(Dest(r), file[f]) /\ On(f)
      BY <2>5, <2>p, <2>b, <3>1, <1>t, LinkEffect DEF Effect, Link, GoTo, Dest
    <3>3. file'[f] = file[f] /\ file'[<<b, f[2]>>] = file[f]
      BY <3>2, <1>t DEF Sets
    <3>4. FoundStays(r)'
      BY <2>1, <2>2, <3>1, <3>2, <3>3 DEF FoundStays, On
    <3>5. JudgmentStays(r)'
      BY <2>1, <3>2, <3>3 DEF JudgmentStays
    <3>6. QED
      BY <3>4, <3>5
  <2>6. QED
    BY <1>2, <2>3, <2>4, <2>5
<1>3. ASSUME ~Resolve(r), ~(Judge(r) \/ Put(r) \/ Link(r))
      PROVE  pc'[r] \notin Steady
  <2>1. CASE Approach(r)
    <3>1. CASE Ask(r)
      <4>1. PICK o \in Operation :
              GoTo(r, CASE o.kind = "write" -> "opened"
                      [] o.kind \in {"rename", "delete"} -> "warm"
                      [] o.kind = "repair" -> "waiting")
        BY <3>1 DEF Ask
      <4>2. o.kind \in Kinds
        BY DEF Operation
      <4>3. QED
        BY <1>t, <4>1, <4>2 DEF Kinds, GoTo, Steady
    <3>2. CASE Warm(r) \/ PrePass(r) \/ Enter(r) \/ GiveUp(r)
      BY <3>2, <1>t DEF Warm, PrePass, Enter, GiveUp, GoTo, Steady
    <3>3. QED
      BY <2>1, <3>1, <3>2 DEF Approach
  <2>2. CASE TakeKeys(r) \/ Tidy(r) \/ Unlink(r) \/ UnlinkFails(r) \/ Delete(r) \/ Leave(r)
    BY <2>2, <1>t DEF TakeKeys, Tidy, Unlink, UnlinkFails, Delete, Leave, Outcome, GoTo, Steady
  <2>3. CASE Scan(r)
    BY <2>3, <1>t DEF Scan, GoTo, Steady
  <2>4. CASE Archive(r)
    BY <2>4, <1>t DEF Archive, GoTo, Steady
  <2>5. QED
    BY <1>3, <2>1, <2>2, <2>3, <2>4 DEF RequestStep, EntryStep, WriteStep, RenameStep,
                                         RepairStep
<1>4. Judge(r) \/ Put(r) \/ Link(r) => pc[r] \in Steady
  BY DEF Judge, Put, Link, Steady
<1>5. QED
  BY <1>0, <1>1, <1>2, <1>3, <1>4

-----------------------------------------------------------------------------
(* The invariant, and the theorems.                                          *)

(* A request that no step concerns, and whose files do not change. *)
LEMMA UnmovedRequest ==
  ASSUME NEW r \in Request,
         FreshId(r) /\ FoundStays(r) /\ JudgmentStays(r) /\ ContentStands(r),
         op'[r] = op[r], pc'[r] = pc[r], indexed'[r] = indexed[r], key'[r] = key[r],
         found'[r] = found[r], file' = file, Stands(r) => Stands(r)'
  PROVE  FreshId(r)' /\ FoundStays(r)' /\ JudgmentStays(r)' /\ ContentStands(r)'
<1>1. Kind(r)' = Kind(r)
  BY DEF Kind
<1>2. FreshId(r)'
  BY DEF FreshId, On
<1>3. FoundStays(r)'
  BY <1>1 DEF FoundStays, On, At
<1>4. JudgmentStays(r)'
  BY <1>1 DEF JudgmentStays, On, At
<1>5. ContentStands(r)'
  BY <1>1 DEF ContentStands
<1>6. QED
  BY <1>2, <1>3, <1>4, <1>5

LEMMA OtherRequest ==
  ASSUME StoreInv, ~crossed, NEW q \in Request, RequestStep(q), NEW r \in Request \ {q}
  PROVE  FreshId(r)' /\ FoundStays(r)' /\ JudgmentStays(r)' /\ ContentStands(r)'
<1>1. Alone(q)
  BY StepIsAlone DEF StoreInv, Base
<1>2. Stands(r) => Stands(r)'
  BY StandsStep DEF Id
<1>3. FreshId(r) /\ FoundStays(r) /\ JudgmentStays(r) /\ ContentStands(r)
  BY DEF StoreInv, RequestInv
<1>4. CASE file' = file
  BY <1>1, <1>2, <1>3, <1>4, UnmovedRequest DEF Alone
<1>5. ASSUME NEW g \in File, NEW v \in Id \union {None}, Effect(q, g, v)
      PROVE  FreshId(r)' /\ FoundStays(r)' /\ JudgmentStays(r)' /\ ContentStands(r)'
  <2>1. FreshId(r)'
    BY <1>1, <1>5, FreshStays
  <2>2. ContentStands(r)'
    BY <1>1, <1>2, <1>3 DEF ContentStands, Alone, Kind
  <2>3. CASE pc[r] \in Steady
    BY <1>1, <1>5, <2>1, <2>2, <2>3, OthersRely
  <2>4. CASE pc[r] \notin Steady
    BY <1>1, <2>1, <2>2, <2>4 DEF Alone, FoundStays, JudgmentStays
  <2>5. QED
    BY <2>3, <2>4
<1>6. QED
  BY <1>4, <1>5, StepEffect

(* Nothing undoes a crossing. *)
LEMMA CrossedStays ==
  ASSUME [Next]_vars, crossed
  PROVE  crossed'
<1> USE DEF indexVars, lockVars, boundVars
<1>1. ASSUME NEW r \in Request, RequestStep(r)
      PROVE  crossed'
  BY <1>1 DEF RequestStep, Approach, Ask, Warm, PrePass, Enter, GiveUp, EntryStep,
     TakeKeys, Resolve, Judge, WriteStep, Put, Tidy, RenameStep, Link, Unlink, UnlinkFails,
     Delete, RepairStep, Scan, Archive, Leave
<1>2. QED
  BY <1>1 DEF Next, RequestStep, Die, Finished, vars

LEMMA RequestInvStep ==
  ASSUME StoreInv, [Next]_vars
  PROVE  RequestInv' /\ SlugInv'
<1> USE DEF indexVars, lockVars, boundVars
<1>1. SUFFICES ASSUME ~crossed'
               PROVE  /\ SlugsUnique'
                      /\ \A r \in Request :
                           FreshId(r)' /\ FoundStays(r)' /\ JudgmentStays(r)' /\ ContentStands(r)'
  BY DEF RequestInv, SlugInv
<1>2. ~crossed
  BY <1>1, CrossedStays
<1>3. /\ SlugsUnique /\ TypeOK
      /\ \A r \in Request :
           FreshId(r) /\ FoundStays(r) /\ JudgmentStays(r) /\ ContentStands(r)
  BY <1>2 DEF StoreInv, SlugInv, RequestInv, Base
<1>4. ASSUME NEW q \in Request, RequestStep(q)
      PROVE  /\ SlugsUnique'
             /\ \A r \in Request :
                  FreshId(r)' /\ FoundStays(r)' /\ JudgmentStays(r)' /\ ContentStands(r)'
  <2>1. SlugsUnique'
    <3>1. CASE file' = file
      BY <1>3, <3>1 DEF SlugsUnique, On
    <3>2. ASSUME NEW g \in File, NEW v \in Id \union {None}, Effect(q, g, v)
          PROVE  SlugsUnique'
      BY <1>3, <3>2, EffectSlugs
    <3>3. QED
      BY <1>2, <1>4, <3>1, <3>2, StepEffect
  <2>2. FreshId(q)' /\ FoundStays(q)' /\ JudgmentStays(q)' /\ ContentStands(q)'
    BY <1>2, <1>4, OwnFresh, OwnContent, OwnRely
  <2>3. \A r \in Request \ {q} :
          FreshId(r)' /\ FoundStays(r)' /\ JudgmentStays(r)' /\ ContentStands(r)'
    BY <1>2, <1>4, OtherRequest
  <2>4. QED
    BY <2>1, <2>2, <2>3
<1>5. ASSUME NEW p \in Process, Die(p)
      PROVE  /\ SlugsUnique'
             /\ \A r \in Request :
                  FreshId(r)' /\ FoundStays(r)' /\ JudgmentStays(r)' /\ ContentStands(r)'
  <2>1. PICK S \in SUBSET Request : Forget(S) /\ pc' = OnExit(S, pc, "over")
    BY <1>5 DEF Die
  <2>2. file' = file /\ retired' = retired
    BY <1>5 DEF Die
  <2>3. SlugsUnique'
    BY <1>3, <2>2 DEF SlugsUnique, On
  <2>4. ASSUME NEW r \in Request
        PROVE  FreshId(r)' /\ FoundStays(r)' /\ JudgmentStays(r)' /\ ContentStands(r)'
    <3>1. CASE r \in S
      <4>1. pc'[r] = "over" /\ indexed'[r] = Blank
        BY <2>1, <3>1 DEF OnExit, Forget
      <4>2. r \in Id
        BY DEF Id
      <4>3. QED
        BY <4>1, <4>2 DEF FreshId, FoundStays, JudgmentStays, ContentStands, Blank, Unwritten,
                     Before, InLock, Keyed, Steady
    <3>2. CASE r \notin S
      <4>1. /\ op'[r] = op[r] /\ pc'[r] = pc[r] /\ indexed'[r] = indexed[r]
            /\ key'[r] = key[r] /\ found'[r] = found[r]
        BY <2>1, <3>2 DEF OnExit, Forget
      <4>2. Stands(r) => Stands(r)'
        BY <2>2 DEF Stands
      <4>3. QED
        BY <4>1, <4>2, <2>2, <1>3, UnmovedRequest
    <3>3. QED
      BY <3>1, <3>2
  <2>5. QED
    BY <2>3, <2>4
<1>6. CASE UNCHANGED vars
  <2>1. SlugsUnique'
    BY <1>3, <1>6 DEF SlugsUnique, On, vars
  <2>2. ASSUME NEW r \in Request
        PROVE  FreshId(r)' /\ FoundStays(r)' /\ JudgmentStays(r)' /\ ContentStands(r)'
    <3>1. Stands(r) => Stands(r)'
      BY <1>6 DEF Stands, vars
    <3>2. QED
      BY <3>1, <1>3, <1>6, UnmovedRequest DEF vars
  <2>3. QED
    BY <2>1, <2>2
<1>7. QED
  BY <1>4, <1>5, <1>6 DEF Next, RequestStep, Finished

(* Two places of one URL, in collections that do not share their path, are   *)
(* one, or a collection's landing page and the entry of its name beside it.  *)
PageOf(s, t) ==
  LET c == Collection[s]
  IN  /\ Slug[s] = Index /\ Slug[t] # Index
      /\ Parent[c] = Collection[t] /\ Name[c] = Slug[t]

LEMMA RivalsArePageAndEntry ==
  ASSUME NEW s \in Place, NEW t \in Place, Rival(s, t)
  PROVE  s = t \/ PageOf(s, t) \/ PageOf(t, s)
<1> DEFINE c == Collection[s]
           d == Collection[t]
<1>1. c \in Folder /\ d \in Folder
  BY PathAssumption
<1>2. /\ \A e \in Folder : Path[e] = Path[c] => e = c
      /\ \A e \in Folder : Path[e] = Path[d] => e = d
      /\ Url(s) = Url(t)
  BY DEF Rival, Lone
<1>3. CASE Slug[s] = Index /\ Slug[t] = Index
  <2>1. c = d
    BY <1>1, <1>2, <1>3 DEF Url
  <2>2. QED
    BY <2>1, <1>3, PathAssumption
<1>4. CASE Slug[s] # Index /\ Slug[t] # Index
  <2>1. Path[c] = Path[d] /\ Slug[s] = Slug[t]
    BY <1>2, <1>4 DEF Url
  <2>2. c = d
    BY <2>1, <1>1, <1>2
  <2>3. QED
    BY <2>1, <2>2, PathAssumption
<1>5. CASE Slug[s] = Index /\ Slug[t] # Index
  <2>1. Path[c] = <<Path[d], Slug[t]>>
    BY <1>2, <1>5 DEF Url
  <2>2. Parent[c] \in Folder /\ Path[c] = <<Path[Parent[c]], Name[c]>>
    BY <2>1, <1>1, PathAssumption
  <2>3. Path[Parent[c]] = Path[d] /\ Name[c] = Slug[t]
    BY <2>1, <2>2
  <2>4. Parent[c] = d
    BY <2>2, <2>3, <1>2
  <2>5. QED
    BY <2>3, <2>4, <1>5 DEF PageOf
<1>6. CASE Slug[s] # Index /\ Slug[t] = Index
  <2>1. Path[d] = <<Path[c], Slug[s]>>
    BY <1>2, <1>6 DEF Url
  <2>2. Parent[d] \in Folder /\ Path[d] = <<Path[Parent[d]], Name[d]>>
    BY <2>1, <1>1, PathAssumption
  <2>3. Path[Parent[d]] = Path[c] /\ Name[d] = Slug[s]
    BY <2>1, <2>2
  <2>4. Parent[d] = c
    BY <2>2, <2>3, <1>2
  <2>5. QED
    BY <2>3, <2>4, <1>6 DEF PageOf
<1>7. QED
  BY <1>3, <1>4, <1>5, <1>6

(* The one child collection that is looked into is the rival's.              *)
LEMMA ChildIsOne ==
  ASSUME NEW s \in Place, NEW t \in Place, Rival(t, s), PageOf(t, s)
  PROVE  {d \in Folder : Parent[d] = Collection[s] /\ Name[d] = Slug[s]}
           = {Collection[t]}
<1> DEFINE c == Collection[s]
           e == Collection[t]
<1>1. c \in Folder /\ e \in Folder /\ None # c
  BY PathAssumption
<1>2. Parent[e] = c /\ Name[e] = Slug[s]
  BY DEF PageOf
<1>3. ASSUME NEW d \in Folder, Parent[d] = c, Name[d] = Slug[s]
      PROVE  d = e
  <2>1. Path[d] = <<Path[c], Slug[s]>> /\ Path[e] = <<Path[c], Slug[s]>>
    BY <1>1, <1>2, <1>3, PathAssumption
  <2>2. QED
    BY <2>1, <1>3 DEF Rival, Lone
<1>4. QED
  BY <1>1, <1>2, <1>3

(* What is looked up before a create or a rename is enough. *)
LEMMA UncontestedIsFree ==
  ASSUME NEW s \in Place, At(s) = {}, ~Contested(s)
  PROVE  Free(s)
<1>1. SUFFICES ASSUME NEW t \in Place, Rival(t, s), At(t) # {}
               PROVE  FALSE
  BY DEF Free
<1>2. CASE t = s
  BY <1>1, <1>2
<1>3. CASE PageOf(s, t)
  <2>1. Collection[t] # None
    BY PathAssumption
  <2>2. Taken(Collection[t], Slug[t])
    BY <1>1 DEF Taken
  <2>3. QED
    BY <1>3, <2>1, <2>2 DEF PageOf, Contested
<1>4. CASE PageOf(t, s)
  <2> DEFINE children == {d \in Folder : Parent[d] = Collection[s] /\ Name[d] = Slug[s]}
  <2>1. children = {Collection[t]}
    BY <1>1, <1>4, ChildIsOne
  <2> HIDE DEF children
  <2>2. children # {} /\ (CHOOSE d \in children : TRUE) = Collection[t]
    BY <2>1
  <2>3. Taken(CHOOSE d \in children : TRUE, Index)
    BY <1>1, <1>4, <2>2 DEF Taken, PageOf
  <2>4. QED
    BY <1>4, <2>2, <2>3 DEF PageOf, Contested, children
<1>5. QED
  BY <1>1, <1>2, <1>3, <1>4, RivalsArePageAndEntry

(* While no marker is taken over a request in the lock is alone there. *)
LEMMA UrlStep ==
  ASSUME StoreInv, [Next]_vars
  PROVE  UrlInv'
<1> USE DEF indexVars, lockVars, boundVars
<1>1. SUFFICES ASSUME takeovers' = 0
               PROVE  UrlsUnique' /\ \A r \in Request : UrlStays(r)'
  BY DEF UrlInv
<1>t. /\ takeovers \in Nat /\ file \in [File -> Id \union {None}]
      /\ pc \in [Request -> Before \union InLock \union Answered]
  BY BoundAssumption DEF StoreInv, Base, TypeOK
<1>2. takeovers = 0
  <2>1. ASSUME NEW r \in Request, RequestStep(r)
        PROVE  takeovers = 0
    <3>1. CASE Enter(r)
      BY <3>1, <1>1, <1>t DEF Enter
    <3>2. CASE ~Enter(r)
      <4>1. takeovers' = takeovers
        BY <2>1, <3>2 DEF RequestStep, Approach, Ask, Warm, PrePass, GiveUp, EntryStep,
           TakeKeys, Resolve, Judge, WriteStep, Put, Tidy, RenameStep, Link, Unlink,
           UnlinkFails, Delete, RepairStep, Scan, Archive, Leave
      <4>2. QED
        BY <4>1, <1>1
    <3>3. QED
      BY <3>1, <3>2
  <2>2. QED
    BY <2>1, <1>1 DEF Next, RequestStep, Die, Finished, vars
<1>3. /\ ~crossed /\ UrlsUnique /\ \A r \in Request : UrlStays(r)
      /\ \A r \in Request : pc[r] \in InLock => holder = r
  BY <1>2 DEF StoreInv, Locks, CrossInv, LockInv, UrlInv
<1>4. ASSUME NEW q \in Request, RequestStep(q)
      PROVE  UrlsUnique' /\ \A r \in Request : UrlStays(r)'
  <2>1. Alone(q)
    BY <1>4, StepIsAlone DEF StoreInv, Base
  <2>2. UrlsUnique'
    <3>1. CASE file' = file
      BY <1>3, <3>1 DEF UrlsUnique, On
    <3>2. ASSUME NEW g \in File, NEW v \in Id \union {None}, Sets(g, v),
                 v # None /\ ~On(g) => Free(g[1])
          PROVE  UrlsUnique'
      <4>1. /\ \A f \in File : f # g => file'[f] = file[f]
            /\ file'[g] = v
        BY <3>2, <1>t DEF Sets
      <4>2. ASSUME v # None, ~On(g), NEW f \in File, f # g, On(f), Rival(f[1], g[1])
            PROVE  FALSE
        <5>1. f = <<f[1], f[2]>> /\ f[1] \in Place /\ f[2] \in Id
          BY DEF File
        <5>2. At(f[1]) = {}
          BY <5>1, <4>2, <3>2 DEF Free
        <5>3. QED
          BY <5>1, <5>2, <4>2 DEF At
      <4>3. ASSUME NEW f \in File, NEW h \in File, On(f)', On(h)', Rival(f[1], h[1]), f # h
            PROVE  FALSE
        <5>0. Rival(h[1], f[1])
          BY <4>3 DEF Rival
        <5>1. CASE f # g /\ h # g
          BY <5>1, <4>1, <4>3, <1>3 DEF On, UrlsUnique
        <5>2. CASE f = g
          BY <5>2, <5>0, <4>1, <4>2, <4>3, <1>3 DEF On, UrlsUnique
        <5>3. CASE h = g
          BY <5>3, <5>0, <4>1, <4>2, <4>3, <1>3 DEF On, UrlsUnique
        <5>4. QED
          BY <5>1, <5>2, <5>3
      <4>4. QED
        BY <4>3 DEF UrlsUnique
    <3>3. CASE Put(q)
      <4>1. /\ Sets(Target(q), q) /\ Target(q)[1] = op[q].at
            /\ ~On(Target(q)) => op[q].token = None
        BY <1>3, <3>3, PutEffect DEF Effect
      <4>2. ~On(Target(q)) => Free(Target(q)[1])
        BY <4>1, <1>3, <3>3 DEF UrlStays, Put
      <4>3. QED
        BY <4>1, <4>2, <3>2 DEF Sets
    <3>4. CASE Link(q)
      <4>1. Free(op[q].to)
        BY <1>3, <3>4 DEF UrlStays, Link
      <4>2. CASE Sets(Dest(q), file[Target(q)])
        <5>1. Dest(q)[1] = op[q].to
          BY DEF Dest
        <5>2. QED
          BY <4>1, <4>2, <5>1, <3>2 DEF Sets
      <4>3. QED
        BY <1>3, <3>1, <3>4, <4>2, LinkEffect DEF Effect
    <3>5. CASE Unlink(q) \/ Delete(q)
      <4>1. Sets(Target(q), None)
        BY <1>3, <3>5, UnlinkEffect DEF Effect
      <4>2. QED
        BY <4>1, <3>2 DEF Sets
    <3>6. CASE Archive(q)
      <4>1. PICK g \in File : Sets(g, None)
        BY <3>6, ArchiveEffect DEF Effect, Sets, StoreInv, Base, TypeOK
      <4>2. QED
        BY <4>1, <3>2
    <3>7. CASE Tidy(q)
      BY <1>3, <3>1, <3>7, TidyEffect
    <3>8. CASE \/ Approach(q) \/ EntryStep(q) \/ UnlinkFails(q) \/ Scan(q) \/ Leave(q)
      <4>1. file' = file
        BY <3>8 DEF Approach, Ask, Warm, PrePass, Enter, GiveUp, EntryStep, TakeKeys, Resolve,
                    Judge, UnlinkFails, Scan, Leave
      <4>2. QED
        BY <4>1, <3>1
    <3>9. QED
      BY <1>4, <3>3, <3>4, <3>5, <3>6, <3>7, <3>8
      DEF RequestStep, WriteStep, RenameStep, RepairStep
  <2>3. ASSUME NEW r \in Request \ {q}
        PROVE  UrlStays(r)'
    <3>1. CASE pc[r] # "judged"
      BY <3>1, <2>1 DEF UrlStays, Alone
    <3>2. CASE pc[r] = "judged"
      <4>1. pc[q] \notin InLock
        BY <3>2, <1>3 DEF InLock, Keyed
      <4>2. file' = file
        BY <4>1, <1>3, <1>4, StepEffect DEF Effect, Covered, InLock
      <4>3. op'[r] = op[r] /\ pc'[r] = pc[r]
        BY <2>1 DEF Alone
      <4>4. QED
        BY <1>3, <4>2, <4>3 DEF UrlStays, Free, At, On, Kind
    <3>3. QED
      BY <3>1, <3>2
  <2>4. UrlStays(q)'
    <3>1. CASE Judge(q)
      <4>1. pc[q] = "resolved" /\ pc[q] \in Steady /\ op' = op /\ file' = file
        BY <3>1 DEF Judge, Steady
      <4>2. op[q] \in Operation /\ op[q].at \in Place /\ op[q].to \in Place
        BY <4>1, SteadyType DEF Operation, StoreInv
      <4>3. ASSUME NEW s \in Place, At(s) = {}, ~Contested(s)
            PROVE  Free(s)
        BY <4>3, UncontestedIsFree
      <4>4. ASSUME pc'[q] = "judged", Kind(q) = "write", op[q].token = None
            PROVE  Free(op[q].at)
        <5>1. MayWrite(q)
          BY <1>t, <3>1, <4>4 DEF Judge, GoTo
        <5>2. ~On(Target(q)) /\ ~Contested(op[q].at)
          BY <5>1, <4>4 DEF MayWrite, On
        <5>3. At(op[q].at) = {}
          BY <4>1, <5>2, <1>3, OnTarget
        <5>4. QED
          BY <5>2, <5>3, <4>2, <4>3
      <4>5. ASSUME pc'[q] = "judged", Kind(q) = "rename"
            PROVE  Free(op[q].to)
        <5>1. MayRename(q)
          BY <1>t, <3>1, <4>5 DEF Judge, GoTo
        <5>2. QED
          BY <5>1, <4>2, <4>3 DEF MayRename
      <4>6. QED
        BY <4>1, <4>4, <4>5 DEF UrlStays, Free, At, On, Kind
    <3>2. CASE ~Judge(q)
      <4>1. pc'[q] # "judged"
        <5>1. CASE Ask(q)
          <6>1. PICK o \in Operation :
                  GoTo(q, CASE o.kind = "write" -> "opened"
                          [] o.kind \in {"rename", "delete"} -> "warm"
                          [] o.kind = "repair" -> "waiting")
            BY <5>1 DEF Ask
          <6>2. o.kind \in Kinds
            BY DEF Operation
          <6>3. QED
            BY <1>t, <6>1, <6>2 DEF Kinds, GoTo
        <5>2. CASE Warm(q) \/ PrePass(q) \/ Enter(q) \/ GiveUp(q) \/ TakeKeys(q) \/ Leave(q)
          BY <5>2, <1>t DEF Warm, PrePass, Enter, GiveUp, TakeKeys, Leave, Outcome, GoTo
        <5>3. CASE WriteStep(q) \/ RenameStep(q) \/ Delete(q)
          BY <5>3, <1>t DEF WriteStep, Put, Tidy, RenameStep, Link, Unlink, UnlinkFails, Delete, GoTo
        <5>4. CASE Scan(q)
          BY <5>4, <1>t DEF Scan, GoTo
        <5>5. CASE Archive(q)
          BY <5>5, <1>t DEF Archive, GoTo
        <5>6. CASE Resolve(q)
          BY <5>6, <1>t DEF Resolve, GoTo
        <5>7. QED
          BY <1>4, <3>2, <5>1, <5>2, <5>3, <5>4, <5>5, <5>6
          DEF RequestStep, Approach, EntryStep, RepairStep
      <4>2. QED
        BY <4>1 DEF UrlStays
    <3>3. QED
      BY <3>1, <3>2
  <2>5. QED
    BY <2>2, <2>3, <2>4
<1>5. ASSUME NEW p \in Process, Die(p)
      PROVE  UrlsUnique' /\ \A r \in Request : UrlStays(r)'
  <2>1. PICK S \in SUBSET Request : Forget(S) /\ pc' = OnExit(S, pc, "over")
    BY <1>5 DEF Die
  <2>2. file' = file
    BY <1>5 DEF Die
  <2>3. UrlsUnique'
    BY <1>3, <2>2 DEF UrlsUnique, On
  <2>4. ASSUME NEW r \in Request, pc'[r] = "judged"
        PROVE  UrlStays(r)'
    <3>1. op'[r] = op[r] /\ pc[r] = "judged"
      BY <2>1, <2>4 DEF OnExit, Forget
    <3>2. QED
      BY <3>1, <2>2, <1>3 DEF UrlStays, Free, At, On, Kind
  <2>5. QED
    BY <2>3, <2>4 DEF UrlStays
<1>6. CASE UNCHANGED vars
  BY <1>6, <1>3 DEF vars, UrlsUnique, On, UrlStays, Free, At, Kind
<1>7. QED
  BY <1>4, <1>5, <1>6 DEF Next, RequestStep, Finished

LEMMA InitInv ==
  ASSUME Init
  PROVE  StoreInv
<1>1. Base
  BY InitBase
<1>2. Locks
  BY DEF Init, Locks, LockInv, CrossInv, KeyInv, Held, InLock, Keyed
<1>3. UrlInv
  BY DEF Init, UrlInv, UrlStays
<1>4. SlugInv
  BY DEF Init, SlugInv
<1>5. RequestInv
  <2>1. PICK where \in [Original -> Place] :
          file = [f \in File |->
                    IF f[2] \in Original /\ where[f[2]] = f[1] THEN f[2] ELSE None]
    BY DEF Init
  <2>2. ASSUME NEW r \in Request
        PROVE  FreshId(r) /\ FoundStays(r) /\ JudgmentStays(r) /\ ContentStands(r)
    <3>1. pc[r] = "idle" /\ indexed[r] = Blank /\ r \in Id /\ r \notin Original
      BY DEF Init, Id
    <3>2. \A s \in Place : ~On(<<s, r>>)
      BY <2>1, <3>1 DEF On, File
    <3>3. QED
      BY <3>1, <3>2 DEF FreshId, FoundStays, JudgmentStays, ContentStands, Blank, Steady
  <2>3. QED
    BY <2>2 DEF RequestInv
<1>6. QED
  BY <1>1, <1>2, <1>3, <1>4, <1>5 DEF StoreInv

LEMMA NextInv ==
  ASSUME StoreInv, [Next]_vars
  PROVE  StoreInv'
<1>1. Base'
  BY BaseStep DEF StoreInv
<1>2. Locks'
  BY LocksStep DEF StoreInv
<1>3. RequestInv' /\ SlugInv' /\ UrlInv'
  BY RequestInvStep, UrlStep
<1>4. QED
  BY <1>1, <1>2, <1>3 DEF StoreInv

(* What content-store.ts's requests keep true of the files, of the two locks *)
(* and of what each has found and judged.                                    *)
THEOREM Invariant == Spec => []StoreInv
<1>1. Init => StoreInv
  BY InitInv
<1>2. StoreInv /\ [Next]_vars => StoreInv'
  BY NextInv
<1>3. QED
  BY <1>1, <1>2, PTL DEF Spec

(* Every variable keeps its type. *)
THEOREM TypeCorrect == Spec => []TypeOK
<1>1. StoreInv => TypeOK
  BY DEF StoreInv, Base
<1>2. QED
  BY <1>1, Invariant, PTL

(* A save that was answered 200 stands in some file until a save that read   *)
(* it replaces it, or a delete or a repair takes it away, however containers *)
(* share the branch and whichever of them die.                               *)
THEOREM SavesKeepStanding == Spec => []SavesStand
<1>1. StoreInv => SavesStand
  <2>1. ASSUME StoreInv, Exclusive, NEW r \in Request, pc[r] = "saved"
        PROVE  r \in retired \/ \E f \in File : file[f] = r
    <3>1. ~crossed
      BY <2>1 DEF Exclusive, StoreInv, Locks, CrossInv
    <3>2. QED
      BY <2>1, <3>1 DEF StoreInv, RequestInv, ContentStands, Stands
  <2>2. QED
    BY <2>1 DEF SavesStand
<1>2. QED
  BY <1>1, Invariant, PTL

(* No slug ever has two files and, while no live holder's marker is taken    *)
(* over, no URL has but in collections that share their path with another.   *)
THEOREM UrlHasOneFile == Spec => []OneFilePerUrl
<1>1. StoreInv => OneFilePerUrl
  BY DEF StoreInv, Locks, CrossInv, Exclusive, SlugInv, UrlInv, OneFilePerUrl
<1>2. QED
  BY <1>1, Invariant, PTL

(* Rule [F1]: no step of a save removes or changes a file that it did not    *)
(* address.                                                                  *)
THEOREM SavesStayHome == Spec => SavesStayOnTheirFile
<1> DEFINE Stay ==
      Exclusive =>
       \A r \in Request :
         op[r] # None /\ pc'[r] # pc[r] /\ Kind(r) = "write" =>
           \A f \in File : file'[f] # file[f] => f[1] = op[r].at /\ file'[f] = r
<1>1. StoreInv /\ [Next]_vars => Stay
  <2>1. ASSUME StoreInv, [Next]_vars, ~crossed, NEW r \in Request,
               pc'[r] # pc[r], Kind(r) = "write",
               NEW f \in File, file'[f] # file[f]
        PROVE  f[1] = op[r].at /\ file'[f] = r
    <3>1. PICK q \in Request : RequestStep(q)
      BY <2>1 DEF Next, RequestStep, Die, Finished, vars
    <3>2. q = r
      BY <2>1, <3>1, StepIsAlone DEF Alone, StoreInv, Base
    <3>3. ~Tidy(r)
      BY <2>1, TidyEffect
    <3>4. CASE Put(r)
      <4>1. Sets(Target(r), r) /\ Target(r)[1] = op[r].at
        BY <2>1, <3>4, PutEffect DEF Effect
      <4>2. QED
        BY <4>1, <2>1 DEF Sets, StoreInv, Base, TypeOK
    <3>5. ~(RenameStep(r) \/ Delete(r) \/ RepairStep(r))
      BY <2>1 DEF RenameStep, Link, Unlink, UnlinkFails, Delete, RepairStep, Scan, Archive,
                  StoreInv, Base, ControlInv
    <3>6. ~(Approach(r) \/ EntryStep(r) \/ Leave(r))
      BY <2>1 DEF Approach, Ask, Warm, PrePass, Enter, GiveUp, EntryStep, TakeKeys, Resolve,
                  Judge, Leave
    <3>7. QED
      BY <3>1, <3>2, <3>3, <3>4, <3>5, <3>6 DEF RequestStep, WriteStep
  <2>2. StoreInv /\ Exclusive => ~crossed
    BY DEF Exclusive, StoreInv, Locks, CrossInv
  <2>3. QED
    BY <2>1, <2>2
<1>2. Spec => [][Stay]_vars
  BY <1>1, Invariant, PTL DEF Spec
<1>3. QED
  BY <1>2 DEF SavesStayOnTheirFile

-----------------------------------------------------------------------------
(* The store implements EntryStore.                                          *)

(* While none has crossed, a repair is alone inside: every file that it is   *)
(* still to archive is there, and so is another one of its id that it keeps. *)
RepairStays(r) ==
  pc[r] = "scanned" =>
    \A f \in found[r] :
      On(f) /\ \E s \in Place : On(<<s, f[2]>>) /\ <<s, f[2]>> \notin found[r]
RepairInv == ~crossed => \A r \in Request : RepairStays(r)

(* What is kept of an id that has a file is where one of its files is. *)
LEMMA KeptIsThere ==
  ASSUME NEW f \in File, On(f)
  PROVE  Kept(f[2]) \in Place /\ On(<<Kept(f[2]), f[2]>>)
<1>1. f[1] \in Place /\ f[2] \in Id /\ f = <<f[1], f[2]>>
  BY DEF File
<1>2. f[1] \in PlacesOf(f[2])
  BY <1>1 DEF PlacesOf
<1>3. PlacesOf(f[2]) \in SUBSET Place
  BY DEF PlacesOf
<1>4. Kept(f[2]) \in Place
  BY <1>2, <1>3, SmallestIsOne DEF Kept
<1>5. QED
  BY <1>1, <1>4, KeptIsOne

(* Beside a repair nobody is inside, and nobody changes the files. *)
LEMMA BesideRepair ==
  ASSUME StoreInv, ~crossed, ~crossed', NEW q \in Request, pc[q] = "scanned",
         NEW r \in Request \ {q}, RequestStep(r)
  PROVE  file' = file
<1>1. Kind(q) = "repair" /\ pc[q] \in InLock
  BY DEF StoreInv, Base, ControlInv, InLock
<1>2. pc[r] \notin InLock
  BY <1>1 DEF StoreInv, Locks, CrossInv, OnlyMarker
<1>3. Approach(r)
  BY <1>2 DEF RequestStep, EntryStep, TakeKeys, Resolve, Judge, WriteStep, Put, Tidy,
     RenameStep, Link, Unlink, UnlinkFails, Delete, RepairStep, Scan, Archive, Leave,
     InLock, Keyed
<1>4. QED
  BY <1>3 DEF Approach, Ask, Warm, PrePass, Enter, GiveUp

(* A scan keeps a file of every id it drops one of, and an archived file is *)
(* not one that is kept.                                                     *)
LEMMA RepairInvStep ==
  ASSUME StoreInv, RepairInv, [Next]_vars
  PROVE  RepairInv'
<1> USE DEF indexVars, lockVars, boundVars
<1>t. TypeOK
  BY DEF StoreInv, Base
<1>1. SUFFICES ASSUME ~crossed', NEW q \in Request, pc'[q] = "scanned"
               PROVE  RepairStays(q)'
  BY DEF RepairInv, RepairStays
<1>2. ~crossed
  BY <1>1, CrossedStays
<1>3. ASSUME file' = file, pc'[q] = pc[q], found'[q] = found[q]
      PROVE  RepairStays(q)'
  BY <1>1, <1>2, <1>3 DEF RepairInv, RepairStays, On
<1>4. ASSUME NEW r \in Request, RequestStep(r)
      PROVE  RepairStays(q)'
  <2>1. CASE r # q
    BY <1>1, <1>2, <1>3, <1>4, <1>t, <2>1, BesideRepair, StepIsAlone DEF Alone
  <2>2. CASE r = q /\ Scan(q)
    <3>1. /\ file' = file
          /\ found'[q] = {f \in File : On(f) /\ f[1] # Kept(f[2])}
      BY <1>t, <2>2 DEF Scan, TypeOK
    <3>2. ASSUME NEW f \in found'[q]
          PROVE  /\ On(f)
                 /\ \E s \in Place : On(<<s, f[2]>>) /\ <<s, f[2]>> \notin found'[q]
      <4>1. f \in File /\ On(f)
        BY <3>1
      <4>2. Kept(f[2]) \in Place /\ On(<<Kept(f[2]), f[2]>>)
        BY <4>1, KeptIsThere
      <4>3. <<Kept(f[2]), f[2]>> \notin found'[q]
        BY <3>1
      <4>4. QED
        BY <4>1, <4>2, <4>3
    <3>3. QED
      BY <3>1, <3>2 DEF RepairStays, On
  <2>3. CASE r = q /\ Archive(q)
    <3>1. PICK g \in found[q] :
            /\ file' = [file EXCEPT ![g] = None]
            /\ found' = [found EXCEPT ![q] = @ \ {g}]
      BY <2>3 DEF Archive
    <3>2. /\ pc[q] = "scanned" /\ found[q] \in SUBSET File
          /\ found'[q] = found[q] \ {g}
          /\ \A f \in File : f # g => file'[f] = file[f]
      BY <1>t, <2>3, <3>1 DEF Archive, TypeOK
    <3>3. RepairStays(q)
      BY <1>2 DEF RepairInv
    <3>4. ASSUME NEW f \in found'[q]
          PROVE  /\ On(f)'
                 /\ \E s \in Place : On(<<s, f[2]>>)' /\ <<s, f[2]>> \notin found'[q]
      <4>1. f \in File /\ f \in found[q] /\ f # g /\ f[2] \in Id
        BY <3>2 DEF File
      <4>2. PICK s \in Place : On(<<s, f[2]>>) /\ <<s, f[2]>> \notin found[q]
        BY <3>2, <3>3, <4>1 DEF RepairStays
      <4>3. <<s, f[2]>> \in File /\ <<s, f[2]>> # g
        BY <4>1, <4>2 DEF File
      <4>4. On(f)
        BY <3>2, <3>3, <4>1 DEF RepairStays
      <4>5. QED
        BY <3>2, <4>1, <4>2, <4>3, <4>4 DEF On
    <3>5. QED
      BY <3>4 DEF RepairStays
  <2>4. CASE r = q /\ ~Scan(q) /\ ~Archive(q)
    <3>1. pc'[q] # "scanned"
      <4>1. CASE Approach(q)
        <5>1. ASSUME Ask(q) PROVE pc'[q] # "scanned"
          <6>1. PICK o \in Operation :
                  GoTo(q, CASE o.kind = "write" -> "opened"
                            [] o.kind \in {"rename", "delete"} -> "warm"
                            [] o.kind = "repair" -> "waiting")
            BY <5>1 DEF Ask
          <6>2. o.kind \in Kinds
            BY DEF Operation
          <6>3. QED
            BY <1>t, <6>1, <6>2 DEF GoTo, TypeOK, Kinds
        <5>2. QED
          BY <1>t, <4>1, <5>1 DEF Approach, Warm, PrePass, Enter, GiveUp, GoTo, TypeOK
      <4>2. CASE EntryStep(q) \/ WriteStep(q) \/ RenameStep(q) \/ Delete(q) \/ Leave(q)
        BY <1>t, <4>2 DEF EntryStep, TakeKeys, Resolve, Judge, WriteStep, Put, Tidy,
           RenameStep, Link, Unlink, UnlinkFails, Delete, Leave, Outcome, GoTo, TypeOK
      <4>3. QED
        BY <1>4, <2>4, <4>1, <4>2 DEF RequestStep, RepairStep
    <3>2. QED
      BY <1>1, <3>1
  <2>5. QED
    BY <2>1, <2>2, <2>3, <2>4
<1>5. ASSUME NEW p \in Process, Die(p)
      PROVE  RepairStays(q)'
  <2>1. pc'[q] = pc[q] /\ found'[q] = found[q] /\ file' = file
    BY <1>1, <1>5 DEF Die, OnExit, Forget
  <2>2. QED
    BY <1>3, <2>1
<1>6. QED
  BY <1>3, <1>4, <1>5 DEF Next, RequestStep, Finished, vars

EntriesInv == StoreInv /\ RepairInv

LEMMA EntriesInvariant == Spec => []EntriesInv
<1>1. Init => EntriesInv
  BY InitInv DEF Init, RepairInv, RepairStays, EntriesInv
<1>2. EntriesInv /\ [Next]_vars => EntriesInv'
  BY NextInv, RepairInvStep DEF EntriesInv
<1>3. QED
  BY <1>1, <1>2, PTL DEF Spec

(* What a slug shows is its one file. *)
EntryIs ==
  \A s \in Place, i \in Id :
    On(<<s, i>>) => EntryAt(s) = i /\ ContentAt(s) = file[<<s, i>>]
LEMMA EntryIsFile == TypeOK /\ SlugsUnique => EntryIs
<1>1. SUFFICES ASSUME TypeOK, SlugsUnique, NEW s \in Place, NEW i \in Id, On(<<s, i>>)
               PROVE  EntryAt(s) = i /\ ContentAt(s) = file[<<s, i>>]
  BY DEF EntryIs
<1>2. \A j \in Id : On(<<s, j>>) => j = i
  BY <1>1 DEF SlugsUnique, File
<1>3. Shows(s) /\ EntryAt(s) = i
  BY <1>1, <1>2 DEF Shows, EntryAt
<1>4. QED
  BY <1>3 DEF ContentAt

NoEntryIs ==
  \A s \in Place : At(s) = {} => EntryAt(s) = None /\ ContentAt(s) = None
LEMMA NoEntryIsNone == NoEntryIs
BY DEF NoEntryIs, At, Shows, EntryAt, ContentAt

(* Every slug has one file or none. *)
LEMMA FileAt ==
  ASSUME NEW s \in Place
  PROVE  At(s) = {} \/ \E i \in Id : On(<<s, i>>)
BY DEF At

(* What does not touch a slug's files leaves what it shows. *)
Still(s) == EntryAt(s)' = EntryAt(s) /\ ContentAt(s)' = ContentAt(s)
LEMMA OthersShow ==
  ASSUME SlugsUnique, SlugsUnique', TypeOK, TypeOK', NEW s \in Place,
         \A i \in Id : file'[<<s, i>>] = file[<<s, i>>]
  PROVE  Still(s)
<1>1. EntryIs /\ NoEntryIs
  BY EntryIsFile, NoEntryIsNone
<1>2. EntryIs' /\ NoEntryIs'
  <2>1. (TypeOK /\ SlugsUnique => EntryIs)' /\ NoEntryIs'
    BY EntryIsFile, NoEntryIsNone, PTL
  <2>2. QED
    BY <2>1
<1>3. CASE At(s) = {}
  <2>1. At(s)' = {}
    BY <1>3 DEF At, On
  <2>2. QED
    BY <1>1, <1>2, <1>3, <2>1 DEF Still, NoEntryIs
<1>4. ASSUME NEW i \in Id, On(<<s, i>>)
      PROVE  Still(s)
  <2>1. On(<<s, i>>)'
    BY <1>4 DEF On
  <2>2. QED
    BY <1>1, <1>2, <1>4, <2>1 DEF Still, EntryIs
<1>5. QED
  BY <1>3, <1>4, FileAt

(* A change of one file changes what its slug shows, and nothing else.       *)
LEMMA SetsShow ==
  ASSUME SlugsUnique, SlugsUnique', TypeOK, TypeOK',
         NEW g, NEW v, Sets(g, v), v # None \/ On(g)
  PROVE  /\ \A s \in Place : s # g[1] => Still(s)
         /\ v # None => EntryAt(g[1])' = g[2] /\ ContentAt(g[1])' = v
         /\ v = None => EntryAt(g[1])' = None /\ ContentAt(g[1])' = None
<1>1. /\ g \in File /\ g[1] \in Place /\ g[2] \in Id /\ g = <<g[1], g[2]>>
      /\ \A f \in File : f # g => file'[f] = file[f]
      /\ file'[g] = v
  BY DEF Sets, TypeOK, File
<1>2. EntryIs' /\ NoEntryIs'
  <2>1. (TypeOK /\ SlugsUnique => EntryIs)' /\ NoEntryIs'
    BY EntryIsFile, NoEntryIsNone, PTL
  <2>2. QED
    BY <2>1
<1>3. ASSUME NEW s \in Place, s # g[1]
      PROVE  Still(s)
  <2>1. \A i \in Id : <<s, i>> \in File /\ <<s, i>> # g
    BY <1>1, <1>3 DEF File
  <2>2. QED
    BY <1>1, <1>3, <2>1, OthersShow
<1>4. CASE v # None
  <2>1. On(<<g[1], g[2]>>)'
    BY <1>1, <1>4 DEF On
  <2>2. QED
    BY <1>1, <1>2, <1>3, <1>4, <2>1 DEF EntryIs
<1>5. CASE v = None
  <2>1. ASSUME NEW i \in Id
        PROVE  ~On(<<g[1], i>>)'
    <3>1. <<g[1], i>> \in File
      BY <1>1 DEF File
    <3>2. CASE i = g[2]
      BY <1>1, <1>5, <3>2 DEF On
    <3>3. CASE i # g[2]
      <4>1. <<g[1], i>> # g
        BY <1>1, <3>3
      <4>2. ~On(<<g[1], i>>)
        BY <1>1, <1>5, <3>1, <4>1 DEF SlugsUnique
      <4>3. QED
        BY <1>1, <3>1, <4>1, <4>2 DEF On
    <3>4. QED
      BY <3>2, <3>3
  <2>2. At(g[1])' = {}
    BY <2>1 DEF At
  <2>3. QED
    BY <1>1, <1>2, <1>3, <1>5, <2>2 DEF NoEntryIs
<1>6. QED
  BY <1>3, <1>4, <1>5

-----------------------------------------------------------------------------
(* Each step is one of EntryStore's or none. *)

ProgressIs ==
  \A r \in Request :
    /\ pc[r] = "idle" => Progress(r) = "new"
    /\ pc[r] \in {"opened", "warm", "waiting", "inside", "keyed", "resolved", "judged",
                  "scanned"} => Progress(r) = "asked"
    /\ pc[r] = "linked" => Progress(r) = "copied"
    /\ pc[r] \in {"put", "leaving"} => Progress(r) = "done"
    /\ pc[r] = "failing" => Progress(r) = "failed"
    /\ pc[r] \in Answered => Progress(r) = pc[r]
LEMMA ProgressTable == ProgressIs
BY DEF ProgressIs, Progress, Answered
LEMMA ProgressTables == ProgressIs /\ ProgressIs'
BY ProgressTable, PTL

(* One request gets on, and asks for what it did. *)
Moves(r, to) ==
  /\ Progress(r)' = to
  /\ \A q \in Request \ {r} : Progress(q)' = Progress(q)
  /\ op' = op /\ crossed' = crossed

LEMMA MovesTo ==
  ASSUME NEW r \in Request, NEW to, Moves(r, to)
  PROVE  Promise!To(r, to)
BY DEF Moves, Promise!To

LEMMA OthersProgress ==
  ASSUME TypeOK, NEW r \in Request, RequestStep(r)
  PROVE  \A q \in Request \ {r} : Progress(q)' = Progress(q)
BY StepIsAlone DEF Alone, Progress

(* One slug shows something else. *)
LEMMA SlugShows ==
  ASSUME NEW s \in Place, NEW i, NEW c,
         EntryAt(s)' = i, ContentAt(s)' = c,
         \A t \in Place : t # s => Still(t)
  PROVE  Promise!Show(s, i, c)
BY DEF Still, Promise!Show

LEMMA Stutters ==
  ASSUME \A s \in Place : Still(s), \A r \in Request : Progress(r)' = Progress(r),
         op' = op, crossed' = crossed
  PROVE  UNCHANGED Promise!vars
BY DEF Still, Promise!vars

LEMMA Ends ==
  ASSUME NEW S \in SUBSET Request,
         \A r \in S : Progress(r) \in {"asked", "copied", "done", "failed"},
         \A s \in Place : Still(s),
         \A r \in S : Progress(r)' = "over",
         \A r \in Request \ S : Progress(r)' = Progress(r),
         op' = OnExit(S, op, None), crossed' = crossed
  PROVE  Promise!Next
<1>1. Promise!End(S)
  BY DEF Still, OnExit, Promise!End
<1>2. QED
  BY <1>1 DEF Promise!Next

LEMMA Fails ==
  ASSUME NEW r \in Request, Progress(r) \in {"asked", "copied"},
         \A s \in Place : Still(s), Moves(r, "failed")
  PROVE  Promise!Next
<1>1. Promise!To(r, "failed")
  BY MovesTo
<1>2. Promise!Fail(r)
  BY <1>1 DEF Still, Promise!Fail
<1>3. QED
  BY <1>2 DEF Promise!Next

(* Both sides of a step that nobody crosses at. *)
Calm == EntriesInv /\ EntriesInv' /\ ~crossed /\ ~crossed'

LEMMA CalmGives ==
  ASSUME Calm
  PROVE  /\ StoreInv /\ RepairInv /\ TypeOK /\ TypeOK' /\ SlugsUnique /\ SlugsUnique'
         /\ EntryIs /\ NoEntryIs
<1>1. TypeOK /\ SlugsUnique
  BY DEF Calm, EntriesInv, StoreInv, Base, SlugInv
<1>2. QED
  BY <1>1, EntryIsFile, NoEntryIsNone DEF Calm, EntriesInv, StoreInv, Base, SlugInv

LEMMA FilesStay ==
  ASSUME Calm, file' = file
  PROVE  \A s \in Place : Still(s)
BY CalmGives, OthersShow

LEMMA IdIsSome == \A i \in Id : i # None
BY DEF Key

LEMMA AskMaps ==
  ASSUME Calm, NEW r \in Request, Ask(r)
  PROVE  Promise!Next
<1>1. TypeOK
  BY CalmGives
<1>2. PICK o \in Operation :
        /\ op' = [op EXCEPT ![r] = o]
        /\ GoTo(r, CASE o.kind = "write" -> "opened"
                    [] o.kind \in {"rename", "delete"} -> "warm"
                    [] o.kind = "repair" -> "waiting")
  BY DEF Ask
<1>3. o.kind \in Kinds
  BY DEF Operation
<1>4. pc'[r] \in {"opened", "warm", "waiting"} /\ pc[r] = "idle"
  BY <1>1, <1>2, <1>3 DEF GoTo, Kinds, TypeOK, Ask
<1>5. Progress(r)' = "asked" /\ Progress(r) = "new"
  BY <1>4, ProgressTables DEF ProgressIs
<1>6. \A s \in Place : Still(s)
  BY FilesStay DEF Ask
<1>7. \A q \in Request \ {r} : Progress(q)' = Progress(q)
  BY <1>1, OthersProgress DEF RequestStep, Approach
<1>8. crossed' = crossed
  BY DEF Ask, boundVars
<1>9. Promise!Ask(r)
  BY <1>2, <1>5, <1>6, <1>7, <1>8 DEF Still, Promise!Ask
<1>10. QED
  BY <1>9 DEF Promise!Next

(* A request alone ends. *)
LEMMA AloneEnds ==
  ASSUME Calm, NEW r \in Request, RequestStep(r), file' = file, Forget({r}),
         pc'[r] = "over", pc[r] \notin {"idle"} \union Answered, crossed' = crossed
  PROVE  Promise!Next
<1>1. TypeOK
  BY CalmGives
<1>2. Progress(r) \in {"asked", "copied", "done", "failed"} /\ Progress(r)' = "over"
  BY <1>1, ProgressTables DEF ProgressIs, TypeOK, Before, InLock, Keyed, Answered
<1>3. \A q \in Request \ {r} : Progress(q)' = Progress(q)
  BY <1>1, OthersProgress
<1>4. \A s \in Place : Still(s)
  BY FilesStay
<1>5. QED
  BY <1>2, <1>3, <1>4, Ends DEF Forget

LEMMA ApproachMaps ==
  ASSUME Calm, NEW r \in Request, Approach(r)
  PROVE  Promise!Next \/ UNCHANGED Promise!vars
<1> USE DEF indexVars, lockVars, boundVars
<1>1. TypeOK /\ RequestStep(r)
  BY CalmGives DEF RequestStep
<1>2. crossed' = crossed
  BY DEF Calm, CalmGives, TypeOK, EntriesInv, StoreInv, Base
<1>3. CASE Ask(r)
  BY <1>3, AskMaps
<1>4. CASE \/ Warm(r) \/ Enter(r)
           \/ PrePass(r) /\ pc'[r] = "waiting" /\ op' = op
  <2>1. /\ pc[r] \in {"opened", "warm", "waiting"} /\ pc'[r] \in {"warm", "waiting", "inside"}
        /\ file' = file /\ op' = op
    BY <1>1, <1>4 DEF Warm, Enter, PrePass, GoTo, TypeOK
  <2>2. Progress(r)' = Progress(r)
    BY <2>1, ProgressTables DEF ProgressIs
  <2>3. QED
    BY <1>1, <1>2, <2>1, <2>2, FilesStay, OthersProgress, Stutters
<1>5. CASE GiveUp(r) \/ (PrePass(r) /\ ~(pc'[r] = "waiting" /\ op' = op))
  <2>1. /\ pc[r] \in {"warm", "waiting"} /\ pc'[r] = "over" /\ Forget({r}) /\ file' = file
    BY <1>1, <1>5 DEF GiveUp, PrePass, GoTo, TypeOK
  <2>2. QED
    BY <1>1, <1>2, <2>1, AloneEnds DEF Answered
<1>6. QED
  BY <1>3, <1>4, <1>5 DEF Approach

(* What does nothing to the entries, or finds that there is nothing to do.   *)
LEMMA QuietMaps ==
  ASSUME Calm, NEW r \in Request,
         \/ EntryStep(r) \/ Scan(r) \/ UnlinkFails(r) \/ Tidy(r)
         \/ Link(r) /\ pc'[r] = "failing" /\ file' = file
  PROVE  Promise!Next \/ UNCHANGED Promise!vars
<1> USE DEF indexVars, lockVars, boundVars
<1>1. TypeOK /\ RequestStep(r)
  BY CalmGives DEF RequestStep, WriteStep, RepairStep, RenameStep
<1>2. op' = op /\ crossed' = crossed
  BY DEF EntryStep, TakeKeys, Resolve, Judge, Scan, UnlinkFails, Tidy, Link
<1>3. file' = file
  BY CalmGives, TidyEffect DEF EntryStep, TakeKeys, Resolve, Judge, Scan, UnlinkFails, Calm
<1>4. \A s \in Place : Still(s)
  BY <1>3, FilesStay
<1>5. \A q \in Request \ {r} : Progress(q)' = Progress(q)
  BY <1>1, OthersProgress
<1>6. \/ /\ pc[r] \in {"inside", "keyed", "resolved"}
         /\ pc'[r] \in {"inside", "keyed", "resolved", "judged", "scanned"}
      \/ pc[r] = "put" /\ pc'[r] = "leaving"
      \/ /\ pc[r] \in {"inside", "keyed", "resolved", "judged", "linked"}
         /\ pc'[r] = "failing"
  BY <1>1 DEF EntryStep, TakeKeys, Resolve, Judge, Scan, UnlinkFails, Tidy, Link, GoTo,
     TypeOK
<1>7. CASE pc'[r] # "failing"
  <2>1. Progress(r)' = Progress(r)
    BY <1>6, <1>7, ProgressTables DEF ProgressIs
  <2>2. QED
    BY <1>2, <1>4, <1>5, <2>1, Stutters
<1>8. CASE pc'[r] = "failing"
  <2>1. Progress(r)' = "failed" /\ Progress(r) \in {"asked", "copied"}
    BY <1>6, <1>8, ProgressTables DEF ProgressIs
  <2>2. Moves(r, "failed")
    BY <1>2, <1>5, <2>1 DEF Moves
  <2>3. QED
    BY <1>4, <2>1, <2>2, Fails
<1>9. QED
  BY <1>7, <1>8

LEMMA PutMaps ==
  ASSUME Calm, NEW r \in Request, Put(r)
  PROVE  Promise!Save(r)
<1>1. TypeOK /\ StoreInv /\ EntryIs /\ NoEntryIs /\ r \in Id /\ RequestStep(r)
  BY CalmGives DEF Id, RequestStep, WriteStep
<1>2. pc[r] = "judged" /\ Kind(r) = "write" /\ pc[r] \in Steady
  BY DEF Put, Steady
<1>3. PICK f \in File, s \in Place :
        f = Target(r) /\ s = op[r].at /\ f[1] = s /\ f = <<s, f[2]>> /\ f[2] \in Id
  BY <1>1, <1>2, SteadyType DEF StoreInv, File
<1>4. Sets(f, r) /\ file[f] = op[r].token
  BY <1>1, <1>3, PutEffect DEF Calm, Effect
<1>5. \/ On(f)
      \/ f[2] = r /\ At(s) = {}
  BY <1>1, <1>2, <1>3, OnTarget DEF Calm
<1>6. /\ \A t \in Place : t # s => Still(t)
      /\ EntryAt(s)' = f[2] /\ ContentAt(s)' = r
  <2>1. r # None /\ f[1] = s
    BY <1>1, <1>3, IdIsSome
  <2>2. /\ \A t \in Place : t # f[1] => Still(t)
        /\ EntryAt(f[1])' = f[2] /\ ContentAt(f[1])' = r
    BY <1>4, <2>1, CalmGives, SetsShow
  <2>3. QED
    BY <2>1, <2>2
<1>7. /\ ContentAt(s) = op[r].token
      /\ \/ EntryAt(s) = f[2] /\ f[2] # None
         \/ EntryAt(s) = None /\ f[2] = r
  <2>1. CASE On(f)
    <3>1. EntryAt(s) = f[2] /\ ContentAt(s) = file[f]
      BY <1>1, <1>3, <2>1 DEF EntryIs
    <3>2. QED
      BY <1>3, <1>4, <3>1, IdIsSome
  <2>2. CASE ~On(f)
    BY <1>1, <1>3, <1>4, <1>5, <2>2 DEF NoEntryIs, On
  <2>3. QED
    BY <2>1, <2>2
<1>8. pc'[r] = "put" /\ op' = op /\ crossed' = crossed
  BY <1>1 DEF Put, GoTo, TypeOK, boundVars
<1>9. Progress(r) = "asked" /\ Progress(r)' = "done"
  BY <1>2, <1>8, ProgressTables DEF ProgressIs
<1>10. Promise!To(r, "done")
  BY <1>1, <1>8, <1>9, OthersProgress, MovesTo DEF Moves
<1>11. Promise!Asked(r, "write")
  BY <1>2, <1>9 DEF Promise!Asked, Kind
<1>12. /\ [t \in Place |-> EntryAt(t)'] =
            IF EntryAt(s) = None THEN [[t \in Place |-> EntryAt(t)] EXCEPT ![s] = r]
                                 ELSE [t \in Place |-> EntryAt(t)]
       /\ [t \in Place |-> ContentAt(t)'] =
            [[t \in Place |-> ContentAt(t)] EXCEPT ![s] = r]
  BY <1>3, <1>6, <1>7 DEF Still
<1>13. QED
  BY <1>3, <1>7, <1>10, <1>11, <1>12 DEF Promise!Save

LEMMA LinkMaps ==
  ASSUME Calm, NEW r \in Request, Link(r)
  PROVE  Promise!Next
<1>1. TypeOK /\ StoreInv /\ EntryIs /\ NoEntryIs /\ RequestStep(r)
  BY CalmGives DEF RequestStep, RenameStep
<1>2. pc[r] = "judged" /\ Kind(r) = "rename" /\ pc[r] \in Steady
  BY DEF Link, Steady
<1>3. op' = op /\ crossed' = crossed
  BY DEF Link, boundVars
<1>4. \A q \in Request \ {r} : Progress(q)' = Progress(q)
  BY <1>1, OthersProgress
<1>5. Progress(r) = "asked"
  BY <1>2, ProgressTables DEF ProgressIs
<1>6. CASE file' = file /\ pc'[r] = "failing"
  <2>1. Progress(r)' = "failed"
    BY <1>6, ProgressTables DEF ProgressIs
  <2>2. QED
    BY <1>3, <1>4, <1>5, <1>6, <2>1, FilesStay, Fails DEF Moves
<1>7. CASE /\ Effect(r, Dest(r), file[Target(r)])
           /\ On(Target(r)) /\ ~On(Dest(r)) /\ Dest(r) # Target(r)
  <2>1. PICK f \in File, g \in File, s \in Place, t \in Place, i \in Id,
             c \in Id \union {None} :
          /\ f = Target(r) /\ g = Dest(r) /\ s = op[r].at /\ t = op[r].to
          /\ i = f[2] /\ c = file[f] /\ f = <<s, i>> /\ g = <<t, i>>
    <3>1. /\ Target(r) \in File /\ Dest(r) \in File /\ Target(r)[1] = op[r].at
          /\ op[r].to \in Place
      BY <1>1, <1>2, SteadyType DEF StoreInv, Operation
    <3>2. /\ Target(r)[1] \in Place /\ Target(r)[2] \in Id
          /\ Target(r) = <<Target(r)[1], Target(r)[2]>>
      BY <3>1 DEF File
    <3>3. file[Target(r)] \in Id \union {None}
      BY <1>1, <3>1 DEF TypeOK
    <3>4. QED
      BY <3>1, <3>2, <3>3 DEF Dest
  <2>2. Sets(g, c) /\ On(f) /\ c # None
    BY <1>7, <2>1 DEF Effect, On
  <2>3. /\ \A u \in Place : u # t => Still(u)
        /\ EntryAt(t)' = i /\ ContentAt(t)' = c
    <3>1. /\ \A u \in Place : u # g[1] => Still(u)
          /\ EntryAt(g[1])' = g[2] /\ ContentAt(g[1])' = c
      BY <2>2, CalmGives, SetsShow
    <3>2. g[1] = t /\ g[2] = i
      BY <2>1
    <3>3. QED
      BY <3>1, <3>2
  <2>4. EntryAt(s) = i /\ ContentAt(s) = c /\ i # None
    BY <1>1, <2>1, <2>2, IdIsSome DEF EntryIs
  <2>5. EntryAt(t) = None
    BY <1>1, <1>2, <2>1, OnTarget DEF Calm, NoEntryIs
  <2>6. pc'[r] = "linked"
    <3>1. On(Target(r)) /\ ~On(Dest(r))
      BY <1>7
    <3>2. QED
      BY <1>1, <3>1 DEF Link, GoTo, TypeOK
  <2>7. Progress(r)' = "copied"
    BY <2>6, ProgressTables DEF ProgressIs
  <2>8. Promise!To(r, "copied")
    BY <1>3, <1>4, <2>7, MovesTo DEF Moves
  <2>9. Promise!Asked(r, "rename")
    BY <1>2, <1>5 DEF Promise!Asked, Kind
  <2>10. Promise!Show(t, i, c)
    BY <2>3, SlugShows
  <2>11. Promise!Copy(r)
    BY <2>1, <2>4, <2>5, <2>8, <2>9, <2>10 DEF Promise!Copy
  <2>12. QED
    BY <2>11 DEF Promise!Next
<1>8. QED
  BY <1>1, <1>6, <1>7, LinkEffect DEF Calm

(* A file that is taken away leaves its slug empty. *)
LEMMA SlugEmpties ==
  ASSUME Calm, NEW f \in File, Sets(f, None), On(f)
  PROVE  /\ Promise!Show(f[1], None, None)
         /\ EntryAt(f[1]) = f[2] /\ EntryAt(f[1]) # None /\ ContentAt(f[1]) = file[f]
<1>1. f[1] \in Place /\ f[2] \in Id /\ f = <<f[1], f[2]>>
  BY DEF File
<1>2. /\ \A u \in Place : u # f[1] => Still(u)
      /\ EntryAt(f[1])' = None /\ ContentAt(f[1])' = None
  BY CalmGives, SetsShow
<1>3. Promise!Show(f[1], None, None)
  BY <1>1, <1>2, SlugShows
<1>4. EntryAt(f[1]) = f[2] /\ ContentAt(f[1]) = file[f]
  BY <1>1, CalmGives DEF EntryIs
<1>5. QED
  BY <1>1, <1>3, <1>4, IdIsSome

LEMMA UnlinkMaps ==
  ASSUME Calm, NEW r \in Request, Unlink(r) \/ Delete(r)
  PROVE  Promise!Next
<1>1. TypeOK /\ StoreInv /\ EntryIs /\ NoEntryIs /\ RequestStep(r)
  BY CalmGives DEF RequestStep, RenameStep
<1>2. /\ \/ Unlink(r) /\ pc[r] = "linked" /\ Kind(r) = "rename"
         \/ Delete(r) /\ pc[r] = "resolved" /\ Kind(r) = "delete"
      /\ pc[r] \in Steady
  BY <1>1 DEF Unlink, Delete, Steady, StoreInv, Base, ControlInv
<1>3. Effect(r, Target(r), None) /\ On(Target(r))
  BY <1>1, UnlinkEffect DEF Calm
<1>4. PICK f \in File : f = Target(r) /\ f[1] = op[r].at
  BY <1>1, <1>2, SteadyType DEF StoreInv
<1>5. Sets(f, None) /\ On(f)
  BY <1>3, <1>4 DEF Effect
<1>6. /\ Promise!Show(f[1], None, None)
      /\ EntryAt(f[1]) = f[2] /\ EntryAt(f[1]) # None /\ ContentAt(f[1]) = file[f]
  BY <1>5, SlugEmpties
<1>7. pc'[r] = "leaving" /\ op' = op /\ crossed' = crossed
  BY <1>1, <1>2, <1>3 DEF Unlink, Delete, GoTo, TypeOK, boundVars
<1>8. Progress(r)' = "done"
  BY <1>7, ProgressTables DEF ProgressIs
<1>9. Promise!To(r, "done")
  BY <1>1, <1>7, <1>8, OthersProgress, MovesTo DEF Moves
<1>10. f[1] \in Place
  BY DEF File
<1>11. CASE Delete(r) /\ pc[r] = "resolved" /\ Kind(r) = "delete"
  <2>1. Progress(r) = "asked"
    BY <1>11, ProgressTables DEF ProgressIs
  <2>2. Promise!Asked(r, "delete")
    BY <1>11, <2>1 DEF Promise!Asked, Kind
  <2>3. Promise!Delete(r)
    BY <1>4, <1>6, <1>9, <1>10, <2>2 DEF Promise!Delete
  <2>4. QED
    BY <2>3 DEF Promise!Next
<1>12. CASE Unlink(r) /\ pc[r] = "linked" /\ Kind(r) = "rename"
  <2>1. Progress(r) = "copied"
    BY <1>12, ProgressTables DEF ProgressIs
  <2>2. PICK g \in File : g = Dest(r) /\ g = <<op[r].to, f[2]>> /\ file[g] = file[f]
    BY <1>1, <1>2, <1>4, <1>12, SteadyType, OnTarget DEF Calm, StoreInv, Dest
  <2>3. op[r].to \in Place /\ f[2] \in Id /\ On(<<op[r].to, f[2]>>)
    BY <1>5, <2>2 DEF File, On
  <2>4. EntryAt(op[r].to) = f[2] /\ ContentAt(op[r].to) = file[f]
    BY <1>1, <2>2, <2>3 DEF EntryIs
  <2>5. Promise!Drop(r)
    BY <1>4, <1>6, <1>9, <1>10, <2>1, <2>3, <2>4 DEF Promise!Drop
  <2>6. QED
    BY <2>5 DEF Promise!Next
<1>13. QED
  BY <1>2, <1>11, <1>12

LEMMA ArchiveMaps ==
  ASSUME Calm, NEW r \in Request, Archive(r)
  PROVE  Promise!Next
<1>1. TypeOK /\ StoreInv /\ EntryIs /\ RequestStep(r)
  BY CalmGives DEF RequestStep, RepairStep
<1>2. pc[r] = "scanned" /\ Kind(r) = "repair" /\ found[r] \in SUBSET File
  BY <1>1 DEF Archive, StoreInv, Base, ControlInv, TypeOK
<1>3. PICK f \in found[r] :
        /\ file' = [file EXCEPT ![f] = None]
        /\ GoTo(r, CASE ~On(f) -> "failing"
                     [] On(f) /\ found[r] = {f} -> "leaving"
                     [] On(f) /\ found[r] # {f} -> "scanned")
  BY DEF Archive
<1>4. PICK s \in Place : On(f) /\ On(<<s, f[2]>>) /\ <<s, f[2]>> \notin found[r]
  BY <1>2, <1>3, CalmGives DEF Calm, RepairInv, RepairStays
<1>5. f \in File /\ f[1] \in Place /\ f[2] \in Id /\ f = <<f[1], f[2]>> /\ s # f[1]
  BY <1>2, <1>4 DEF File
<1>6. Sets(f, None)
  BY <1>3, <1>5 DEF Sets
<1>7. /\ Promise!Show(f[1], None, None)
      /\ EntryAt(f[1]) = f[2] /\ EntryAt(f[1]) # None
  BY <1>4, <1>5, <1>6, SlugEmpties
<1>8. EntryAt(s) = f[2]
  BY <1>1, <1>4, <1>5 DEF EntryIs
<1>9. pc'[r] \in {"leaving", "scanned"} /\ op' = op /\ crossed' = crossed
  BY <1>1, <1>3, <1>4 DEF Archive, GoTo, TypeOK, boundVars
<1>10. Progress(r) = "asked" /\ Progress(r)' \in {"done", "asked"}
  BY <1>2, <1>9, ProgressTables DEF ProgressIs
<1>11. Promise!To(r, "done") \/ Promise!To(r, "asked")
  BY <1>1, <1>9, <1>10, OthersProgress, MovesTo DEF Moves
<1>12. Promise!Asked(r, "repair")
  BY <1>2, <1>10 DEF Promise!Asked, Kind
<1>13. Promise!Archive(r)
  BY <1>5, <1>7, <1>8, <1>11, <1>12 DEF Promise!Archive
<1>14. QED
  BY <1>13 DEF Promise!Next

LEMMA LeaveMaps ==
  ASSUME Calm, NEW r \in Request, Leave(r)
  PROVE  Promise!Next
<1>1. TypeOK /\ RequestStep(r) /\ file' = file /\ Forget({r}) /\ crossed' = crossed
  BY CalmGives DEF RequestStep, Leave, boundVars
<1>2. pc[r] \in {"leaving", "failing"} /\ pc'[r] \in {Outcome(r), "over"}
  BY <1>1 DEF Leave, GoTo, TypeOK
<1>3. CASE pc'[r] = "over"
  BY <1>1, <1>2, <1>3, AloneEnds DEF Answered
<1>4. CASE pc'[r] # "over"
  <2>1. pc[r] = "leaving" /\ Kind(r) = "write" /\ pc'[r] = "saved"
    BY <1>2, <1>4 DEF Outcome
  <2>2. Progress(r) = "done" /\ Progress(r)' = "saved"
    BY <2>1, ProgressTables DEF ProgressIs, Answered
  <2>3. \A q \in Request \ {r} : Progress(q)' = Progress(q)
    BY <1>1, OthersProgress
  <2>4. op' = [op EXCEPT ![r] = None]
    BY <1>1 DEF Forget, OnExit, TypeOK
  <2>5. Promise!Answer(r)
    BY <1>1, <2>1, <2>2, <2>3, <2>4, FilesStay DEF Still, Kind, Promise!Answer
  <2>6. QED
    BY <2>5 DEF Promise!Next
<1>5. QED
  BY <1>3, <1>4

LEMMA DieMaps ==
  ASSUME Calm, NEW p \in Process, Die(p)
  PROVE  Promise!Next
<1> DEFINE Served == {r \in Request : home[r] = p /\ pc[r] \notin {"idle"} \union Answered}
<1>1. PICK S \in SUBSET Request :
        /\ S = Served /\ Forget(S) /\ pc' = OnExit(S, pc, "over")
  BY DEF Die
<1>2. file' = file /\ crossed' = crossed /\ TypeOK
  BY CalmGives DEF Die
<1>3. \A r \in S : /\ Progress(r) \in {"asked", "copied", "done", "failed"}
                   /\ Progress(r)' = "over"
  BY <1>1, <1>2, ProgressTables DEF ProgressIs, TypeOK, Before, InLock, Keyed, Answered,
     OnExit
<1>4. \A r \in Request \ S : Progress(r)' = Progress(r)
  BY <1>1 DEF OnExit, Progress
<1>5. QED
  BY <1>1, <1>2, <1>3, <1>4, FilesStay, Ends DEF Forget

LEMMA EntriesStep ==
  ASSUME EntriesInv, EntriesInv', [Next]_vars
  PROVE  [Promise!Next]_(Promise!vars)
<1> USE DEF indexVars, lockVars, boundVars
<1>1. crossed \in BOOLEAN /\ crossed' \in BOOLEAN
  BY DEF EntriesInv, StoreInv, Base, TypeOK
<1>2. CASE crossed'
  BY <1>2 DEF Promise!Next, Promise!GiveUp
<1>3. CASE ~crossed'
  <2>1. Calm
    BY <1>3, CrossedStays DEF Calm
  <2>2. ASSUME NEW r \in Request, RequestStep(r)
        PROVE  Promise!Next \/ UNCHANGED Promise!vars
    BY <2>1, <2>2, ApproachMaps, QuietMaps, PutMaps, LinkMaps, UnlinkMaps, ArchiveMaps,
       LeaveMaps DEF RequestStep, WriteStep, RenameStep, RepairStep, Promise!Next
  <2>3. ASSUME NEW p \in Process, Die(p)
        PROVE  Promise!Next
    BY <2>1, <2>3, DieMaps
  <2>4. CASE UNCHANGED vars
    <3>1. file' = file /\ pc' = pc /\ op' = op /\ crossed' = crossed
      BY <2>4 DEF vars
    <3>2. \A r \in Request : Progress(r)' = Progress(r)
      BY <3>1 DEF Progress
    <3>3. QED
      BY <2>1, <3>1, <3>2, FilesStay, Stutters
  <2>5. QED
    BY <2>2, <2>3, <2>4 DEF Next, RequestStep, Finished
<1>4. QED
  BY <1>2, <1>3

(* Every slug shows one entry or none, and every request is one step on the  *)
(* entries, whatever the files are called and however many containers share  *)
(* them: a save replaces the version it read, on its own slug, or has no     *)
(* effect; a delete or a rename is whole or shows the entry at both slugs; a *)
(* repair archives no entry's last file.  It is so until two requests that   *)
(* nothing but the marker keeps apart were inside it at once.                *)
THEOREM StoreImplementsEntries == Spec => ImplementsEntryStore
<1>1. Init => Promise!Init
  <2>1. SUFFICES ASSUME Init PROVE Promise!Init
    OBVIOUS
  <2>2. TypeOK /\ SlugsUnique
    BY <2>1, InitInv DEF StoreInv, Base, SlugInv, Init
  <2>3. EntryIs /\ NoEntryIs
    BY <2>2, EntryIsFile, NoEntryIsNone
  <2>4. \A s \in Place, i \in Id :
          On(<<s, i>>) => i \in Original /\ file[<<s, i>>] = i
    BY <2>1 DEF Init, On, File
  <2>5. \A s \in Place : /\ EntryAt(s) \in Original \union {None}
                         /\ ContentAt(s) = EntryAt(s)
    BY <2>3, <2>4, FileAt DEF EntryIs, NoEntryIs
  <2>6. \A s, t \in Place : EntryAt(s) = EntryAt(t) /\ EntryAt(s) # None => s = t
    <3>1. SUFFICES ASSUME NEW s \in Place, NEW t \in Place,
                          EntryAt(s) = EntryAt(t), EntryAt(s) # None
                   PROVE  s = t
      OBVIOUS
    <3>2. PICK i \in Id : On(<<s, i>>) /\ On(<<t, i>>)
      BY <2>3, <3>1, FileAt DEF EntryIs, NoEntryIs
    <3>3. QED
      BY <2>1, <3>2 DEF Init, On, File
  <2>7. \A r \in Request : Progress(r) = "new"
    BY <2>1, ProgressTable DEF ProgressIs, Init
  <2>8. QED
    BY <2>1, <2>5, <2>6, <2>7 DEF Init, Promise!Init
<1>2. EntriesInv /\ EntriesInv' /\ [Next]_vars => [Promise!Next]_(Promise!vars)
  BY EntriesStep
<1>3. QED
  BY <1>1, <1>2, EntriesInvariant, PTL DEF Spec, ImplementsEntryStore, Promise!Spec
=============================================================================
