---------------------------- MODULE ContentStore ----------------------------
(* The entry files of one branch clone and the requests that save, create,   *)
(* rename, delete and repair them from several containers: content-store.ts, *)
(* content-id-index.ts, url-collision.ts and the admin's                     *)
(* repair-content-duplicates.                                                *)
(*                                                                           *)
(* A file's name is its place (collection and slug) and the entry's id.  A   *)
(* request is its own new entry's id and what its save writes; an entry that *)
(* is there at first is its id and its first content.  A link keeps a file's *)
(* mtime and every write gives a new one, so a version token is the content  *)
(* it was read with.  Every request has a store of its own, so its ID index  *)
(* is as old as its warm-up.  A directory listing shows what is there: the   *)
(* attribute cache's age is only in the marker of the lock.  The worker's    *)
(* rebase is ContentSync's.                                                  *)
EXTENDS Naturals, FiniteSets

CONSTANTS
  Request,       \* requests of the API
  Process,       \* containers
  Original,      \* entries that are there at first
  Place,         \* collection and slug
  Folder,        \* the collections' directories
  Collection,    \* of each place, a folder
  Slug,          \* of each place
  Index,         \* the slug of a collection's landing page
  Parent,        \* of each folder, None of the content root
  Name,          \* of each folder, without its id
  Path,          \* of each folder in a URL
  Rank,          \* the order of the places' paths as strings
  None,
  MaxTries,      \* rounds of the reclassification loop (10)
  MaxTroubles    \* containers that are killed, unlinks that fail, and live
                 \* holders whose marker looks stale

Id == Original \union Request
File == Place \X Id
Key == Id \union Place

ASSUME NameAssumption ==
  /\ Original \intersect Request = {} /\ Id \intersect Place = {}
  /\ None \notin Key \union Process

ASSUME RankAssumption ==
  /\ Rank \in [Place -> Nat]
  /\ \A s, t \in Place : Rank[s] = Rank[t] => s = t

(* A folder's path is its name under its parent's.  Two folders of one        *)
(* parent may have one name.                                                 *)
ASSUME PathAssumption ==
  /\ Collection \in [Place -> Folder]
  /\ \A s, t \in Place :
       Collection[s] = Collection[t] /\ Slug[s] = Slug[t] => s = t
  /\ None \notin Folder /\ Parent \in [Folder -> Folder \union {None}]
  /\ \A c \in Folder :
       /\ Parent[c] # None => Path[c] = <<Path[Parent[c]], Name[c]>>
       /\ Parent[c] = None =>
            \A d \in Folder, s \in Place : Path[c] # <<Path[d], Slug[s]>>

ASSUME BoundAssumption ==
  MaxTries \in Nat \ {0} /\ MaxTroubles \in Nat

Kinds == {"write", "rename", "delete", "repair"}
Operation ==
  [kind : Kinds, at : Place, to : Place, token : Id \union {None}]

VARIABLES
  file,          \* what each file holds
  home,          \* the container that serves each request
  op,            \* what each request asks for
  pc,            \* where it is; "saved" is a save's 200, "over" any other end
  indexed,       \* its ID index
  quarantined,   \* the ids its index found on more than one file
  key,           \* its entry's lock key
  found,         \* the files it resolved
  tries,
  holder,        \* whose content-write marker is on disk
  stale,         \* its owner is dead
  retired,       \* contents that a save replaced after it read them, or that
                 \* a delete or a repair took away
  crossed,       \* two that nothing but the marker keeps apart were inside
                 \* it at once
  mishaps, takeovers

lockVars == <<holder, stale>>
indexVars == <<indexed, quarantined>>
boundVars == <<crossed, mishaps, takeovers>>
vars == <<file, home, op, pc, indexVars, key, found, tries, lockVars, retired,
          boundVars>>

Keyed == {"keyed", "resolved", "judged", "linked", "put"}
InLock == {"inside", "scanned", "leaving", "failing"} \union Keyed
Before == {"idle", "opened", "warm", "waiting"}
Answered == {"saved", "over"}

On(f) == file[f] # None
At(s) == {i \in Id : On(<<s, i>>)}
PlacesOf(i) == {s \in Place : On(<<s, i>>)}
Kind(r) == op[r].kind
MoreTrouble == mishaps + takeovers < MaxTroubles
GoTo(r, to) == pc' = [pc EXCEPT ![r] = to]

Blank == [i \in Id |-> None]
OnExit(S, old, new) == [r \in Request |-> IF r \in S THEN new ELSE old[r]]

(* What a request that is over had in its container's memory is gone. *)
Forget(S) ==
  /\ home' = OnExit(S, home, None)
  /\ op' = OnExit(S, op, None)
  /\ indexed' = OnExit(S, indexed, Blank)
  /\ quarantined' = OnExit(S, quarantined, {})
  /\ key' = OnExit(S, key, None)
  /\ found' = OnExit(S, found, {})
  /\ tries' = OnExit(S, tries, 0)

(* computeEntryUrl: a landing page has its collection's own path. *)
Url(s) ==
  IF Slug[s] = Index THEN Path[Collection[s]]
                     ELSE <<Path[Collection[s]], Slug[s]>>

(* Two collections of one name side by side share their path, and what is    *)
(* below them too: there the store lets one URL have several entries.        *)
Lone(c) == \A d \in Folder : Path[d] = Path[c] => d = c
Rival(s, t) ==
  Url(s) = Url(t) /\ Lone(Collection[s]) /\ Lone(Collection[t])

(* Two entries at one place are one slug's two files; at two places of one   *)
(* URL they are an entry and the index entry of the collection of its name.  *)
SlugsUnique ==
  \A f, g \in File : On(f) /\ On(g) /\ f[1] = g[1] => f = g
UrlsUnique ==
  \A f, g \in File : On(f) /\ On(g) /\ Rival(f[1], g[1]) => f = g

Init ==
  /\ \E where \in [Original -> Place] :
       file = [f \in File |->
                 IF f[2] \in Original /\ where[f[2]] = f[1] THEN f[2] ELSE None]
  /\ SlugsUnique /\ UrlsUnique
  /\ home = [r \in Request |-> None]
  /\ op = [r \in Request |-> None]
  /\ pc = [r \in Request |-> "idle"]
  /\ indexed = [r \in Request |-> Blank]
  /\ quarantined = [r \in Request |-> {}]
  /\ key = [r \in Request |-> None]
  /\ found = [r \in Request |-> {}]
  /\ tries = [r \in Request |-> 0]
  /\ holder = None /\ stale = FALSE
  /\ retired = {}
  /\ crossed = FALSE /\ mishaps = 0 /\ takeovers = 0

-----------------------------------------------------------------------------
(* Before the lock.                                                          *)

(* What the editor asks for: a save with the token of the version it read, a *)
(* create with none, a rename within the collection, a delete, a repair.     *)
Ask(r) ==
  /\ pc[r] = "idle"
  /\ \E p \in Process : home' = [home EXCEPT ![r] = p]
  /\ \E o \in Operation :
       /\ CASE o.kind = "write" ->
                 o.token \in {None} \union {file[<<o.at, i>>] : i \in At(o.at)}
            [] o.kind # "write" -> o.token = None
       /\ o.kind = "rename" =>
            o.at # o.to /\ Collection[o.at] = Collection[o.to]
       /\ o.kind # "rename" => o.to = o.at
       /\ op' = [op EXCEPT ![r] = o]
       /\ GoTo(r, CASE o.kind = "write" -> "opened"
                   [] o.kind \in {"rename", "delete"} -> "warm"
                   [] o.kind = "repair" -> "waiting")
  /\ UNCHANGED <<file, indexVars, key, found, tries, lockVars, retired>>
  /\ UNCHANGED boundVars

(* buildFromFilenames: of an id on several files the smallest path is kept.  *)
Smallest(S) == CHOOSE s \in S : \A t \in S : Rank[s] <= Rank[t]
Kept(i) == IF PlacesOf(i) = {} THEN None ELSE Smallest(PlacesOf(i))
Duplicated == {i \in Id : \E s \in PlacesOf(i) : s # Kept(i)}

(* idIndex() before any lock; only a save looks anything up in it. *)
Warm(r) ==
  /\ pc[r] = "opened"
  /\ indexed' = [indexed EXCEPT ![r] = [i \in Id |-> Kept(i)]]
  /\ quarantined' = [quarantined EXCEPT ![r] = Duplicated]
  /\ GoTo(r, "warm")
  /\ UNCHANGED <<file, home, op, key, found, tries, lockVars, retired, boundVars>>

(* buildPaths: the slug's file, whichever the listing shows first, or the    *)
(* name of a new one.                                                        *)
Resolutions(r) ==
  LET s == op[r].at
  IN  IF At(s) = {} THEN {<<s, r>>} ELSE {<<s, i>> : i \in At(s)}

(* A fault of EntryKey that TypeOK excludes: the lock is on the file's name,  *)
(* which a rename changes.                                                   *)
EntryKeyOfName(f) == f

(* entryLockKey: an existing entry's id, or the place of a new one. *)
EntryKey(f) == IF On(f) THEN f[2] ELSE f[1]

(* The pre-pass picks the lock key.  A rename or a delete of a slug that is  *)
(* not there ends here.                                                      *)
PrePass(r) ==
  /\ pc[r] = "warm"
  /\ \E f \in Resolutions(r) :
       \/ /\ On(f) \/ Kind(r) = "write"
          /\ key' = [key EXCEPT ![r] = EntryKey(f)] /\ GoTo(r, "waiting")
          /\ UNCHANGED <<home, op, indexVars, found, tries>>
       \/ /\ ~On(f) /\ Kind(r) # "write"
          /\ Forget({r}) /\ GoTo(r, "over")
  /\ UNCHANGED <<file, lockVars, retired, boundVars>>

-----------------------------------------------------------------------------
(* The two locks: the branch's content-write marker, and inside it the       *)
(* entry keys of the container's withLock.                                   *)

(* A container's entry keys keep its requests apart, a repair's excepted. *)
OnlyMarker(q, r) == home[q] # home[r] \/ "repair" \in {Kind(q), Kind(r)}

(* A marker is taken when there is none, when its owner is dead, or when a   *)
(* live owner's looks stale.                                                 *)
Enter(r) ==
  /\ pc[r] = "waiting"
  /\ \/ (holder = None \/ stale) /\ UNCHANGED takeovers
     \/ /\ holder # None /\ ~stale
        /\ MoreTrouble /\ takeovers' = takeovers + 1
  /\ holder' = r /\ stale' = FALSE
  /\ crossed' = (crossed \/ \E q \in Request :
                              pc[q] \in InLock /\ OnlyMarker(q, r))
  /\ GoTo(r, "inside")
  /\ UNCHANGED <<file, home, op, indexVars, key, found, tries, retired, mishaps>>

(* The bounded wait runs out. *)
GiveUp(r) ==
  /\ pc[r] = "waiting" /\ holder # None /\ ~stale
  /\ Forget({r}) /\ GoTo(r, "over")
  /\ UNCHANGED <<file, lockVars, retired, boundVars>>

(* The keys a request waits for, which it then has: a rename's destination   *)
(* too.  withLocks takes them one by one; one alone lets nothing happen.     *)
Keys(r) == {key[r]} \union (IF Kind(r) = "rename" THEN {op[r].to} ELSE {})
Held(r) == IF pc[r] \in Keyed THEN Keys(r) ELSE {}

TakeKeys(r) ==
  /\ pc[r] = "inside" /\ Kind(r) # "repair"
  /\ \A q \in Request \ {r} :
       home[q] = home[r] => Held(q) \intersect Keys(r) = {}
  /\ GoTo(r, "keyed")
  /\ UNCHANGED <<file, home, op, indexVars, key, found, tries, lockVars>>
  /\ UNCHANGED <<retired, boundVars>>

(* The second resolution is the ground truth.  A key that it does not give   *)
(* again was the wrong one: it is let go and the right one taken.            *)
Resolve(r) ==
  /\ pc[r] = "keyed"
  /\ \E f \in Resolutions(r) :
       \/ /\ EntryKey(f) = key[r] /\ (On(f) \/ Kind(r) = "write")
          /\ found' = [found EXCEPT ![r] = {f}] /\ GoTo(r, "resolved")
          /\ UNCHANGED <<key, tries>>
       \/ /\ EntryKey(f) # key[r] /\ (On(f) \/ Kind(r) # "rename")
          /\ tries' = [tries EXCEPT ![r] = @ + 1]
          /\ key' = [key EXCEPT ![r] = EntryKey(f)]
          /\ GoTo(r, IF tries'[r] < MaxTries THEN "inside" ELSE "failing")
          /\ UNCHANGED found
       \/ /\ ~On(f)
          /\ Kind(r) = "rename" \/ (Kind(r) = "delete" /\ EntryKey(f) = key[r])
          /\ GoTo(r, "failing")
          /\ UNCHANGED <<key, tries, found>>
  /\ UNCHANGED <<file, home, op, indexVars, lockVars, retired, boundVars>>

-----------------------------------------------------------------------------
(* Inside both locks.                                                        *)

Target(r) == CHOOSE f \in found[r] : TRUE
Dest(r) == <<op[r].to, Target(r)[2]>>
Indexed(r) == <<indexed[r][Target(r)[2]], Target(r)[2]>>

(* The index has the id elsewhere: the save reads this as a change of slug.  *)
Relocates(r) == Indexed(r)[1] \notin {None, Target(r)[1]}

Taken(c, slug) ==
  \E t \in Place : Collection[t] = c /\ Slug[t] = slug /\ At(t) # {}

(* findUrlPathClaimant: a landing page looks for an entry of its collection's *)
(* name in the parent; any other entry looks into one child collection of    *)
(* its name for a landing page.                                              *)
Contested(s) ==
  LET c == Collection[s]
      children == {d \in Folder : Parent[d] = c /\ Name[d] = Slug[s]}
  IN  \/ /\ Slug[s] = Index /\ Parent[c] # None /\ Name[c] # Index
         /\ Taken(Parent[c], Name[c])
      \/ /\ Slug[s] # Index /\ children # {}
         /\ Taken(CHOOSE d \in children : TRUE, Index)

(* The duplicate-id guard [F1]: the index has quarantined the id, or both    *)
(* files are on disk now.                                                    *)
Ambiguous(r) ==
  /\ Relocates(r)
  /\ \/ Target(r)[2] \in quarantined[r]
     \/ On(Target(r)) /\ On(Indexed(r))

(* A fault of MayWrite that ImplementsEntryStore excludes: a save of an entry *)
(* that is there does not compare the version.                               *)
MayWriteBlind(r) ==
  /\ ~Ambiguous(r)
  /\ On(Target(r)) \/ (op[r].token = None /\ ~Contested(op[r].at))

(* The version a save expects is the file's, none for a create, whose URL is *)
(* looked up.                                                                *)
MayWrite(r) ==
  /\ ~Ambiguous(r)
  /\ file[Target(r)] = op[r].token
  /\ On(Target(r)) \/ ~Contested(op[r].at)

(* A fault of MayRename that OneFilePerUrl excludes: only the destination's  *)
(* own collection is looked through.                                         *)
MayRenameUncontested(r) == At(op[r].to) = {}

(* The destination's slug is free, and its URL as far as that is looked up.  *)
MayRename(r) == At(op[r].to) = {} /\ ~Contested(op[r].to)

Judge(r) ==
  /\ pc[r] = "resolved" /\ Kind(r) \in {"write", "rename"}
  /\ LET may == IF Kind(r) = "write" THEN MayWrite(r) ELSE MayRename(r)
     IN  GoTo(r, IF may THEN "judged" ELSE "failing")
  /\ UNCHANGED <<file, home, op, indexVars, key, found, tries, lockVars>>
  /\ UNCHANGED <<retired, boundVars>>

(* atomicWriteFile: a rename over whatever stands at the name. *)
Put(r) ==
  /\ pc[r] = "judged" /\ Kind(r) = "write"
  /\ file' = [file EXCEPT ![Target(r)] = r]
  /\ retired' = retired \union ({op[r].token} \ {None})
  /\ GoTo(r, "put")
  /\ UNCHANGED <<home, op, indexVars, key, found, tries, lockVars, boundVars>>

(* The index is brought up to date, and the file that it had for the id is   *)
(* unlinked.                                                                 *)
Tidy(r) ==
  /\ pc[r] = "put"
  /\ file' = IF Relocates(r) THEN [file EXCEPT ![Indexed(r)] = None] ELSE file
  /\ GoTo(r, "leaving")
  /\ UNCHANGED <<home, op, indexVars, key, found, tries, lockVars, retired>>
  /\ UNCHANGED boundVars

(* A rename is a link and an unlink.  The link fails when the source is gone *)
(* or the destination is there.                                              *)
Link(r) ==
  /\ pc[r] = "judged" /\ Kind(r) = "rename"
  /\ IF On(Target(r)) /\ ~On(Dest(r))
       THEN /\ file' = [file EXCEPT ![Dest(r)] = file[Target(r)]]
            /\ GoTo(r, "linked")
       ELSE GoTo(r, "failing") /\ UNCHANGED file
  /\ UNCHANGED <<home, op, indexVars, key, found, tries, lockVars, retired>>
  /\ UNCHANGED boundVars

Unlink(r) ==
  /\ pc[r] = "linked"
  /\ file' = [file EXCEPT ![Target(r)] = None]
  /\ GoTo(r, IF On(Target(r)) THEN "leaving" ELSE "failing")
  /\ UNCHANGED <<home, op, indexVars, key, found, tries, lockVars, retired>>
  /\ UNCHANGED boundVars

(* A transient error: both names stay. *)
UnlinkFails(r) ==
  /\ pc[r] = "linked"
  /\ MoreTrouble /\ mishaps' = mishaps + 1
  /\ GoTo(r, "failing")
  /\ UNCHANGED <<file, home, op, indexVars, key, found, tries, lockVars>>
  /\ UNCHANGED <<retired, crossed, takeovers>>

Delete(r) ==
  /\ pc[r] = "resolved" /\ Kind(r) = "delete"
  /\ file' = [file EXCEPT ![Target(r)] = None]
  /\ retired' = retired \union ({file[Target(r)]} \ {None})
  /\ GoTo(r, IF On(Target(r)) THEN "leaving" ELSE "failing")
  /\ UNCHANGED <<home, op, indexVars, key, found, tries, lockVars, boundVars>>

-----------------------------------------------------------------------------
(* The admin's repair: a scan of its own inside the lock, and every dropped  *)
(* file renamed to a name that no scan takes up.                             *)

Scan(r) ==
  /\ pc[r] = "inside" /\ Kind(r) = "repair"
  /\ LET dropped == {f \in File : On(f) /\ f[1] # Kept(f[2])}
     IN  /\ found' = [found EXCEPT ![r] = dropped]
         /\ GoTo(r, IF dropped = {} THEN "failing" ELSE "scanned")
  /\ UNCHANGED <<file, home, op, indexVars, key, tries, lockVars, retired>>
  /\ UNCHANGED boundVars

Archive(r) ==
  /\ pc[r] = "scanned"
  /\ \E f \in found[r] :
       /\ file' = [file EXCEPT ![f] = None]
       /\ retired' = retired \union ({file[f]} \ {None})
       /\ found' = [found EXCEPT ![r] = @ \ {f}]
       /\ GoTo(r, CASE ~On(f) -> "failing"
                   [] On(f) /\ found[r] = {f} -> "leaving"
                   [] On(f) /\ found[r] # {f} -> "scanned")
  /\ UNCHANGED <<home, op, indexVars, key, tries, lockVars, boundVars>>

-----------------------------------------------------------------------------
(* The way out.                                                              *)

(* A fault of Outcome that SavesStand excludes: an error inside the locks is  *)
(* lost on the way out of them.                                              *)
OutcomeOfAll(r) == IF Kind(r) = "write" THEN "saved" ELSE "over"

(* A save that was written is answered 200. *)
Outcome(r) ==
  IF pc[r] = "leaving" /\ Kind(r) = "write" THEN "saved" ELSE "over"

(* The release removes the marker, unless the request has noticed that it    *)
(* was taken over: its answer then leaves the outcome open.                  *)
Leave(r) ==
  /\ pc[r] \in {"leaving", "failing"}
  /\ \/ /\ holder' = None /\ stale' = FALSE
        /\ GoTo(r, Outcome(r))
     \/ /\ holder # r /\ UNCHANGED lockVars
        /\ GoTo(r, "over")
  /\ Forget({r})
  /\ UNCHANGED <<file, retired, boundVars>>

(* A container is killed, with whatever it serves.  Its marker stays. *)
Die(p) ==
  LET served == {r \in Request :
                   home[r] = p /\ pc[r] \notin {"idle"} \union Answered}
  IN  /\ served # {}
      /\ MoreTrouble /\ mishaps' = mishaps + 1
      /\ Forget(served) /\ pc' = OnExit(served, pc, "over")
      /\ stale' = (stale \/ holder \in served)
      /\ UNCHANGED <<file, holder, retired, crossed, takeovers>>

(* Every request has its answer. *)
Finished == (\A r \in Request : pc[r] \in Answered) /\ UNCHANGED vars

-----------------------------------------------------------------------------
(* The next-state relation and the specification.                            *)

Approach(r) == Ask(r) \/ Warm(r) \/ PrePass(r) \/ Enter(r) \/ GiveUp(r)
EntryStep(r) == TakeKeys(r) \/ Resolve(r) \/ Judge(r)
WriteStep(r) == Put(r) \/ Tidy(r)
RenameStep(r) == Link(r) \/ Unlink(r) \/ UnlinkFails(r)
RepairStep(r) == Scan(r) \/ Archive(r)

Next ==
  \/ \E r \in Request :
       \/ Approach(r) \/ EntryStep(r) \/ WriteStep(r) \/ RenameStep(r)
       \/ Delete(r) \/ RepairStep(r) \/ Leave(r)
  \/ \E p \in Process : Die(p)
  \/ Finished

Spec == Init /\ [][Next]_vars

-----------------------------------------------------------------------------
(* Properties.                                                               *)

TypeOK ==
  /\ file \in [File -> Id \union {None}]
  /\ home \in [Request -> Process \union {None}]
  /\ op \in [Request -> Operation \union {None}]
  /\ pc \in [Request -> Before \union InLock \union Answered]
  /\ indexed \in [Request -> [Id -> Place \union {None}]]
  /\ quarantined \in [Request -> SUBSET Id]
  /\ key \in [Request -> Key \union {None}]
  /\ found \in [Request -> SUBSET File]
  /\ tries \in [Request -> 0..MaxTries]
  /\ holder \in Request \union {None} /\ stale \in BOOLEAN
  /\ retired \subseteq Id
  /\ crossed \in BOOLEAN
  /\ mishaps \in 0..MaxTroubles /\ takeovers \in 0..MaxTroubles

(* The marker was never taken over from a live holder, or those that were    *)
(* inside at once have entry keys of one container to keep them apart.       *)
Exclusive == takeovers = 0 \/ ~crossed

(* A save that was answered 200 stands in some file until a save that read   *)
(* it replaces it, or a delete or a repair takes it away.                    *)
SavesStand ==
  Exclusive =>
    \A r \in Request :
      pc[r] = "saved" => r \in retired \/ \E f \in File : file[f] = r

(* No two files of one slug and, while no live holder's marker is taken      *)
(* over, no two files of one URL but in collections that share their path:   *)
(* those of one name side by side, which url-collision.ts leaves to the      *)
(* build's check.                                                            *)
OneFilePerUrl ==
  /\ Exclusive => SlugsUnique
  /\ takeovers = 0 => UrlsUnique

(* content-store.ts's rule [F1]: a save never removes or changes a file that *)
(* it did not address.                                                       *)
SavesStayOnTheirFile ==
  [][Exclusive =>
       \A r \in Request :
         op[r] # None /\ pc'[r] # pc[r] /\ Kind(r) = "write" =>
           \A f \in File : file'[f] # file[f] => f[1] = op[r].at /\ file'[f] = r]_vars

(* What a slug shows: the id of its file, and what that holds.               *)
Shows(s) == \E i \in Id : On(<<s, i>>)
EntryAt(s) == IF Shows(s) THEN CHOOSE i \in Id : On(<<s, i>>) ELSE None
ContentAt(s) == IF Shows(s) THEN file[<<s, EntryAt(s)>>] ELSE None

Progress(r) ==
  CASE pc[r] = "idle" -> "new"
    [] pc[r] = "linked" -> "copied"
    [] pc[r] \in {"put", "leaving"} -> "done"
    [] pc[r] = "failing" -> "failed"
    [] pc[r] \in Answered -> pc[r]
    [] OTHER -> "asked"

(* Every request is one step on the entries, as long as the exclusion holds: *)
(* a save replaces the version it read, on its own slug, or fails; a rename, *)
(* a delete or a repair loses no entry that it was not to take away.         *)
Promise == INSTANCE EntryStore WITH
  Slug <- Place, Absent <- None, ask <- op, exclusive <- ~crossed,
  entry <- [s \in Place |-> EntryAt(s)],
  content <- [s \in Place |-> ContentAt(s)],
  state <- [r \in Request |-> Progress(r)]

ImplementsEntryStore == Promise!Spec
=============================================================================
