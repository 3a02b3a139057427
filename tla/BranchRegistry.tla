--------------------------- MODULE BranchRegistry ---------------------------
(***************************************************************************)
(* The branch listing (branch-registry.ts): branches.json is a snapshot of *)
(* every branch.json, shared by all hosts and kept fresh by the generation *)
(* marker of resource-generation.ts.  Whoever changes a branch replaces    *)
(* the marker's random token afterwards; whoever rebuilds the snapshot     *)
(* reads the token before it scans and embeds it; a reader trusts the      *)
(* snapshot only when that token is still the marker's.                    *)
(*                                                                         *)
(* Data.  A branch.json is its revision: 0 before the branch exists, and   *)
(* odd exactly while its directory is there.  Tokens are naturals, 0 the   *)
(* absent marker; nothing but Bump compares or produces them otherwise     *)
(* than by equality.  A process has one BranchRegistry per site config,    *)
(* shared by its requests, and a new one for every save of a branch.json:  *)
(* Uses says which instance a caller's requests go through.  Reads are     *)
(* those of one coherent file system.  A branch.json that a scan cannot    *)
(* read is left out of its listing, and the listing is kept all the same.  *)
(***************************************************************************)
EXTENDS Naturals

CONSTANTS
  Branch,            \* branch directories
  Instance,          \* BranchRegistry objects, in any process
  Caller,            \* requests in flight
  Uses,              \* the instance each caller goes through
  NoSnapshot,        \* branches.json absent, unparseable or of another version
  Unread,            \* not read yet
  Skipped,           \* left out: its branch.json could not be read
  Unknown,           \* a marker read that failed otherwise than by ENOENT
  MaxChanges,        \* bound: changes of branch.json files
  MaxFailures        \* bound: crashes, failed reads and writes

ASSUME UsesAssumption == Uses \in [Caller -> Instance]
ASSUME ValueAssumption ==
  /\ Unread \notin Nat /\ Unknown \notin Nat /\ Unread # Unknown
  /\ Skipped \notin Nat \union {Unread}
  /\ NoSnapshot \notin [generation : Nat, branches : [Branch -> Nat \union {Skipped}]]
ASSUME BoundAssumption == MaxChanges \in Nat /\ MaxFailures \in Nat

VARIABLES
  disk,              \* the revision of each branch.json
  marker,            \* .canopy-meta/branch-registry.generation
  snapshot,          \* branches.json
  scan,              \* per instance: regenInFlight
  throttled,         \* per instance: a forced refresh is less than 5s ago
  request,           \* per caller: where it is
  covered,           \* history: disk when the marker last changed
  changes,           \* changes so far
  failures           \* failures so far

vars == <<disk, marker, snapshot, scan, throttled, request, covered, changes, failures>>

Revisions == [Branch -> Nat]
Listings == [Branch -> Nat \union {Skipped}]
Snapshots == [generation : Nat, branches : Listings]
Exists(revision) == revision # Skipped /\ revision % 2 = 1

(* A regeneration: its token and what it has read so far. *)
NothingSeen == [b \in Branch |-> Unread]
Scans ==
  [stage : {"none", "token"}, token : {Unread}, seen : {NothingSeen}] \union
  [stage : {"reading"}, token : Nat \union {Unknown},
   seen : [Branch -> Nat \union {Unread, Skipped}]]

NoScan == [stage |-> "none", token |-> Unread, seen |-> NothingSeen]

(* A request: list, get(branch), or a change of branch and its invalidate. *)
(* "got" is the listing in hand, "gen" its token or that of the own bump,  *)
(* "floor" what the listing must not be older than: nothing, when it comes *)
(* from a scan that another request had started.                           *)
Requests ==
  [op : {"list", "get", "change"},
   step : {"idle", "probe", "wait", "received", "answered", "bump", "drain", "drained"},
   branch : Branch, got : Listings, gen : Nat, floor : Revisions]

TypeOK ==
  /\ disk \in Revisions
  /\ marker \in Nat
  /\ snapshot \in Snapshots \union {NoSnapshot}
  /\ scan \in [Instance -> Scans]
  /\ throttled \subseteq Instance
  /\ request \in [Caller -> Requests]
  /\ covered \in Revisions
  /\ changes \in Nat
  /\ failures \in Nat

Nothing == [b \in Branch |-> 0]

Idle(b) ==
  [op |-> "list", step |-> "idle", branch |-> b, got |-> Nothing, gen |-> 0,
   floor |-> Nothing]

Init ==
  /\ disk = Nothing
  /\ marker = 0
  /\ snapshot = NoSnapshot
  /\ scan = [i \in Instance |-> NoScan]
  /\ throttled = {}
  /\ request \in [Caller -> {Idle(b) : b \in Branch}]
  /\ covered = Nothing
  /\ changes = 0
  /\ failures = 0

Fails ==
  /\ failures < MaxFailures
  /\ failures' = failures + 1

-----------------------------------------------------------------------------
(* regenerate(): join the scan in flight, or start one.  The request r of  *)
(* caller c waits for it; a listing that joins a scan is as old as that    *)
(* one, whereas a change has let the scan it found drain first.            *)

Regenerate(c, r) ==
  LET i == Uses[c]
      joins == scan[i].stage # "none" /\ r.op # "change" IN
  /\ request' = [request EXCEPT ![c] =
                   [r EXCEPT !.step = "wait", !.got = Nothing, !.gen = 0,
                             !.floor = IF joins THEN Nothing ELSE @]]
  /\ scan' = IF scan[i].stage = "none" THEN [scan EXCEPT ![i].stage = "token"] ELSE scan

(* list() and find(): the snapshot is read, then the marker. *)
Ask(c, op, b) ==
  LET r == [request[c] EXCEPT !.op = op, !.branch = b, !.floor = covered] IN
  /\ request[c].step = "idle"
  /\ op \in {"list", "get"}
  /\ \/ snapshot = NoSnapshot /\ Regenerate(c, r)
     \/ /\ snapshot # NoSnapshot
        /\ request' = [request EXCEPT ![c] =
                         [r EXCEPT !.step = "probe", !.got = snapshot.branches,
                                   !.gen = snapshot.generation]]
        /\ UNCHANGED scan
  /\ UNCHANGED <<disk, marker, snapshot, throttled, covered, changes, failures>>

Received(r, revisions) ==
  [r EXCEPT !.step = IF r.op = "get" THEN "received" ELSE "answered",
            !.got = revisions, !.gen = 0]

(* A fault ListingIsFresh excludes: the token is ignored. *)
ProbeAnything(c) ==
  /\ request[c].step = "probe"
  /\ request' = [request EXCEPT ![c] = Received(request[c], request[c].got)]
  /\ UNCHANGED <<disk, marker, snapshot, scan, throttled, covered, changes, failures>>

ProbeCurrent(c) ==
  /\ request[c].step = "probe"
  /\ request[c].gen = marker
  /\ request' = [request EXCEPT ![c] = Received(request[c], request[c].got)]
  /\ UNCHANGED <<disk, marker, snapshot, scan, throttled, covered, changes, failures>>

ProbeStale(c) ==
  /\ request[c].step = "probe"
  /\ \/ request[c].gen # marker /\ UNCHANGED failures
     \/ Fails
  /\ Regenerate(c, request[c])
  /\ UNCHANGED <<disk, marker, snapshot, throttled, covered, changes>>

(* A fault SnapshotHeals excludes: a missing branch is not looked for.     *)
FindInListing(c) ==
  /\ request[c].step = "received"
  /\ request' = [request EXCEPT ![c].step = "answered"]
  /\ UNCHANGED <<disk, marker, snapshot, scan, throttled, covered, changes, failures>>

(* find(): a branch missing from the listing is looked for once more, by a *)
(* forced regeneration, unless this instance forced one just now.          *)
Find(c) ==
  LET hit == Exists(request[c].got[request[c].branch]) IN
  /\ request[c].step = "received"
  /\ \/ /\ hit \/ Uses[c] \in throttled
        /\ request' = [request EXCEPT ![c].step = "answered"]
        /\ UNCHANGED <<scan, throttled>>
     \/ /\ ~hit /\ Uses[c] \notin throttled
        /\ throttled' = throttled \union {Uses[c]}
        /\ Regenerate(c, [request[c] EXCEPT !.op = "list", !.floor = covered])
  /\ UNCHANGED <<disk, marker, snapshot, covered, changes, failures>>

Return(c) ==
  /\ request[c].step = "answered"
  /\ request' = [request EXCEPT ![c] = Idle(request[c].branch)]
  /\ UNCHANGED <<disk, marker, snapshot, scan, throttled, covered, changes, failures>>

ThrottleElapses(i) ==
  /\ i \in throttled
  /\ throttled' = throttled \ {i}
  /\ UNCHANGED <<disk, marker, snapshot, scan, request, covered, changes, failures>>

-----------------------------------------------------------------------------
(* performRegenerate().                                                    *)

ReadToken(i) ==
  /\ scan[i].stage = "token"
  /\ \E token \in {marker, Unknown} :
       /\ IF token = Unknown THEN Fails ELSE UNCHANGED failures
       /\ scan' = [scan EXCEPT ![i] = [@ EXCEPT !.stage = "reading", !.token = token]]
  /\ UNCHANGED <<disk, marker, snapshot, throttled, request, covered, changes>>

(* A branch.json that is corrupt or unreadable is skipped.  *)
ReadBranch(i, b) ==
  /\ scan[i].stage = "reading"
  /\ scan[i].seen[b] = Unread
  /\ \E revision \in {disk[b], Skipped} :
       /\ IF revision = Skipped THEN Fails ELSE UNCHANGED failures
       /\ scan' = [scan EXCEPT ![i].seen[b] = revision]
  /\ UNCHANGED <<disk, marker, snapshot, throttled, request, covered, changes>>

(* Everyone waiting for instance i's scan resumes. *)
Resumed(c, revisions) ==
  CASE request[c].step = "drain" -> [request[c] EXCEPT !.step = "drained"]
    [] request[c].step = "wait" /\ request[c].op # "change" -> Received(request[c], revisions)
    [] request[c].step = "wait" /\ request[c].op = "change" -> Idle(request[c].branch)
    [] OTHER -> request[c]

(* Faults of Persist: what CurrentSnapshotIsFresh excludes (the token is   *)
(* read after the scan), and TypeOK (an unknown token is written).         *)
PersistLateToken(i) ==
  /\ scan[i].stage = "reading"
  /\ \A b \in Branch : scan[i].seen[b] # Unread
  /\ snapshot' = [generation |-> marker, branches |-> scan[i].seen]
  /\ request' = [c \in Caller |->
                   IF Uses[c] = i THEN Resumed(c, scan[i].seen) ELSE request[c]]
  /\ scan' = [scan EXCEPT ![i] = NoScan]
  /\ UNCHANGED <<disk, marker, throttled, covered, changes, failures>>

PersistUnknown(i) ==
  /\ scan[i].stage = "reading"
  /\ \A b \in Branch : scan[i].seen[b] # Unread
  /\ snapshot' = [generation |-> scan[i].token, branches |-> scan[i].seen]
  /\ request' = [c \in Caller |->
                   IF Uses[c] = i THEN Resumed(c, scan[i].seen) ELSE request[c]]
  /\ scan' = [scan EXCEPT ![i] = NoScan]
  /\ UNCHANGED <<disk, marker, throttled, covered, changes, failures>>

(* The snapshot is renamed into place, unless the token is unknown. *)
Persist(i) ==
  /\ scan[i].stage = "reading"
  /\ \A b \in Branch : scan[i].seen[b] # Unread
  /\ snapshot' = IF scan[i].token = Unknown THEN snapshot
                 ELSE [generation |-> scan[i].token, branches |-> scan[i].seen]
  /\ request' = [c \in Caller |->
                   IF Uses[c] = i THEN Resumed(c, scan[i].seen) ELSE request[c]]
  /\ scan' = [scan EXCEPT ![i] = NoScan]
  /\ UNCHANGED <<disk, marker, throttled, covered, changes, failures>>

(* The readdir, the write or the rename fails: listings reject, and an     *)
(* invalidate swallows it.                                                 *)
ScanFails(i) ==
  /\ scan[i].stage = "reading"
  /\ Fails
  /\ request' = [c \in Caller |->
                   IF Uses[c] = i /\ request[c].step = "drain"
                     THEN [request[c] EXCEPT !.step = "drained"]
                   ELSE IF Uses[c] = i /\ request[c].step = "wait"
                     THEN Idle(request[c].branch)
                   ELSE request[c]]
  /\ scan' = [scan EXCEPT ![i] = NoScan]
  /\ UNCHANGED <<disk, marker, snapshot, throttled, covered, changes>>

-----------------------------------------------------------------------------
(* A change of a branch.json, and invalidate() after it.                   *)

(* A create or a delete, or a save of an existing branch. *)
Change(c, b) ==
  /\ request[c].step = "idle"
  /\ changes < MaxChanges
  /\ changes' = changes + 1
  /\ \E step \in {1, 2} :
       /\ step = 2 => Exists(disk[b])
       /\ disk' = [disk EXCEPT ![b] = @ + step]
  /\ request' = [request EXCEPT ![c] =
                   [@ EXCEPT !.op = "change", !.step = "bump", !.branch = b, !.floor = disk']]
  /\ UNCHANGED <<marker, snapshot, scan, throttled, covered, failures>>

(* A fault EagerScanSeesChange excludes: the scan in flight will do. *)
BumpJoins(c) ==
  /\ request[c].step = "bump"
  /\ marker' = marker + 1
  /\ covered' = disk
  /\ Regenerate(c, request[c])
  /\ UNCHANGED <<disk, snapshot, throttled, changes, failures>>

(* A scan in flight read its token before the bump: let it drain first. *)
Bump(c) ==
  /\ request[c].step = "bump"
  /\ marker' = marker + 1
  /\ covered' = disk
  /\ \/ /\ scan[Uses[c]].stage # "none"
        /\ request' = [request EXCEPT ![c].step = "drain"]
        /\ UNCHANGED scan
     \/ /\ scan[Uses[c]].stage = "none"
        /\ Regenerate(c, request[c])
  /\ UNCHANGED <<disk, snapshot, throttled, changes, failures>>

EagerRegenerate(c) ==
  /\ request[c].step = "drained"
  /\ Regenerate(c, request[c])
  /\ UNCHANGED <<disk, marker, snapshot, throttled, covered, changes, failures>>

(* The marker cannot be written: the caller gets the error. *)
BumpFails(c) ==
  /\ request[c].step = "bump"
  /\ Fails
  /\ request' = [request EXCEPT ![c] = Idle(request[c].branch)]
  /\ UNCHANGED <<disk, marker, snapshot, scan, throttled, covered, changes>>

-----------------------------------------------------------------------------
(* The process of instance i dies.  *)
Crash(i) ==
  /\ Fails
  /\ scan' = [scan EXCEPT ![i] = NoScan]
  /\ throttled' = throttled \ {i}
  /\ request' = [c \in Caller |->
                   IF Uses[c] = i THEN Idle(request[c].branch) ELSE request[c]]
  /\ UNCHANGED <<disk, marker, snapshot, covered, changes>>

(* branches.json is damaged, or written by another version. *)
SnapshotSpoilt ==
  /\ snapshot # NoSnapshot
  /\ Fails
  /\ snapshot' = NoSnapshot
  /\ UNCHANGED <<disk, marker, scan, throttled, request, covered, changes>>

-----------------------------------------------------------------------------
RequestStep(c) ==
  \/ ProbeCurrent(c) \/ ProbeStale(c) \/ Find(c) \/ Return(c)
  \/ Bump(c) \/ EagerRegenerate(c)

ScanStep(i) == ReadToken(i) \/ Persist(i) \/ \E b \in Branch : ReadBranch(i, b)

Next ==
  \/ \E c \in Caller : RequestStep(c) \/ BumpFails(c)
  \/ \E c \in Caller, b \in Branch :
       Change(c, b) \/ \E op \in {"list", "get"} : Ask(c, op, b)
  \/ \E i \in Instance : ScanStep(i) \/ ScanFails(i) \/ ThrottleElapses(i) \/ Crash(i)
  \/ SnapshotSpoilt

Spec == Init /\ [][Next]_vars

(* As long as requests or scans are under way some step of theirs is taken,  *)
(* whichever it is, and time passes.  Nobody has to ask for anything: the    *)
(* editor polls only while a branch waits for the worker.                    *)
Fairness ==
  /\ WF_vars(\/ \E c \in Caller : RequestStep(c)
             \/ \E i \in Instance : ScanStep(i))
  /\ \A i \in Instance : WF_vars(ThrottleElapses(i))

FairSpec == Spec /\ Fairness

-----------------------------------------------------------------------------
(* Properties.                                                             *)

(* What a listing shows is not older; what it skipped it does not show.    *)
NotOlder(revisions, than) ==
  \A b \in Branch : revisions[b] # Skipped => revisions[b] >= than[b]
SeenNotOlder(i, than) ==
  \A b \in Branch :
    scan[i].seen[b] \notin {Unread, Skipped} => scan[i].seen[b] >= than[b]

(* The inductive invariant: tokens only grow, what is on disk only gets    *)
(* newer, and what a scan with the current token reads is not older than   *)
(* the last bump.                                                          *)
TokensInv ==
  /\ snapshot # NoSnapshot => snapshot.generation <= marker
  /\ \A i \in Instance : scan[i].token \in Nat => scan[i].token <= marker
  /\ \A c \in Caller : request[c].step = "probe" => request[c].gen <= marker

FloorsInv ==
  /\ NotOlder(disk, covered)
  /\ \A c \in Caller :
       /\ NotOlder(disk, request[c].floor)
       /\ request[c].op # "change" => NotOlder(covered, request[c].floor)

ScansInv ==
  \A i \in Instance : scan[i].token = marker => SeenNotOlder(i, covered)

ProbesInv ==
  \A c \in Caller :
    /\ request[c].step \in {"idle", "probe", "received"} => request[c].op # "change"
    /\ request[c].step = "probe" /\ request[c].gen = marker =>
         NotOlder(request[c].got, covered)

WaitsInv ==
  \A c \in Caller :
    /\ request[c].step = "wait" => scan[Uses[c]].stage # "none"
    /\ request[c].step \in {"wait", "drained"} =>
         SeenNotOlder(Uses[c], request[c].floor)
    /\ request[c].step \in {"bump", "drain", "drained"} => request[c].op = "change"

(* A snapshot whose token is the marker's shows every branch at least as   *)
(* new as it was when the marker last changed, or leaves it out because    *)
(* the scan that wrote it could not read that branch.json, however many    *)
(* scans and bumps of other hosts raced that scan.                         *)
CurrentSnapshotIsFresh ==
  snapshot # NoSnapshot /\ snapshot.generation = marker
    => NotOlder(snapshot.branches, covered)

(* A listing shows no branch older than at the last bump before it was     *)
(* asked for, nor get's forced refresh than at the last bump before it:    *)
(* what an invalidate announced is in every later listing, except one that *)
(* joined a scan already in flight, and except a branch that the listing's *)
(* scan could not read.                                                    *)
ListingIsFresh ==
  \A c \in Caller :
    request[c].step \in {"received", "answered"} =>
      NotOlder(request[c].got, request[c].floor)

(* What the eager scan of an invalidate reads of its own branch is its own *)
(* change or a later one, unless the read fails: it never settles for what *)
(* a scan in flight had read before the change was made.                   *)
EagerScanSeesChange ==
  \A c \in Caller :
    request[c].op = "change" /\ request[c].step = "wait" =>
      LET r == scan[Uses[c]].seen[request[c].branch] IN
      r \notin {Unread, Skipped} => r >= request[c].floor[request[c].branch]

(* As long as anybody keeps asking, a snapshot written late with an old    *)
(* token does not stay: a current one takes its place for good.  And as    *)
(* long as a branch is asked for by name, a scan that skipped it, or a     *)
(* create whose bump failed, does not hide it for ever: get's forced       *)
(* refresh brings it back.                                                 *)
Current == snapshot # NoSnapshot /\ snapshot.generation = marker
Hidden(b) == Exists(disk[b]) /\ ~Exists(snapshot.branches[b])

SnapshotHeals ==
  /\ []<><<\E c \in Caller, b \in Branch, op \in {"list", "get"} : Ask(c, op, b)>>_vars
       => <>[]Current
  /\ \A b \in Branch :
       []<><<\E c \in Caller : Ask(c, "get", b)>>_vars => <>[](Current /\ ~Hidden(b))

FreshnessInv ==
  /\ TokensInv /\ FloorsInv /\ ScansInv /\ ProbesInv /\ WaitsInv
  /\ CurrentSnapshotIsFresh /\ ListingIsFresh
=============================================================================
