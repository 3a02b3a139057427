------------------------ MODULE BranchRegistryProofs ------------------------
(***************************************************************************)
(* Proofs about BranchRegistry, for any set of branches, instances and     *)
(* requests.                                                               *)
(***************************************************************************)
EXTENDS BranchRegistry, TLAPS

USE UsesAssumption, ValueAssumption, BoundAssumption

(* A request that is over. *)
LEMMA IdleType ==
  ASSUME NEW b \in Branch
  PROVE  Idle(b) \in Requests
BY DEF Idle, Requests, Nothing, Revisions, Listings

(* A request that has its listing. *)
LEMMA ReceivedType ==
  ASSUME NEW r \in Requests, NEW revisions \in Listings
  PROVE  Received(r, revisions) \in Requests
BY DEF Received, Requests, Listings

(* An instance that is not scanning. *)
LEMMA NoScanType ==
  NoScan \in Scans
BY DEF NoScan, Scans

(* regenerate() keeps the types of requests and scans. *)
LEMMA RegenerateType ==
  ASSUME NEW c \in Caller, NEW r \in Requests, Regenerate(c, r),
         request \in [Caller -> Requests], scan \in [Instance -> Scans]
  PROVE  request' \in [Caller -> Requests] /\ scan' \in [Instance -> Scans]
<1> DEFINE joins == scan[Uses[c]].stage # "none" /\ r.op # "change"
           w == [r EXCEPT !.step = "wait", !.got = Nothing, !.gen = 0,
                          !.floor = IF joins THEN Nothing ELSE @]
<1>1. w \in Requests
  BY DEF Requests, Nothing, Revisions, Listings
<1>2. scan[Uses[c]].stage = "none" => [scan[Uses[c]] EXCEPT !.stage = "token"] \in Scans
  BY DEF Scans
<1>3. request' = [request EXCEPT ![c] = w]
  BY DEF Regenerate
<1>4. \/ scan' = [scan EXCEPT ![Uses[c]] = [@ EXCEPT !.stage = "token"]]
        /\ scan[Uses[c]].stage = "none"
      \/ scan' = scan
  BY DEF Regenerate
<1> HIDE DEF w
<1>5. QED
  BY <1>1, <1>2, <1>3, <1>4

(* A request whose scan has ended. *)
LEMMA ResumedType ==
  ASSUME NEW c \in Caller, NEW revisions \in Listings, request \in [Caller -> Requests]
  PROVE  Resumed(c, revisions) \in Requests
<1>1. request[c] \in Requests /\ request[c].branch \in Branch
  BY DEF Requests
<1>2. [request[c] EXCEPT !.step = "drained"] \in Requests
  BY <1>1 DEF Requests
<1>3. QED
  BY <1>1, <1>2, ReceivedType, IdleType DEF Resumed

(* The variables of the registry protocol keep their types. *)
THEOREM RegistryTypeCorrect == Spec => []TypeOK
<1>1. Init => TypeOK
  BY IdleType, NoScanType DEF Init, TypeOK, Revisions, Nothing
<1>2. TypeOK /\ [Next]_vars => TypeOK'
  <2> SUFFICES ASSUME TypeOK, [Next]_vars PROVE TypeOK'
    OBVIOUS
  <2> USE DEF TypeOK
  <2>a. \A c \in Caller : request[c] \in Requests /\ request[c].branch \in Branch
    BY DEF Requests
  <2>b. \A i \in Instance : scan[i] \in Scans
    OBVIOUS
  <2>1. ASSUME NEW c \in Caller, NEW b \in Branch, NEW op \in {"list", "get"}, Ask(c, op, b)
       PROVE  TypeOK'
    <3> DEFINE r == [request[c] EXCEPT !.op = op, !.branch = b, !.floor = covered]
    <3>1. r \in Requests
      BY <2>a DEF Requests
    <3> HIDE DEF r
    <3>2. CASE snapshot = NoSnapshot /\ Regenerate(c, r)
      BY <2>1, <3>1, <3>2, RegenerateType DEF Ask
    <3>3. CASE snapshot # NoSnapshot
      <4>1. snapshot.branches \in Listings /\ snapshot.generation \in Nat
        BY <3>3 DEF Snapshots
      <4>2. [r EXCEPT !.step = "probe", !.got = snapshot.branches,
                      !.gen = snapshot.generation] \in Requests
        BY <3>1, <4>1 DEF Requests
      <4>3. QED
        BY <2>1, <3>3, <4>2 DEF Ask, r
    <3>4. QED
      BY <2>1, <3>2, <3>3 DEF Ask, r
  <2>2. ASSUME NEW c \in Caller, ProbeCurrent(c)
       PROVE  TypeOK'
    <3>1. request[c].got \in Listings
      BY <2>a DEF Requests
    <3>2. QED
      BY <2>2, <2>a, <3>1, ReceivedType DEF ProbeCurrent
  <2>3. ASSUME NEW c \in Caller, ProbeStale(c)
       PROVE  TypeOK'
    BY <2>3, <2>a, RegenerateType DEF ProbeStale, Fails
  <2>4. ASSUME NEW c \in Caller, Find(c)
       PROVE  TypeOK'
    <3>1. [request[c] EXCEPT !.step = "answered"] \in Requests
      BY <2>a DEF Requests
    <3>2. [request[c] EXCEPT !.op = "list", !.floor = covered] \in Requests
      BY <2>a DEF Requests
    <3>3. QED
      BY <2>4, <3>1, <3>2, RegenerateType DEF Find
  <2>5. ASSUME NEW c \in Caller, Return(c)
       PROVE  TypeOK'
    BY <2>5, <2>a, IdleType DEF Return
  <2>6. ASSUME NEW c \in Caller, Bump(c)
       PROVE  TypeOK'
    <3>1. [request[c] EXCEPT !.step = "drain"] \in Requests
      BY <2>a DEF Requests
    <3>2. QED
      BY <2>6, <2>a, <3>1, RegenerateType DEF Bump
  <2>7. ASSUME NEW c \in Caller, EagerRegenerate(c)
       PROVE  TypeOK'
    BY <2>7, <2>a, RegenerateType DEF EagerRegenerate
  <2>8. ASSUME NEW c \in Caller, BumpFails(c)
       PROVE  TypeOK'
    BY <2>8, <2>a, IdleType DEF BumpFails, Fails
  <2>9. ASSUME NEW c \in Caller, NEW b \in Branch, Change(c, b)
       PROVE  TypeOK'
    <3>1. disk' \in Revisions
      BY <2>9 DEF Change, Revisions
    <3>2. [request[c] EXCEPT !.op = "change", !.step = "bump", !.branch = b,
                             !.floor = disk'] \in Requests
      BY <2>a, <3>1 DEF Requests
    <3>3. QED
      BY <2>9, <3>1, <3>2 DEF Change
  <2>10. ASSUME NEW i \in Instance, ReadToken(i)
       PROVE  TypeOK'
    <3>1. scan[i].seen \in [Branch -> Nat \union {Unread, Skipped}]
      BY <2>10, <2>b DEF ReadToken, Scans, NothingSeen
    <3>2. PICK token \in {marker, Unknown} :
            scan' = [scan EXCEPT ![i] = [@ EXCEPT !.stage = "reading", !.token = token]]
      BY <2>10 DEF ReadToken
    <3>3. [scan[i] EXCEPT !.stage = "reading", !.token = token] \in Scans
      BY <3>1, <2>b DEF Scans
    <3>4. scan' \in [Instance -> Scans]
      BY <3>2, <3>3
    <3>5. failures' \in Nat
      BY <2>10 DEF ReadToken, Fails
    <3>6. QED
      BY <2>10, <3>4, <3>5 DEF ReadToken
  <2>11. ASSUME NEW i \in Instance, NEW b \in Branch, ReadBranch(i, b)
       PROVE  TypeOK'
    <3>1. PICK revision \in {disk[b], Skipped} :
            scan' = [scan EXCEPT ![i].seen[b] = revision]
      BY <2>11 DEF ReadBranch
    <3>2. revision \in Nat \union {Skipped}
      BY <3>1 DEF Revisions
    <3>3. [scan[i].seen EXCEPT ![b] = revision] \in [Branch -> Nat \union {Unread, Skipped}]
      BY <2>11, <2>b, <3>2 DEF Scans, ReadBranch
    <3>4. [scan[i] EXCEPT !.seen = [scan[i].seen EXCEPT ![b] = revision]] \in Scans
      BY <2>11, <2>b, <3>3 DEF Scans, ReadBranch
    <3>5. scan' \in [Instance -> Scans]
      BY <3>1, <3>4
    <3>6. failures' \in Nat
      BY <2>11 DEF ReadBranch, Fails
    <3>7. QED
      BY <2>11, <3>5, <3>6 DEF ReadBranch
  <2>12. ASSUME NEW i \in Instance, Persist(i)
       PROVE  TypeOK'
    <3>1. scan[i].seen \in Listings
      BY <2>12, <2>b DEF Persist, Scans, Listings
    <3>2. request' \in [Caller -> Requests]
      BY <2>12, <2>a, <3>1, ResumedType DEF Persist
    <3>3. snapshot' \in Snapshots \union {NoSnapshot}
      <4>1. scan[i].token \in Nat \union {Unknown}
        BY <2>12, <2>b DEF Scans, Persist
      <4>2. QED
        BY <2>12, <3>1, <4>1 DEF Persist, Snapshots
    <3>4. QED
      BY <2>12, <3>2, <3>3, NoScanType DEF Persist
  <2>13. ASSUME NEW i \in Instance, ScanFails(i)
       PROVE  TypeOK'
    <3>1. \A c \in Caller : [request[c] EXCEPT !.step = "drained"] \in Requests
      BY <2>a DEF Requests
    <3>2. request' \in [Caller -> Requests]
      BY <2>13, <2>a, <3>1, IdleType DEF ScanFails
    <3>3. QED
      BY <2>13, <3>2, NoScanType DEF ScanFails, Fails
  <2>14. ASSUME NEW i \in Instance, ThrottleElapses(i)
       PROVE  TypeOK'
    BY <2>14 DEF ThrottleElapses
  <2>15. ASSUME NEW i \in Instance, Crash(i)
       PROVE  TypeOK'
    BY <2>15, <2>a, IdleType, NoScanType DEF Crash, Fails
  <2>16. CASE SnapshotSpoilt
    BY <2>16 DEF SnapshotSpoilt, Fails
  <2>17. CASE UNCHANGED vars
    BY <2>17 DEF vars
  <2>18. QED
    BY <2>1, <2>2, <2>3, <2>4, <2>5, <2>6, <2>7, <2>8, <2>9, <2>10, <2>11, <2>12, <2>13, <2>14, <2>15, <2>16, <2>17 DEF Next, RequestStep, ScanStep
<1>3. QED
  BY <1>1, <1>2, PTL DEF Spec
-----------------------------------------------------------------------------
(* That the marker protocol keeps listings fresh: FreshnessInv is inductive. *)
(* A step is described by what it does to the fields of the requests and     *)
(* scans it touches, since the invariant only speaks of fields.              *)

(* What regenerate() does to the request r that calls it and to the scan   *)
(* it waits for: a scan it starts has read nothing yet, and a listing that *)
(* joins one has no floor.                                                 *)
LEMMA RegenerateFields ==
  ASSUME TypeOK, NEW c \in Caller, NEW r \in Requests, Regenerate(c, r)
  PROVE  /\ \A d \in Caller : d # c => request'[d] = request[d]
         /\ request'[c].step = "wait"
         /\ request'[c].op = r.op
         /\ \A i \in Instance : /\ scan'[i].token = scan[i].token
                                /\ scan'[i].seen = scan[i].seen
                                /\ scan[i].stage # "none" => scan'[i].stage # "none"
         /\ scan'[Uses[c]].stage # "none"
         /\ scan[Uses[c]].stage = "none" => scan[Uses[c]].seen = NothingSeen
         /\ \/ /\ request'[c].floor = r.floor
               /\ (scan[Uses[c]].seen = NothingSeen \/ r.op = "change")
            \/ request'[c].floor = Nothing /\ r.op # "change"
<1> DEFINE joins == scan[Uses[c]].stage # "none" /\ r.op # "change"
           w == [r EXCEPT !.step = "wait", !.got = Nothing, !.gen = 0,
                          !.floor = IF joins THEN Nothing ELSE @]
           s == [scan[Uses[c]] EXCEPT !.stage = "token"]
<1>1. /\ w.step = "wait" /\ w.op = r.op
      /\ \/ w.floor = r.floor /\ (scan[Uses[c]].stage = "none" \/ r.op = "change")
         \/ w.floor = Nothing /\ r.op # "change"
  BY DEF Requests
<1>2. scan[Uses[c]] \in Scans /\ scan \in [Instance -> Scans] /\ Uses[c] \in Instance
      /\ request \in [Caller -> Requests]
  BY DEF TypeOK
<1>3. scan[Uses[c]].stage = "none" => scan[Uses[c]].seen = NothingSeen
  BY <1>2 DEF Scans
<1>4. s.token = scan[Uses[c]].token /\ s.seen = scan[Uses[c]].seen /\ s.stage = "token"
  BY <1>2 DEF Scans
<1>5. /\ request' = [request EXCEPT ![c] = w]
      /\ \/ scan' = [scan EXCEPT ![Uses[c]] = s] /\ scan[Uses[c]].stage = "none"
         \/ scan' = scan /\ scan[Uses[c]].stage # "none"
  BY DEF Regenerate
<1> HIDE DEF w, s
<1>6. QED
  BY <1>1, <1>2, <1>3, <1>4, <1>5

(* A request that calls regenerate() keeps everything fresh: the scan it   *)
(* waits for has seen nothing, or the request has no floor any more, or it *)
(* is a change whose own floor the scan already respects.                  *)
LEMMA RegenerateKeepsFresh ==
  ASSUME TypeOK, FreshnessInv, NEW c \in Caller, NEW r \in Requests, Regenerate(c, r),
         UNCHANGED <<disk, marker, snapshot, covered>>,
         NotOlder(disk, r.floor),
         r.op # "change" => NotOlder(covered, r.floor),
         r.op = "change" => SeenNotOlder(Uses[c], r.floor)
  PROVE  FreshnessInv'
<1>a. /\ TokensInv /\ FloorsInv /\ ScansInv /\ ProbesInv /\ WaitsInv
      /\ CurrentSnapshotIsFresh /\ ListingIsFresh
  BY DEF FreshnessInv
<1>b. /\ \A d \in Caller : Uses[d] \in Instance
      /\ \A b \in Branch : NothingSeen[b] = Unread
  BY DEF NothingSeen
<1>f. /\ \A d \in Caller : d # c => request'[d] = request[d]
      /\ request'[c].step = "wait"
      /\ request'[c].op = r.op
      /\ \A i \in Instance : /\ scan'[i].token = scan[i].token
                             /\ scan'[i].seen = scan[i].seen
                             /\ scan[i].stage # "none" => scan'[i].stage # "none"
      /\ scan'[Uses[c]].stage # "none"
      /\ \/ /\ request'[c].floor = r.floor
            /\ (scan[Uses[c]].seen = NothingSeen \/ r.op = "change")
         \/ request'[c].floor = Nothing /\ r.op # "change"
  BY RegenerateFields
<1>n. /\ \A b \in Branch : Nothing[b] = 0 /\ disk[b] \in Nat /\ covered[b] \in Nat
      /\ \A i \in Instance : \A b \in Branch :
           scan[i].seen[b] \in Nat \union {Unread, Skipped}
  BY DEF TypeOK, Revisions, Scans, NothingSeen, Nothing
<1>1. TokensInv'
  BY <1>a, <1>b, <1>f DEF TokensInv
<1>z. /\ NotOlder(disk, Nothing) /\ NotOlder(covered, Nothing)
      /\ \A i \in Instance : SeenNotOlder(i, Nothing)
  BY <1>n DEF NotOlder, SeenNotOlder
<1>2. FloorsInv'
  <2>1. NotOlder(disk, request'[c].floor)
    BY <1>f, <1>z
  <2>2. request'[c].op # "change" => NotOlder(covered, request'[c].floor)
    BY <1>f, <1>z
  <2>3. QED
    BY <2>1, <2>2, <1>a, <1>f DEF FloorsInv, NotOlder
<1>3. ScansInv'
  BY <1>a, <1>b, <1>f, <1>n DEF ScansInv, NotOlder, SeenNotOlder
<1>4. ProbesInv'
  BY <1>a, <1>b, <1>f, <1>n DEF ProbesInv, NotOlder, SeenNotOlder
<1>5. WaitsInv'
  <2>1. SeenNotOlder(Uses[c], request'[c].floor)
    <3>1. CASE request'[c].floor = Nothing
      BY <3>1, <1>b, <1>z
    <3>2. CASE request'[c].floor = r.floor /\ scan[Uses[c]].seen = NothingSeen
      BY <3>2, <1>b DEF SeenNotOlder
    <3>3. CASE request'[c].floor = r.floor /\ r.op = "change"
      BY <3>3
    <3>4. QED
      BY <1>f, <3>1, <3>2, <3>3
  <2>2. QED
    BY <2>1, <1>a, <1>b, <1>f DEF WaitsInv, SeenNotOlder
<1>6. CurrentSnapshotIsFresh'
  BY <1>a, <1>b, <1>f DEF CurrentSnapshotIsFresh, NotOlder, SeenNotOlder
<1>7. ListingIsFresh'
  BY <1>a, <1>b, <1>f, <1>n DEF ListingIsFresh, NotOlder, SeenNotOlder
<1>8. QED
  BY <1>1, <1>2, <1>3, <1>4, <1>5, <1>6, <1>7 DEF FreshnessInv

(* Every step keeps the snapshot, the scans and the listings fresh.        *)
LEMMA FreshnessStep ==
  ASSUME TypeOK, FreshnessInv, [Next]_vars
  PROVE  FreshnessInv'
<1> USE DEF NotOlder, SeenNotOlder
<1>a. /\ TokensInv /\ FloorsInv /\ ScansInv /\ ProbesInv /\ WaitsInv
      /\ CurrentSnapshotIsFresh /\ ListingIsFresh
  BY DEF FreshnessInv
<1>b. /\ disk \in [Branch -> Nat] /\ covered \in [Branch -> Nat] /\ marker \in Nat
      /\ scan \in [Instance -> Scans] /\ request \in [Caller -> Requests]
      /\ snapshot \in Snapshots \union {NoSnapshot}
  BY DEF TypeOK, Revisions
<1>c. \A c \in Caller : Uses[c] \in Instance
  OBVIOUS
<1>d. /\ \A c \in Caller : request[c].gen \in Nat /\ request[c].floor \in [Branch -> Nat]
      /\ snapshot # NoSnapshot => snapshot.generation \in Nat
  BY <1>b DEF Requests, Snapshots, Revisions
<1>1. ASSUME NEW c \in Caller, NEW b \in Branch, NEW op \in {"list", "get"}, Ask(c, op, b)
     PROVE  FreshnessInv'
  <2> DEFINE r == [request[c] EXCEPT !.op = op, !.branch = b, !.floor = covered]
  <2>1. r \in Requests /\ r.op # "change" /\ r.floor = covered
    BY <1>1, <1>b DEF Requests, Revisions
  <2>2. CASE Regenerate(c, r)
    <3>1. UNCHANGED <<disk, marker, snapshot, covered>>
      BY <1>1 DEF Ask
    <3>2. NotOlder(disk, r.floor) /\ NotOlder(covered, r.floor)
      BY <1>a, <1>b, <2>1 DEF FloorsInv
    <3> HIDE DEF r
    <3>3. QED
      BY <2>1, <2>2, <3>1, <3>2, RegenerateKeepsFresh
  <2>3. CASE snapshot # NoSnapshot
    <3> DEFINE w == [r EXCEPT !.step = "probe", !.got = snapshot.branches,
                              !.gen = snapshot.generation]
    <3>1. /\ w.step = "probe" /\ w.op # "change" /\ w.floor = covered
          /\ w.got = snapshot.branches /\ w.gen = snapshot.generation
      BY <1>1, <1>a, <2>1 DEF Requests, ProbesInv, Ask
    <3>2. request' = [request EXCEPT ![c] = w]
      BY <1>1, <2>3 DEF Ask
    <3> HIDE DEF r, w
    <3>3. /\ request'[c].step = "probe" /\ request'[c].op # "change"
          /\ request'[c].floor = covered /\ request'[c].got = snapshot.branches
          /\ request'[c].gen = snapshot.generation
          /\ \A d \in Caller : d # c => request'[d] = request[d]
          /\ UNCHANGED <<disk, marker, snapshot, scan, covered>>
      BY <1>1, <1>b, <2>3, <3>1, <3>2 DEF Ask
    <3>4. TokensInv'
      BY <1>a, <1>b, <1>c, <1>d, <2>3, <3>3 DEF TokensInv
    <3>5. FloorsInv'
      BY <1>a, <1>b, <1>c, <1>d, <2>3, <3>3 DEF FloorsInv
    <3>6. ScansInv'
      BY <1>a, <1>b, <1>c, <1>d, <2>3, <3>3 DEF ScansInv
    <3>7. ProbesInv'
      BY <1>a, <1>b, <1>c, <1>d, <2>3, <3>3 DEF ProbesInv, CurrentSnapshotIsFresh
    <3>8. WaitsInv'
      BY <1>a, <1>b, <1>c, <1>d, <2>3, <3>3 DEF WaitsInv
    <3>9. CurrentSnapshotIsFresh'
      BY <1>a, <1>b, <1>c, <1>d, <2>3, <3>3 DEF CurrentSnapshotIsFresh
    <3>10. ListingIsFresh'
      BY <1>a, <1>b, <1>c, <1>d, <2>3, <3>3 DEF ListingIsFresh
    <3>11. QED
      BY <3>4, <3>5, <3>6, <3>7, <3>8, <3>9, <3>10 DEF FreshnessInv
  <2>4. QED
    BY <1>1, <2>2, <2>3 DEF Ask
<1>2. ASSUME NEW c \in Caller, ProbeCurrent(c)
     PROVE  FreshnessInv'
  <2>1. TokensInv'
    BY <1>2, <1>a, <1>b, <1>d DEF TokensInv, Scans, Requests, NothingSeen, ProbeCurrent, Received
  <2>2. FloorsInv'
    BY <1>2, <1>a, <1>b, <1>d DEF FloorsInv, Scans, Requests, NothingSeen, ProbeCurrent, Received
  <2>3. ScansInv'
    BY <1>2, <1>a, <1>b, <1>d DEF ScansInv, Scans, Requests, NothingSeen, ProbeCurrent, Received
  <2>4. ProbesInv'
    BY <1>2, <1>a, <1>b, <1>d DEF ProbesInv, Scans, Requests, NothingSeen, ProbeCurrent, Received
  <2>5. WaitsInv'
    BY <1>2, <1>a, <1>b, <1>d DEF WaitsInv, Scans, Requests, NothingSeen, ProbeCurrent, Received
  <2>6. CurrentSnapshotIsFresh'
    BY <1>2, <1>a, <1>b, <1>d DEF CurrentSnapshotIsFresh, Scans, Requests, NothingSeen, ProbeCurrent, Received
  <2>7. ListingIsFresh'
    BY <1>2, <1>a, <1>b, <1>d DEF ListingIsFresh, ProbesInv, FloorsInv, Requests, Revisions, Listings, ProbeCurrent, Received
  <2>8. QED
    BY <2>1, <2>2, <2>3, <2>4, <2>5, <2>6, <2>7 DEF FreshnessInv
<1>3. ASSUME NEW c \in Caller, ProbeStale(c)
     PROVE  FreshnessInv'
  <2>1. /\ request[c] \in Requests /\ request[c].op # "change"
        /\ Regenerate(c, request[c]) /\ UNCHANGED <<disk, marker, snapshot, covered>>
    BY <1>3, <1>a, <1>b DEF ProbeStale, ProbesInv
  <2>2. QED
    BY <1>a, <2>1, RegenerateKeepsFresh DEF FloorsInv
<1>4. ASSUME NEW c \in Caller, Find(c)
     PROVE  FreshnessInv'
  <2> DEFINE w == [request[c] EXCEPT !.step = "answered"]
             r == [request[c] EXCEPT !.op = "list", !.floor = covered]
  <2>1. /\ r \in Requests /\ r.op # "change" /\ r.floor = covered
        /\ request[c].step = "received" /\ request[c].op # "change"
        /\ UNCHANGED <<disk, marker, snapshot, covered>>
    BY <1>4, <1>a, <1>b DEF Find, ProbesInv, Requests, Revisions
  <2>2. CASE Regenerate(c, r)
    <3>1. NotOlder(disk, r.floor) /\ NotOlder(covered, r.floor)
      BY <1>a, <1>b, <2>1 DEF FloorsInv
    <3> HIDE DEF r
    <3>2. QED
      BY <2>1, <2>2, <3>1, RegenerateKeepsFresh
  <2>3. CASE request' = [request EXCEPT ![c] = w] /\ UNCHANGED scan
    <3>1. /\ w.step = "answered" /\ w.op = request[c].op /\ w.floor = request[c].floor
          /\ w.got = request[c].got
      BY <1>b DEF Requests
    <3> HIDE DEF r, w
    <3>2. /\ request'[c].step = "answered" /\ request'[c].op # "change"
          /\ request'[c].floor = request[c].floor /\ request'[c].got = request[c].got
          /\ \A d \in Caller : d # c => request'[d] = request[d]
      BY <1>b, <2>1, <2>3, <3>1
    <3>3. TokensInv'
      BY <1>a, <1>b, <1>c, <1>d, <2>1, <2>3, <3>2 DEF TokensInv
    <3>4. FloorsInv'
      BY <1>a, <1>b, <1>c, <1>d, <2>1, <2>3, <3>2 DEF FloorsInv
    <3>5. ScansInv'
      BY <1>a, <1>b, <1>c, <1>d, <2>1, <2>3, <3>2 DEF ScansInv
    <3>6. ProbesInv'
      BY <1>a, <1>b, <1>c, <1>d, <2>1, <2>3, <3>2 DEF ProbesInv
    <3>7. WaitsInv'
      BY <1>a, <1>b, <1>c, <1>d, <2>1, <2>3, <3>2 DEF WaitsInv
    <3>8. CurrentSnapshotIsFresh'
      BY <1>a, <1>b, <1>c, <1>d, <2>1, <2>3, <3>2 DEF CurrentSnapshotIsFresh
    <3>9. ListingIsFresh'
      BY <1>a, <1>b, <1>c, <1>d, <2>1, <2>3, <3>2 DEF ListingIsFresh
    <3>10. QED
      BY <3>3, <3>4, <3>5, <3>6, <3>7, <3>8, <3>9 DEF FreshnessInv
  <2>4. QED
    BY <1>4, <2>2, <2>3 DEF Find
<1>5. ASSUME NEW c \in Caller, Return(c)
     PROVE  FreshnessInv'
  <2>1. TokensInv'
    BY <1>5, <1>a, <1>b, <1>d DEF TokensInv, Scans, Requests, NothingSeen, Return, Idle, Nothing
  <2>2. FloorsInv'
    BY <1>5, <1>a, <1>b, <1>d DEF FloorsInv, Scans, Requests, NothingSeen, Return, Idle, Nothing
  <2>3. ScansInv'
    BY <1>5, <1>a, <1>b, <1>d DEF ScansInv, Scans, Requests, NothingSeen, Return, Idle, Nothing
  <2>4. ProbesInv'
    BY <1>5, <1>a, <1>b, <1>d DEF ProbesInv, Scans, Requests, NothingSeen, Return, Idle, Nothing
  <2>5. WaitsInv'
    BY <1>5, <1>a, <1>b, <1>d DEF WaitsInv, Scans, Requests, NothingSeen, Return, Idle, Nothing
  <2>6. CurrentSnapshotIsFresh'
    BY <1>5, <1>a, <1>b, <1>d DEF CurrentSnapshotIsFresh, Scans, Requests, NothingSeen, Return, Idle, Nothing
  <2>7. ListingIsFresh'
    BY <1>5, <1>a, <1>b, <1>d DEF ListingIsFresh, Scans, Requests, NothingSeen, Return, Idle, Nothing
  <2>8. QED
    BY <2>1, <2>2, <2>3, <2>4, <2>5, <2>6, <2>7 DEF FreshnessInv
<1>6. ASSUME NEW c \in Caller, Bump(c)
     PROVE  FreshnessInv'
  <2> DEFINE w == [request[c] EXCEPT !.step = "drain"]
  <2>1. /\ request[c].op = "change" /\ marker' = marker + 1 /\ covered' = disk
        /\ UNCHANGED <<disk, snapshot>>
    BY <1>6, <1>a DEF Bump, WaitsInv
  <2>2. /\ \A d \in Caller : d # c => request'[d] = request[d]
        /\ request'[c].op = "change" /\ request'[c].floor = request[c].floor
        /\ request'[c].step \in {"wait", "drain"}
        /\ \A i \in Instance : /\ scan'[i].token = scan[i].token
                               /\ scan'[i].seen = scan[i].seen
                               /\ scan[i].stage # "none" => scan'[i].stage # "none"
        /\ request'[c].step = "wait" =>
             scan'[Uses[c]].stage # "none" /\ scan[Uses[c]].seen = NothingSeen
    <3>1. CASE Regenerate(c, request[c]) /\ scan[Uses[c]].stage = "none"
      <4>1. request[c] \in Requests
        BY <1>b
      <4>2. QED
        BY <2>1, <3>1, <4>1, RegenerateFields
    <3>2. CASE request' = [request EXCEPT ![c] = w] /\ UNCHANGED scan
      <4>1. w.step = "drain" /\ w.op = request[c].op /\ w.floor = request[c].floor
        BY <1>b DEF Requests
      <4> HIDE DEF w
      <4>2. QED
        BY <1>b, <2>1, <3>2, <4>1
    <3>3. QED
      BY <1>6, <3>1, <3>2 DEF Bump
  <2>3. \A b \in Branch : NothingSeen[b] = Unread
    BY DEF NothingSeen
  <2>4. \A i \in Instance : scan[i].token # marker'
    BY <1>a, <1>b, <2>1 DEF TokensInv, Scans
  <2>5. TokensInv'
    BY <1>a, <1>b, <1>c, <1>d, <2>1, <2>2, <2>3, <2>4 DEF TokensInv
  <2>6. FloorsInv'
    BY <1>a, <1>b, <1>c, <1>d, <2>1, <2>2, <2>3, <2>4 DEF FloorsInv
  <2>7. ScansInv'
    BY <1>a, <1>b, <1>c, <1>d, <2>1, <2>2, <2>3, <2>4 DEF ScansInv, TokensInv
  <2>8. ProbesInv'
    BY <1>a, <1>b, <1>c, <1>d, <2>1, <2>2, <2>3, <2>4 DEF ProbesInv, TokensInv
  <2>9. WaitsInv'
    BY <1>a, <1>b, <1>c, <1>d, <2>1, <2>2, <2>3, <2>4 DEF WaitsInv
  <2>10. CurrentSnapshotIsFresh'
    BY <1>a, <1>b, <1>c, <1>d, <2>1, <2>2, <2>3, <2>4 DEF CurrentSnapshotIsFresh, TokensInv
  <2>11. ListingIsFresh'
    BY <1>a, <1>b, <1>c, <1>d, <2>1, <2>2, <2>3, <2>4 DEF ListingIsFresh
  <2>12. QED
    BY <2>5, <2>6, <2>7, <2>8, <2>9, <2>10, <2>11 DEF FreshnessInv
<1>7. ASSUME NEW c \in Caller, EagerRegenerate(c)
     PROVE  FreshnessInv'
  <2>1. /\ request[c] \in Requests /\ request[c].op = "change"
        /\ Regenerate(c, request[c]) /\ UNCHANGED <<disk, marker, snapshot, covered>>
        /\ SeenNotOlder(Uses[c], request[c].floor)
    BY <1>7, <1>a, <1>b DEF EagerRegenerate, WaitsInv
  <2>2. QED
    BY <1>a, <2>1, RegenerateKeepsFresh DEF FloorsInv
<1>8. ASSUME NEW c \in Caller, BumpFails(c)
     PROVE  FreshnessInv'
  <2>1. TokensInv'
    BY <1>8, <1>a, <1>b, <1>d DEF TokensInv, Scans, Requests, NothingSeen, BumpFails, Fails, Idle, Nothing
  <2>2. FloorsInv'
    BY <1>8, <1>a, <1>b, <1>d DEF FloorsInv, Scans, Requests, NothingSeen, BumpFails, Fails, Idle, Nothing
  <2>3. ScansInv'
    BY <1>8, <1>a, <1>b, <1>d DEF ScansInv, Scans, Requests, NothingSeen, BumpFails, Fails, Idle, Nothing
  <2>4. ProbesInv'
    BY <1>8, <1>a, <1>b, <1>d DEF ProbesInv, Scans, Requests, NothingSeen, BumpFails, Fails, Idle, Nothing
  <2>5. WaitsInv'
    BY <1>8, <1>a, <1>b, <1>d DEF WaitsInv, Scans, Requests, NothingSeen, BumpFails, Fails, Idle, Nothing
  <2>6. CurrentSnapshotIsFresh'
    BY <1>8, <1>a, <1>b, <1>d DEF CurrentSnapshotIsFresh, Scans, Requests, NothingSeen, BumpFails, Fails, Idle, Nothing
  <2>7. ListingIsFresh'
    BY <1>8, <1>a, <1>b, <1>d DEF ListingIsFresh, Scans, Requests, NothingSeen, BumpFails, Fails, Idle, Nothing
  <2>8. QED
    BY <2>1, <2>2, <2>3, <2>4, <2>5, <2>6, <2>7 DEF FreshnessInv
<1>9. ASSUME NEW c \in Caller, NEW b \in Branch, Change(c, b)
     PROVE  FreshnessInv'
  <2>1. TokensInv'
    BY <1>9, <1>a, <1>b, <1>d DEF TokensInv, Scans, Requests, NothingSeen, Change
  <2>2. FloorsInv'
    BY <1>9, <1>a, <1>b, <1>d DEF FloorsInv, Scans, Requests, NothingSeen, Change
  <2>3. ScansInv'
    BY <1>9, <1>a, <1>b, <1>d DEF ScansInv, Scans, Requests, NothingSeen, Change
  <2>4. ProbesInv'
    BY <1>9, <1>a, <1>b, <1>d DEF ProbesInv, Scans, Requests, NothingSeen, Change
  <2>5. WaitsInv'
    BY <1>9, <1>a, <1>b, <1>d DEF WaitsInv, Scans, Requests, NothingSeen, Change
  <2>6. CurrentSnapshotIsFresh'
    BY <1>9, <1>a, <1>b, <1>d DEF CurrentSnapshotIsFresh, Scans, Requests, NothingSeen, Change
  <2>7. ListingIsFresh'
    BY <1>9, <1>a, <1>b, <1>d DEF ListingIsFresh, Scans, Requests, NothingSeen, Change
  <2>8. QED
    BY <2>1, <2>2, <2>3, <2>4, <2>5, <2>6, <2>7 DEF FreshnessInv
<1>10. ASSUME NEW i \in Instance, ReadToken(i)
     PROVE  FreshnessInv'
  <2>1. TokensInv'
    BY <1>10, <1>a, <1>b, <1>d DEF TokensInv, Scans, Requests, NothingSeen, ReadToken, Fails
  <2>2. FloorsInv'
    BY <1>10, <1>a, <1>b, <1>d DEF FloorsInv, Scans, Requests, NothingSeen, ReadToken, Fails
  <2>3. ScansInv'
    BY <1>10, <1>a, <1>b, <1>d DEF ScansInv, Scans, Requests, NothingSeen, ReadToken, Fails
  <2>4. ProbesInv'
    BY <1>10, <1>a, <1>b, <1>d DEF ProbesInv, Scans, Requests, NothingSeen, ReadToken, Fails
  <2>5. WaitsInv'
    BY <1>10, <1>a, <1>b, <1>d DEF WaitsInv, Scans, Requests, NothingSeen, ReadToken, Fails
  <2>6. CurrentSnapshotIsFresh'
    BY <1>10, <1>a, <1>b, <1>d DEF CurrentSnapshotIsFresh, Scans, Requests, NothingSeen, ReadToken, Fails
  <2>7. ListingIsFresh'
    BY <1>10, <1>a, <1>b, <1>d DEF ListingIsFresh, Scans, Requests, NothingSeen, ReadToken, Fails
  <2>8. QED
    BY <2>1, <2>2, <2>3, <2>4, <2>5, <2>6, <2>7 DEF FreshnessInv
<1>11. ASSUME NEW i \in Instance, NEW b \in Branch, ReadBranch(i, b)
     PROVE  FreshnessInv'
  <2>1. TokensInv'
    BY <1>11, <1>a, <1>b, <1>d DEF TokensInv, Scans, Requests, NothingSeen, ReadBranch
  <2>2. FloorsInv'
    BY <1>11, <1>a, <1>b, <1>d DEF FloorsInv, Scans, Requests, NothingSeen, ReadBranch
  <2>3. ScansInv'
    BY <1>11, <1>a, <1>b, <1>d DEF ScansInv, FloorsInv, Scans, ReadBranch
  <2>4. ProbesInv'
    BY <1>11, <1>a, <1>b, <1>d DEF ProbesInv, Scans, Requests, NothingSeen, ReadBranch
  <2>5. WaitsInv'
    BY <1>11, <1>a, <1>b, <1>d DEF WaitsInv, FloorsInv, Scans, ReadBranch
  <2>6. CurrentSnapshotIsFresh'
    BY <1>11, <1>a, <1>b, <1>d DEF CurrentSnapshotIsFresh, Scans, Requests, NothingSeen, ReadBranch
  <2>7. ListingIsFresh'
    BY <1>11, <1>a, <1>b, <1>d DEF ListingIsFresh, Scans, Requests, NothingSeen, ReadBranch
  <2>8. QED
    BY <2>1, <2>2, <2>3, <2>4, <2>5, <2>6, <2>7 DEF FreshnessInv
<1>12. ASSUME NEW i \in Instance, Persist(i)
     PROVE  FreshnessInv'
  <2>1. /\ scan' = [scan EXCEPT ![i] = NoScan]
        /\ UNCHANGED <<disk, marker, covered>>
        /\ scan[i].seen \in [Branch -> Nat \union {Skipped}]
        /\ scan[i].token \in Nat \union {Unknown}
        /\ \/ snapshot' = [generation |-> scan[i].token, branches |-> scan[i].seen]
              /\ scan[i].token \in Nat
           \/ snapshot' = snapshot
    BY <1>12, <1>b DEF Persist, Scans
  <2>2. ASSUME NEW c \in Caller
        PROVE  \/ /\ request'[c] = request[c]
                  /\ request[c].step = "wait" => Uses[c] # i
               \/ /\ request'[c].step = "drained" /\ request'[c].op = request[c].op
                  /\ request'[c].floor = request[c].floor
                  /\ request[c].step = "drain" /\ Uses[c] = i
               \/ /\ request'[c].step \in {"received", "answered"}
                  /\ request'[c].op = request[c].op /\ request[c].op # "change"
                  /\ request'[c].floor = request[c].floor
                  /\ request'[c].got = scan[i].seen
                  /\ request[c].step = "wait" /\ Uses[c] = i
               \/ /\ request'[c].step = "idle" /\ request'[c].op = "list"
                  /\ request'[c].floor = Nothing
    <3>1. CASE Uses[c] # i
      BY <1>12, <3>1 DEF Persist
    <3>2. CASE Uses[c] = i /\ request[c].step = "drain"
      BY <1>12, <1>b, <3>2 DEF Persist, Resumed, Requests
    <3>3. CASE Uses[c] = i /\ request[c].step = "wait" /\ request[c].op # "change"
      <4>1. request'[c] = Received(request[c], scan[i].seen)
        BY <1>12, <3>3 DEF Persist, Resumed
      <4>2. QED
        BY <1>b, <3>3, <4>1 DEF Received, Requests
    <3>4. CASE Uses[c] = i /\ request[c].step = "wait" /\ request[c].op = "change"
      <4>1. request'[c] = Idle(request[c].branch)
        BY <1>12, <3>4 DEF Persist, Resumed
      <4>2. QED
        BY <4>1 DEF Idle
    <3>5. CASE Uses[c] = i /\ request[c].step \notin {"wait", "drain"}
      BY <1>12, <3>5 DEF Persist, Resumed
    <3>6. QED
      BY <3>1, <3>2, <3>3, <3>4, <3>5
  <2>3. \A b \in Branch : Nothing[b] = 0 /\ NothingSeen[b] = Unread
    BY DEF Nothing, NothingSeen
  <2>4. NoScan.token = Unread /\ NoScan.seen = NothingSeen
    BY DEF NoScan
  <2>5. TokensInv'
    BY <1>a, <1>b, <1>c, <1>d, <2>1, <2>2, <2>3, <2>4 DEF TokensInv
  <2>6. FloorsInv'
    <3>1. \A b \in Branch : disk[b] >= Nothing[b] /\ covered[b] >= Nothing[b]
      BY <1>b, <2>3
    <3>2. ASSUME NEW c \in Caller
          PROVE  /\ request'[c].floor \in {request[c].floor, Nothing}
                 /\ request'[c].op \in {request[c].op, "list"}
                 /\ request'[c].op # request[c].op => request'[c].floor = Nothing
      BY <2>2
    <3>3. QED
      BY <1>a, <2>1, <3>1, <3>2 DEF FloorsInv
  <2>7. ScansInv'
    BY <1>a, <1>b, <1>c, <1>d, <2>1, <2>2, <2>3, <2>4 DEF ScansInv
  <2>8. ProbesInv'
    BY <1>a, <1>b, <1>c, <1>d, <2>1, <2>2, <2>3, <2>4 DEF ProbesInv
  <2>9. WaitsInv'
    BY <1>a, <1>b, <1>c, <1>d, <2>1, <2>2, <2>3, <2>4 DEF WaitsInv, NoScan
  <2>10. CurrentSnapshotIsFresh'
    BY <1>a, <1>b, <1>c, <1>d, <2>1, <2>2, <2>3, <2>4 DEF CurrentSnapshotIsFresh, ScansInv
  <2>11. ListingIsFresh'
    BY <1>a, <1>b, <1>c, <1>d, <2>1, <2>2, <2>3, <2>4 DEF ListingIsFresh, WaitsInv
  <2>12. QED
    BY <2>5, <2>6, <2>7, <2>8, <2>9, <2>10, <2>11 DEF FreshnessInv
<1>13. ASSUME NEW i \in Instance, ScanFails(i)
     PROVE  FreshnessInv'
  <2>1. TokensInv'
    BY <1>13, <1>a, <1>b, <1>d DEF TokensInv, Scans, Requests, NothingSeen, ScanFails, Fails, Idle, Nothing, NoScan
  <2>2. FloorsInv'
    BY <1>13, <1>a, <1>b, <1>d DEF FloorsInv, Scans, Requests, NothingSeen, ScanFails, Fails, Idle, Nothing, NoScan
  <2>3. ScansInv'
    BY <1>13, <1>a, <1>b, <1>d DEF ScansInv, Scans, Requests, NothingSeen, ScanFails, Fails, Idle, Nothing, NoScan
  <2>4. ProbesInv'
    BY <1>13, <1>a, <1>b, <1>d DEF ProbesInv, Scans, Requests, NothingSeen, ScanFails, Fails, Idle, Nothing, NoScan
  <2>5. WaitsInv'
    BY <1>13, <1>a, <1>b, <1>d DEF WaitsInv, Scans, Requests, NothingSeen, ScanFails, Fails, Idle, Nothing, NoScan
  <2>6. CurrentSnapshotIsFresh'
    BY <1>13, <1>a, <1>b, <1>d DEF CurrentSnapshotIsFresh, Scans, Requests, NothingSeen, ScanFails, Fails, Idle, Nothing, NoScan
  <2>7. ListingIsFresh'
    BY <1>13, <1>a, <1>b, <1>d DEF ListingIsFresh, Scans, Requests, NothingSeen, ScanFails, Fails, Idle, Nothing, NoScan
  <2>8. QED
    BY <2>1, <2>2, <2>3, <2>4, <2>5, <2>6, <2>7 DEF FreshnessInv
<1>14. ASSUME NEW i \in Instance, ThrottleElapses(i)
     PROVE  FreshnessInv'
  <2>1. TokensInv'
    BY <1>14, <1>a, <1>b, <1>d DEF TokensInv, Scans, Requests, NothingSeen, ThrottleElapses
  <2>2. FloorsInv'
    BY <1>14, <1>a, <1>b, <1>d DEF FloorsInv, Scans, Requests, NothingSeen, ThrottleElapses
  <2>3. ScansInv'
    BY <1>14, <1>a, <1>b, <1>d DEF ScansInv, Scans, Requests, NothingSeen, ThrottleElapses
  <2>4. ProbesInv'
    BY <1>14, <1>a, <1>b, <1>d DEF ProbesInv, Scans, Requests, NothingSeen, ThrottleElapses
  <2>5. WaitsInv'
    BY <1>14, <1>a, <1>b, <1>d DEF WaitsInv, Scans, Requests, NothingSeen, ThrottleElapses
  <2>6. CurrentSnapshotIsFresh'
    BY <1>14, <1>a, <1>b, <1>d DEF CurrentSnapshotIsFresh, Scans, Requests, NothingSeen, ThrottleElapses
  <2>7. ListingIsFresh'
    BY <1>14, <1>a, <1>b, <1>d DEF ListingIsFresh, Scans, Requests, NothingSeen, ThrottleElapses
  <2>8. QED
    BY <2>1, <2>2, <2>3, <2>4, <2>5, <2>6, <2>7 DEF FreshnessInv
<1>15. ASSUME NEW i \in Instance, Crash(i)
     PROVE  FreshnessInv'
  <2>1. TokensInv'
    BY <1>15, <1>a, <1>b, <1>d DEF TokensInv, Scans, Requests, NothingSeen, Crash, Fails, Idle, Nothing, NoScan
  <2>2. FloorsInv'
    BY <1>15, <1>a, <1>b, <1>d DEF FloorsInv, Scans, Requests, NothingSeen, Crash, Fails, Idle, Nothing, NoScan
  <2>3. ScansInv'
    BY <1>15, <1>a, <1>b, <1>d DEF ScansInv, Scans, Requests, NothingSeen, Crash, Fails, Idle, Nothing, NoScan
  <2>4. ProbesInv'
    BY <1>15, <1>a, <1>b, <1>d DEF ProbesInv, Scans, Requests, NothingSeen, Crash, Fails, Idle, Nothing, NoScan
  <2>5. WaitsInv'
    BY <1>15, <1>a, <1>b, <1>d DEF WaitsInv, Scans, Requests, NothingSeen, Crash, Fails, Idle, Nothing, NoScan
  <2>6. CurrentSnapshotIsFresh'
    BY <1>15, <1>a, <1>b, <1>d DEF CurrentSnapshotIsFresh, Scans, Requests, NothingSeen, Crash, Fails, Idle, Nothing, NoScan
  <2>7. ListingIsFresh'
    BY <1>15, <1>a, <1>b, <1>d DEF ListingIsFresh, Scans, Requests, NothingSeen, Crash, Fails, Idle, Nothing, NoScan
  <2>8. QED
    BY <2>1, <2>2, <2>3, <2>4, <2>5, <2>6, <2>7 DEF FreshnessInv
<1>16. CASE SnapshotSpoilt
  <2>1. TokensInv'
    BY <1>16, <1>a, <1>b, <1>d DEF TokensInv, Scans, Requests, NothingSeen, SnapshotSpoilt, Fails
  <2>2. FloorsInv'
    BY <1>16, <1>a, <1>b, <1>d DEF FloorsInv, Scans, Requests, NothingSeen, SnapshotSpoilt, Fails
  <2>3. ScansInv'
    BY <1>16, <1>a, <1>b, <1>d DEF ScansInv, Scans, Requests, NothingSeen, SnapshotSpoilt, Fails
  <2>4. ProbesInv'
    BY <1>16, <1>a, <1>b, <1>d DEF ProbesInv, Scans, Requests, NothingSeen, SnapshotSpoilt, Fails
  <2>5. WaitsInv'
    BY <1>16, <1>a, <1>b, <1>d DEF WaitsInv, Scans, Requests, NothingSeen, SnapshotSpoilt, Fails
  <2>6. CurrentSnapshotIsFresh'
    BY <1>16, <1>a, <1>b, <1>d DEF CurrentSnapshotIsFresh, Scans, Requests, NothingSeen, SnapshotSpoilt, Fails
  <2>7. ListingIsFresh'
    BY <1>16, <1>a, <1>b, <1>d DEF ListingIsFresh, Scans, Requests, NothingSeen, SnapshotSpoilt, Fails
  <2>8. QED
    BY <2>1, <2>2, <2>3, <2>4, <2>5, <2>6, <2>7 DEF FreshnessInv
<1>17. CASE UNCHANGED vars
  BY <1>17, <1>a DEF vars, FreshnessInv, TokensInv, FloorsInv, ScansInv, ProbesInv, WaitsInv, CurrentSnapshotIsFresh, ListingIsFresh
<1>18. QED
  BY <1>1, <1>2, <1>3, <1>4, <1>5, <1>6, <1>7, <1>8, <1>9, <1>10, <1>11, <1>12, <1>13, <1>14, <1>15, <1>16, <1>17 DEF Next, RequestStep, ScanStep

(* Init is fresh: nothing was asked, scanned or written.                   *)
LEMMA FreshnessInit ==
  Init => FreshnessInv
<1> SUFFICES ASSUME Init PROVE FreshnessInv
  OBVIOUS
<1>1. ASSUME NEW c \in Caller
      PROVE  /\ request[c].step = "idle" /\ request[c].op = "list"
             /\ request[c].floor = Nothing
  BY DEF Init, Idle
<1>2. /\ \A i \in Instance : scan[i].token = Unread /\ scan[i].seen = NothingSeen
      /\ \A b \in Branch : NothingSeen[b] = Unread /\ Nothing[b] = 0
  BY DEF Init, NoScan, NothingSeen, Nothing
<1>3. QED
  BY <1>1, <1>2 DEF Init, FreshnessInv, NotOlder, SeenNotOlder,
     TokensInv, FloorsInv, ScansInv, ProbesInv, WaitsInv,
     CurrentSnapshotIsFresh, ListingIsFresh

(* The invariant holds in every reachable state.                           *)
THEOREM FreshnessHolds == Spec => [](TypeOK /\ FreshnessInv)
<1>1. FreshnessInv /\ TypeOK /\ [Next]_vars => FreshnessInv'
  BY FreshnessStep
<1>2. QED
  BY <1>1, FreshnessInit, RegistryTypeCorrect, PTL DEF Spec

(* A snapshot whose token is the marker's shows every branch as it was on  *)
(* disk at the last bump, or newer, except one whose branch.json the scan  *)
(* could not read (branch-registry.ts list, performRegenerate).            *)
THEOREM SnapshotsAreFresh == Spec => []CurrentSnapshotIsFresh
<1>1. FreshnessInv => CurrentSnapshotIsFresh
  BY DEF FreshnessInv
<1>2. QED
  BY <1>1, FreshnessHolds, PTL

(* A listing not taken from another request's scan shows no branch older   *)
(* than at the last bump before it was asked for, or forced by get; it may *)
(* leave out one that could not be read.                                   *)
THEOREM ListingsAreFresh == Spec => []ListingIsFresh
<1>1. FreshnessInv => ListingIsFresh
  BY DEF FreshnessInv
<1>2. QED
  BY <1>1, FreshnessHolds, PTL

(* The eager scan of an invalidate never takes an older revision of its    *)
(* branch for the change it is for, though it may fail to read it.         *)
THEOREM EagerScansSeeChanges == Spec => []EagerScanSeesChange
<1>1. TypeOK /\ FreshnessInv => EagerScanSeesChange
  <2> SUFFICES ASSUME TypeOK, FreshnessInv, NEW c \in Caller,
                      request[c].op = "change", request[c].step = "wait",
                      scan[Uses[c]].seen[request[c].branch] \notin {Unread, Skipped}
               PROVE  scan[Uses[c]].seen[request[c].branch]
                        >= request[c].floor[request[c].branch]
    BY DEF EagerScanSeesChange
  <2>1. request[c].branch \in Branch
    BY DEF TypeOK, Requests
  <2>2. SeenNotOlder(Uses[c], request[c].floor)
    BY DEF FreshnessInv, WaitsInv
  <2>3. QED
    BY <2>1, <2>2 DEF SeenNotOlder
<1>2. QED
  BY <1>1, FreshnessHolds, PTL
=============================================================================
