SPECIFICATION FairSpec
CONSTANTS
  a1 = a1
  a2 = a2
  b1 = b1
  instanceA = instanceA
  instanceB = instanceB
  Branch = {main}
  Instance = {instanceA, instanceB}
  Caller = {a1, a2, b1}
  Uses <- TwoProcesses
  NoSnapshot = NoSnapshot
  Unread = Unread
  Skipped = Skipped
  Unknown = Unknown
  MaxChanges = 1
  MaxFailures = 1
INVARIANTS
  TypeOK
  CurrentSnapshotIsFresh
  ListingIsFresh
  EagerScanSeesChange
PROPERTY
  SnapshotHeals
