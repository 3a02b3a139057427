SPECIFICATION FairSpec
CONSTANTS
  s1 = s1
  s2 = s2
  c1 = c1
  d1 = d1
  h1 = h1
  Husk = {h1}
  Saver = {s1, s2}
  Creator = {c1}
  Deleter = {d1}
  Worker = Worker
  First = First
  NoOne = NoOne
  Left = Left
  NoTree = NoTree
  NoJson = NoJson
  MaxAttempts = 2
  MaxMishaps = 1
INVARIANTS
  TypeOK
  UpdatesSurvive
  NothingHalfMade
  LiveBranchesStay
PROPERTIES
  ImplementsRecord
  NothingIsLeftBehind
CHECK_DEADLOCK FALSE
