SPECIFICATION FairSpec
CONSTANTS
  w1 = w1
  w2 = w2
  Worker = {w1, w2}
  NoOne = NoOne
  MaxMishaps = 2
INVARIANTS
  TypeOK
  WorkHasTheLease
  LastStopIsTold
PROPERTIES
  OverlapEnds
  QueueIsServed
CHECK_DEADLOCK FALSE
