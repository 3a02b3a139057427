SPECIFICATION FairSpec
CONSTANTS
  u1 = u1
  u2 = u2
  User = {u1, u2}
  MaxSubmits = 2
  MaxReviews = 1
  MaxRetries = 1
  MaxEnded = 1
  MaxMishaps = 1
  NoTask = NoTask
  NoAnswer = NoAnswer
INVARIANTS
  TypeOK
  OwedIsTold
  WithdrawnStaysDraft
PROPERTIES
  LatestSubmitStands
  PendingEnds
CHECK_DEADLOCK FALSE
