SPECIFICATION Spec
CONSTANTS
  u1 = u1
  u2 = u2
  User = {u1, u2}
  MaxSubmits = 2
  MaxReviews = 1
  MaxRetries = 1
  MaxEnded = 1
  MaxMishaps = 1
  NoTask = NoTask
  NoAnswer = NoAnswer
INVARIANT
  WithdrawnIsDraft
CHECK_DEADLOCK FALSE
