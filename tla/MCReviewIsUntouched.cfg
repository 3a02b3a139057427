SPECIFICATION Spec
CONSTANTS
  Save = {s1}
  Submit = {b1}
  Worker = Worker
  Free = Free
  MaxBase = 1
  MaxRounds = 2
  MaxMishaps = 0
  MaxTakeovers = 0
PROPERTY
  ReviewIsUntouched
