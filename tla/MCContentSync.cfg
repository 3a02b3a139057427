SPECIFICATION FairSpec
CONSTANTS
  Save = {s1}
  Submit = {b1}
  Worker = Worker
  Free = Free
  MaxBase = 1
  MaxRounds = 2
  MaxMishaps = 2
  MaxTakeovers = 1
INVARIANTS
  TypeOK
  SavesSurvive
  NeverWedged
PROPERTY WedgeHeals
