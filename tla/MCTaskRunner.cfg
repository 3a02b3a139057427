SPECIFICATION FairSpec
CONSTANTS
  Task <- Tasks2
  MaxRetries = 1
  NoFile = NoFile
  Unreadable = Unreadable
  Admin = {a1}
  NoTask = NoTask
  MaxTasksPerCycle = 1
  MaxDisruptions = 1
  MaxDamage = 1
INVARIANTS
  TypeOK
  RunsAreUnfinished
  RetryBudget
  RecordedIsFinished
PROPERTIES
  ImplementsLedger
  EveryTaskSettles
CHECK_DEADLOCK FALSE
