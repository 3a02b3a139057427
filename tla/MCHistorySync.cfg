SPECIFICATION FairSpec
CONSTANTS
  Edit = {e1}
  Direct = {d1}
  Base = Base
  Merge = Merge
  MaxBase = 1
  MaxMerges = 2
  MaxSubmits = 1
  MaxMishaps = 1
INVARIANTS TypeOK
PROPERTIES DirectPushesSurvive WorkIsKept RewriteIsPublished DirectPushesReachClone
CHECK_DEADLOCK FALSE
