\* Two workers and the planner on a cohort of metrics and a hot list.
CONSTANTS
  None = None
  Worker = {w1, w2}
  Planner = Planner
  Component <- TwoComponents
  Hot = {2}
  Pages = 3
  SlicePages = 2
  MaxRetries = 1
  MaxCrashes = 1
  MaxPlans = 1
SPECIFICATION FairSpec
CHECK_DEADLOCK FALSE
INVARIANTS
  StatusTells
  OneTaskWaits
  PagesWithoutHole
  SlicesCounted
PROPERTIES
  WrittenOffRests
  Settles
