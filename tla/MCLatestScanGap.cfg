\* Cohorts at any time, so that scan follows scan.
CONSTANTS
  early = early
  late = late
  Component <- TwoComponents
  Due <- Always
  Deadline <- NoDeadline
  Until <- Once
  PageAttempts = 2
  MaxRetries = 1
  MaxTime = 0
  MaxPosts = 3
  MaxDeleted = 1
  MaxScans = 4
  MaxSlices = 1
  MaxVersion = 9
SYMMETRY Symmetry
SPECIFICATION Spec
CHECK_DEADLOCK FALSE
INVARIANTS
  SliceMatchesScan
  NoGap
