\* A routine cohort and a recovery that overlaps it; any failure.
CONSTANTS
  early = early
  late = late
  Component <- TwoComponents
  Due <- MCDue
  Deadline <- MCDeadline
  Until <- MCUntil
  PageAttempts = 1
  MaxRetries = 1
  MaxTime = 4
  MaxPosts = 2
  MaxDeleted = 0
  MaxScans = 3
  MaxSlices = 1
  MaxVersion = 7
SPECIFICATION FairSpec
CHECK_DEADLOCK FALSE
INVARIANTS
  TypeOK
  OwnershipExact
  PartialMeansNoCapture
PROPERTIES
  ConsumersSettle
