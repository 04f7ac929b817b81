CONSTANTS
  None = None
  Policies <- OnePolicy
  Rollouts <- BothModes
  FirstSeen = 50
  Official = FALSE
  Growths = {0, 7000}
  Events = {FALSE}
  Frontiers = {TRUE}
  Joins = {TRUE, FALSE}
  Worked <- Checkpoints
  Outcomes = {"running", "complete"}
  Instants <- MCInstants
  LastChange = 0
SPECIFICATION Spec
CHECK_DEADLOCK FALSE
INVARIANTS
  GapsExclusive
PROPERTIES
  ClosedStays
  RecoveryExact
  DueInTime
