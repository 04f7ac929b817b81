\* No run outlasts the lease; kills, failures and a changed configuration.
CONSTANTS
  uid = uid
  sweep = sweep
  c1 = c1
  c2 = c2
  NoJob = NoJob
  NoOwner = NoOwner
  Job <- MCJob
  Coordinator <- MCCoordinator
  Deployment <- MCDeployment
  PriorityOf <- MCPriority
  LeaseSeconds = 3
  RetryDelay = 2
  MaxHandle = 2
  MaxTime = 7
  MaxFailures = 1
  MaxCrashes = 1
SYMMETRY Symmetry
SPECIFICATION WatchedSpec
CHECK_DEADLOCK FALSE
INVARIANTS
  OneHandler
  SlotOnce
  PunctualIfPrompt
PROPERTIES
  SkipsOnlyMissedSlots
