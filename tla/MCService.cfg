SPECIFICATION Spec
CONSTANTS
  Instance = {"host"}
  Roles <- MCRoles
  Loads <- MCLoads
  FirstLoad <- MCLoaded
  Grace = 1
  Interval = 1
  Timeout = 0
  Finite = TRUE
  MaxFaults = 1
  Jobs = {"job"}
  Pending = 2
  Oldest = 2
  MinPages = 4
  Failures = 1
  Rate = 25
  Repeat = 1
  MaxChanges = 2
INVARIANTS RestsWhenDone CleanStop
PROPERTIES Ends AlertsConverge
