\* Liveness, without tasks of cohorts.
CONSTANTS
  t1 = t1
  t2 = t2
  t3 = t3
  w1 = w1
  w2 = w2
  video = video
  reply = reply
  info = info
  NoTask = NoTask
  NoKey = NoKey
  Task <- MCTask
  Worker <- MCWorker
  Key <- MCKey
  HandledKey <- MCHandled
  LinkedKey <- MCUnlinked
  PriorityOf <- MCPriority
  MaxRetries = 1
  LeaseSeconds = 1
  MaxDelay = 0
  MaxCrashes = 1
  MaxResets = 0
SPECIFICATION FairSpec

PROPERTIES
  EveryTaskSettles
