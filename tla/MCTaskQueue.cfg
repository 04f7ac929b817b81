\* Safety: three rows, two workers, a key of each sort.
CONSTANTS
  t1 = t1
  t2 = t2
  t3 = t3
  w1 = w1
  w2 = w2
  video = video
  reply = reply
  info = info
  NoTask = NoTask
  NoKey = NoKey
  Task <- MCTask
  Worker <- MCWorker
  Key <- MCKey
  HandledKey <- MCHandled
  LinkedKey <- MCLinked
  PriorityOf <- MCPriority
  MaxRetries = 1
  LeaseSeconds = 1
  MaxDelay = 1
  MaxCrashes = 1
  MaxResets = 1
SYMMETRY Symmetry
SPECIFICATION Spec
INVARIANTS
  TypeOK
  ExclusiveKeys
  UniqueActiveKey
  AnswerStaysActive
  RetryBudget
PROPERTIES
  LifecycleRefined
