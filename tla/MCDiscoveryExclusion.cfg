\* Two workers; the operator takes a video out of the event.
CONSTANTS
  bv = bv
  uid = uid
  w1 = w1
  w2 = w2
  Video <- MCVideo
  Mid <- MCMid
  Configured <- MCMid
  Looped <- MCMid
  Author <- MCAuthor
  Worker <- MCWorker
  MaxRetries = 0
  Copies = 1
  MaxSlot = 2
  MaxTurns = 1
SPECIFICATION Spec
CHECK_DEADLOCK FALSE
PROPERTIES
  ExcludedStays
