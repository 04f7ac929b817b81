\* A video of one uid, a worker and the loop, and one turn of any sort.
CONSTANTS
  bv = bv
  uid = uid
  w1 = w1
  w2 = w2
  Video <- MCVideo
  Mid <- MCMid
  Configured <- MCMid
  Looped <- MCMid
  Author <- MCAuthor
  Worker <- OneWorker
  MaxRetries = 1
  Copies = 1
  MaxSlot = 2
  MaxTurns = 1
SPECIFICATION FairSpec
CHECK_DEADLOCK FALSE
PROPERTIES
  Found
  FirstOnce
  Measured
