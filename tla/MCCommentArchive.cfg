CONSTANTS
  Comment = {1, 2}
  NoComment = 0
  Worker = {w1, w2}
  MaxRuns = 3
  MaxChanges = 3

SPECIFICATION FairSpec
CHECK_DEADLOCK FALSE

INVARIANTS
  ChainUnforked
  SeenAgain
  RepliesFollow

PROPERTY
  Ends
