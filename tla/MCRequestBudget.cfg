\* Transactions that wait for their locks for up to a unit of time.
CONSTANTS
  global = global
  video = video
  p1 = p1
  p2 = p2
  NoRule = NoRule
  NoBucket = NoBucket
  Nobody = Nobody
  Key <- MCKey
  Order <- MCOrder
  Process <- MCProcess
  Request <- MCRequest
  Config <- MCConfig
  Rule <- MCRule
  Unit = 2
  MaxLag = 1
  MaxAge = 5
SPECIFICATION FairSpec
PROPERTIES
  BudgetShared
  SomebodyServed
