CONSTANTS
  w1 = w1
  w2 = w2
  Kinds <- MCKinds
  WirePrios <- MCWirePrios
  External <- MCExternal
  FollowUps <- MCFollowUps
  Workers <- MCWorkers2
  MaxJobs = 5
  QueueBound = 5
SPECIFICATION Spec
CHECK_DEADLOCK FALSE
PROPERTY TakeInTableOrder
