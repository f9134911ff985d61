SPECIFICATION FairSpec
CONSTANTS
  d1 = d1
  d2 = d2
  w1 = w1
  w2 = w2
  e1 = e1
  Delivery <- TwoDeliveries
  Worker <- TwoWorkers
  Engine <- OneEngine
  EngineOf <- SameEngine
  MaxAttempts = 2
  LeaseTime = 2
  Threshold = 2
  Cooldown = 1
  Slots = 1
  MaxReplays = 1
  MaxFaults = 1
  Late = FALSE
INVARIANT AttemptsBounded
PROPERTIES ImplementsOutbox Settles
CHECK_DEADLOCK FALSE
