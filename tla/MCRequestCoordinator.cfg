SPECIFICATION FairSpec
CONSTANTS
  c1 = c1
  c2 = c2
  Clients = {c1, c2}
  MaxConcurrency = 1
  RateTenths = 10
  Threshold = 2
  OpenSeconds = 2
  MaxAttempts = 2
  QueueFactor = 1
  MaxStall = 1
INVARIANTS
  RequestIInv
  PauseComesInTime
PROPERTIES
  RefusedOnlyInACrowd
  CallsEnd
