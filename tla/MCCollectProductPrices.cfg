SPECIFICATION CollectFairSpec
CONSTANTS
  l1 = l1
  p1 = p1
  p2 = p2
  Items <- MixedItems
  Seeds <- MixedSeeds
  Listings = {l1}
  MaxAttempts = 1
  BatchSize = 2
  MaxConcurrency = 2
  MaxFaults = 2
  DeadThresholdPercent = 40
INVARIANTS
  CollectIInv
  OkRunIsComplete
  RunsAreClosed
  ProductLeasesAreReturned
PROPERTIES
  CollectEnds
  KeepsLeaseContract
