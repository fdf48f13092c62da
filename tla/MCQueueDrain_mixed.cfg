SPECIFICATION MCSpec
CONSTANTS
  l1 = l1
  p1 = p1
  p2 = p2
  Items <- MixedItems
  Seeds <- MixedSeeds
  Listings <- MixedListings
  MaxAttempts = 2
  BatchSize = 2
  MaxConcurrency = 2
  MaxFaults = 1
  LongMax = 40
  ShiftCap = 5
  MaxTries = 5
  MaxNumber = 12
  MaxErrors = 7
INVARIANTS
  IInv
  HandlerOwnsRow
PROPERTIES
  ImplementsContract
  DelaysGrowToTheirCap
