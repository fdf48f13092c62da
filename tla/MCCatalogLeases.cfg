SPECIFICATION FairSpec
CONSTANTS
  c1 = c1
  c2 = c2
  l1 = l1
  p1 = p1
  p2 = p2
  Collectors = {c1, c2}
  Products = {l1, p1, p2}
  Listings = {l1}
  Url <- OneUrl
  Limit = 2
  Vanishing = {p1}
  MaxFaults = 1
INVARIANTS
  LeaseIInv
  WorkIsExclusive
PROPERTIES
  EveryRowHasItsTurn
  CollectionsKeepContract
