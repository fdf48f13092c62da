SPECIFICATION MCSpec
CONSTANTS
  a = a
  b = b
  c = c
  p = p
  q = q
  s = s
  r1 = r1
  r2 = r2
  Refreshes <- MCRefreshes
  NoCategory = none
  Products <- MCProducts
  CategoryIds <- MCCategoryIds
  Trees <- MCTrees
  SeedFile <- MCSeedFile
  Accepted <- MCProducts
  PageSize = 1
  MaxPages = 2
  MaxStarts = 3
  MaxChanges = 1
  MaxFaults = 1
SYMMETRY MCSymmetry
CHECK_DEADLOCK FALSE
INVARIANTS
  CategoriesIInv
PROPERTIES
  StayingProductsKeepLinks
  QuietLeavesAreLinked
