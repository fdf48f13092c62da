SPECIFICATION Spec
CONSTANTS
  r1 = r1
  r2 = r2
  p1 = p1
  p2 = p2
  NoRefresh = NoRefresh
  Refreshes = {r1, r2}
  Products = {p1, p2}
  Timeout = 1
  Grace = 2
  MinimumExpected = 1
  RatioPercent = 50
  MaxTime = 1
  MaxFaults = 0
SYMMETRY Symmetry
INVARIANTS
  FailedRefreshIsFinalized
