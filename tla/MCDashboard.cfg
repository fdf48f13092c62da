SPECIFICATION FairSpec
CONSTANTS
  n1 = n1
  n2 = n2
  s1 = s1
  s2 = s2
  s3 = s3
  NoNode = NoNode
  Idle = Idle
  NoSnapshot = NoSnapshot
  Nodes = {n1, n2}
  Snapshots = {s1, s2, s3}
  Lists <- MCLists
  MaxGestures = 5
CHECK_DEADLOCK FALSE
INVARIANTS
  DashboardIInv
  LiveResultIsCompared
  GridFollowsTheTree
PROPERTY
  LoadingEnds
