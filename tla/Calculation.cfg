CONSTANTS
  Nbrs = {1, 2}
  TwoHops = {x, y}
  Costs = {1, 2}
  DirectCosts = {2}
  Coverages = {1, 2}
  None = None
  LinkBroken = 5
  RouteBroken = 25
  Nodes = {me, a, b, c}
  Me = me
  EdgeCosts = {1, 3}
  NoLink = NoLink
SPECIFICATION MCSpec
SYMMETRY MCSymmetry
INVARIANT Covered
INVARIANT BestPathCovered
INVARIANT ShortestPaths
INVARIANT NextHopOnPath
PROPERTY Settled
