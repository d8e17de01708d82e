CONSTANTS
  Nbrs = {1, 2}
  TwoHops = {x, y}
  Costs = {1, 2, 3}
  DirectCosts = {2}
  LinkBroken = 5
  RouteBroken = 20
  Coverages = {1, 2}
  None = None
SPECIFICATION Spec
INVARIANT AlwaysIsMpr
