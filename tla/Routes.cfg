SPECIFICATION MCFairSpec
\* The daemon stops.
CHECK_DEADLOCK FALSE
CONSTANTS
  NodeCount = 2
  Nets = {net, inet}
  Inet = inet
  None = None
  h1 = h1
  h2 = h2
  Hops = {h1, h2}
  Reaches <- MCReaches
  LqNatThresh = 750
  MaxFailureCount = 2
  MaxErrors = 1
INVARIANT BestRoutes
INVARIANT FibFollows
INVARIANT LocksExact
PROPERTY GatewaySticks
PROPERTY RoutesCatchUp
