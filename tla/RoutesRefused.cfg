SPECIFICATION MCSpec
CONSTANTS
  NodeCount = 2
  Nets = {net}
  Inet = None
  None = None
  h1 = h1
  h2 = h2
  Hops = {h1, h2}
  Reaches <- MCReaches
  LqNatThresh = 750
  MaxFailureCount = 2
  MaxErrors = 2
CHECK_DEADLOCK FALSE
PROPERTY FibAgrees
