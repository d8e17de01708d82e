SPECIFICATION Spec
\* The flood ends.
CHECK_DEADLOCK FALSE
CONSTANTS
  HalfSpace = 8
  WindowBits = 4
  TooLowMax = 2
  NodeCount = 6
  Networks <- MCNetworks
  Ttls = {2, 6}
  FirstSeqNo = 15
  MaxMessages = 2
  NoEntry = NoEntry
INVARIANT Flooded
INVARIANT AtMostTwice
