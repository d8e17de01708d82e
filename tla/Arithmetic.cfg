CONSTANTS
  HalfWord = 16
  MsPerSec = 4
  UsecPerMs = 3
  MaxGap = 2
  WallTimes <- MCWallTimes
  Intervals <- MCIntervals
  Bits = 4
  MaxEdges = 2
  MaxNbrs = 4
SPECIFICATION MCSpec
INVARIANT ClockAccurate
INVARIANT IsPastExact
INVARIANT CodeClose
INVARIANT BordersSeparate
INVARIANT BordersCover
PROPERTY ClockAdvances
