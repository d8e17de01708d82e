CONSTANTS
  Timers = {t1, t2}
  Infos = {oneshot, periodic}
  Periodic = {periodic}
  HalfWord = 9
  Slots = 2
  MaxRel = 3
  MaxGap = 3
  Free = Free
  NoTimer = NoTimer
SPECIFICATION Spec
INVARIANT WheelExact
INVARIANT CallbackEntryLives
INVARIANT LateByOneTurn
PROPERTY NeverEarly
PROPERTY WalkComplete
PROPERTY WalkEnds
