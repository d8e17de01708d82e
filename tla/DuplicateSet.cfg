CONSTANTS
  HalfSpace = 8
  WindowBits = 4
  TooLowMax = 2
  Keys = {k1}
  NoEntry = NoEntry
  NoSeqNo = NoSeqNo
SPECIFICATION Spec
INVARIANT TypeOK
INVARIANT BitmapExact
PROPERTY NoReplay
PROPERTY NewestNeverBack
