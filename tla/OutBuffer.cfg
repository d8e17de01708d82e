CONSTANTS
  Ifaces = {wlan, eth}
  Ether = {eth}
  Mtus = {3, 4}
  Sizes = {2, 3, 5}
  MaxMsgs = 3
SPECIFICATION Spec
INVARIANT BufferExact
INVARIANT OrderKept
PROPERTY DropsOnlyOversized
PROPERTY BufferDrains
