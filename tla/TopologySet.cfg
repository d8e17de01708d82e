CONSTANTS
  Bits = 3
  MaxEdges = 1
  Me = 4
  Others = {3, 6}
  Near = {6}
  Restarting = {3}
  HalfSpace = 4
  FirstAnsn = 7
  MaxChanges = 1
  None = None
SPECIFICATION Spec
INVARIANT NoDanglingEdge
INVARIANT EdgesHaveReason
INVARIANT RealEdgesExpire
INVARIANT EdgesAsAnnounced
PROPERTY ChangesSignalled
