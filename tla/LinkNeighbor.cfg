CONSTANTS
  i1 = i1
  i2 = i2
  a1 = a1
  a2 = a2
  b1 = b1
  A = A
  B = B
  C = C
  None = None
  Ifaces = {i1, i2}
  Remotes = {a1, a2, b1}
  Nodes = {A, B}
  Others = {B, C}
  Local <- MCLocal
  Main <- MCMain
  Statuses = {"UNSPEC", "SYM", "LOST"}
  Wills = {"WILL_NEVER", "WILL_DEFAULT"}
SPECIFICATION MCSpec
INVARIANT CountsExact
INVARIANT NeighborsSeen
PROPERTY TwoHopExact
