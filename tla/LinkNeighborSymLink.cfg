CONSTANTS
  i1 = i1
  i2 = i2
  a1 = a1
  a2 = a2
  b1 = b1
  A = A
  B = B
  C = C
  None = None
  Ifaces = {i1}
  Remotes = {a1}
  Nodes = {A}
  Others = {}
  Local <- OneLocal
  Main <- OneMain
  Statuses = {"UNSPEC", "SYM"}
  Wills = {"WILL_DEFAULT"}
SPECIFICATION MCSpec
INVARIANT SymHasLink
