SPECIFICATION Spec
CONSTANTS
  p1 = p1
  p2 = p2
  w1 = w1
  w2 = w2
  Proc = {p1, p2}
  Profile = {main, work}
  Account = {w1, w2}
  None = None
  Missing = Missing
  Partial = Partial
SYMMETRY ConfigSymmetry
INVARIANTS TypeOK
PROPERTIES StaysUsable BrokenFileIsKept ProfilesAreKept DefaultIsKept SwitchDropsSession
