SPECIFICATION Spec
CONSTANTS
  t1 = t1
  t2 = t2
  p1 = p1
  p2 = p2
  Login = {alice, bob}
  Token = {t1, t2}
  Proc = {p1, p2}
  NoEntry = NoEntry
  NoReq = NoReq
  NoProc = NoProc
  DefaultLifetime = 2
  MaxTime = 1
  Given <- MCGiven
SYMMETRY ProcSymmetry
INVARIANTS TypeOK MutualExclusion ReadIsFresh RefreshIsCurrent LoadDropsOnlyExpired NoEmptyFile
PROPERTIES OnlyOwnEntryChanges CorruptFileIsKept AbstractSpec
