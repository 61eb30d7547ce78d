SPECIFICATION Spec
CONSTANTS
  t1 = t1
  t2 = t2
  p1 = p1
  p2 = p2
  Login = {me}
  me = me
  Token = {t1, t2}
  Proc = {p1, p2}
  NoEntry = NoEntry
  NoToken = NoToken
  NoReq = NoReq
  Given = {}
  DefaultLifetime = 1
  MaxTime = 1
  Options <- MCOptions
  Reuse = FALSE
SYMMETRY KasSymmetry
PROPERTIES LiveSessionSurvives
