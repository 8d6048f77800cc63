SPECIFICATION Spec
CONSTANTS
  Procs = {p1, p2}
  Tokens = {t1, t2}
  NoToken = NoToken
  HostToken = HostToken
  Torn = Torn
  NoProc = NoProc
  TTLs = {5}
  Margin = 1
  ReplyBound = 3
  UseBound = 0
  MaxTime = 8
SYMMETRY Symmetry
INVARIANTS
  ExpiredTokenNotReused
