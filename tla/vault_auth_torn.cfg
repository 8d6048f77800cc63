SPECIFICATION Spec
CONSTANTS
  Procs = {p1, p2}
  Tokens = {t1, t2}
  NoToken = NoToken
  HostToken = HostToken
  Torn = Torn
  NoProc = NoProc
  TTLs = {5}
  Margin = 3
  ReplyBound = 1
  UseBound = 1
  MaxTime = 6
SYMMETRY Symmetry
INVARIANTS
  NoTornToken
