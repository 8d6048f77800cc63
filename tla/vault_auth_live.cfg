SPECIFICATION FairSpec
CONSTANTS
  Procs = {p1, p2}
  Tokens = {t1, t2}
  NoToken = NoToken
  HostToken = HostToken
  Torn = Torn
  NoProc = NoProc
  TTLs = {3}
  Margin = 1
  ReplyBound = 1
  UseBound = 0
  MaxTime = 3
PROPERTIES
  OperationEnds
