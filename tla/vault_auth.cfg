SPECIFICATION Spec
CONSTANTS
  Procs = {p1, p2}
  Tokens = {t1, t2, t3}
  NoToken = NoToken
  HostToken = HostToken
  Torn = Torn
  NoProc = NoProc
  TTLs = {0, 5}
  Margin = 3
  ReplyBound = 1
  UseBound = 1
  MaxTime = 5
SYMMETRY Symmetry
INVARIANTS
  TypeOK
  CredentialConsistent
  ExpiredTokenNotReused
  OperationTokenLive
  RequestProvenance
PROPERTIES
  KeepsPromise
