SPECIFICATION FairSpec
CONSTANTS
  Procs = {p1, p2}
  MaxVersion = 3
  Asks = {NoAsk, 1, 2, BadAsk}
  NoAsk = NoAsk
  BadAsk = BadAsk
  EnvPrefix = 2
  TTLs = {0, 1, 2}
  FetchBound = 1
  AgeCap = 5
INVARIANTS
  TypeOK
  
PROPERTIES
  StalenessBounded
  CacheCatchesUp
