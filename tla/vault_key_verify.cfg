SPECIFICATION Spec
CONSTANTS
  Procs = {p1}
  MaxVersion = 2
  Asks = {NoAsk}
  NoAsk = NoAsk
  BadAsk = BadAsk
  EnvPrefix = 0
  TTLs = {1}
  FetchBound = 1
  AgeCap = 3
INVARIANTS
  OwnSignatureVerifies
