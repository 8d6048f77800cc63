SPECIFICATION Spec
CHECK_DEADLOCK FALSE
CONSTANTS
  ShdrAlign = 4
  XIndex = 100
  MaxSections = 100
  MaxPhdrs = 10
  MaxInt = 100
  Inputs <- MCInputs
  BundleLens = {2, 3}
  MaxAttempts = 3
  MaxSigns = 2
  Kinds = {"text", "bss", "comment", "rela", "symtab", "strtab", "huge", "sig"}
  MaxKinds = 3
  Tables = {"end", "middle"}
  Firsts = {"null", "none"}
  Orders = {"up", "down"}
  Extended = FALSE
INVARIANTS
  SignedVerifies
  Stabilizes
  ContentKept
  LinksKept
  LayoutSound
  ResignIdempotent
  FailureKeepsInput
  AbandonedLoads
