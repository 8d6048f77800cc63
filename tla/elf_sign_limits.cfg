SPECIFICATION Spec
CHECK_DEADLOCK FALSE
CONSTANTS
  ShdrAlign = 4
  XIndex = 5
  MaxSections = 6
  MaxPhdrs = 10
  MaxInt = 100
  Inputs <- MCInputs
  BundleLens = {2, 3}
  MaxAttempts = 1
  MaxSigns = 2
  Kinds = {"text", "bss", "comment", "symtab", "bsign", "sig"}
  MaxKinds = 4
  Tables = {"end"}
  Firsts = {"null", "none"}
  Orders = {"up"}
  Extended = TRUE
INVARIANTS
  EmbeddedParses
  TypeOK
  Stabilizes
  LayoutSound
