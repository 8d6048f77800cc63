SPECIFICATION FairSpec
CONSTANTS
  Layers = {l1, l2}
  NoFile = NoFile
  Partial = Partial
  Blank = Blank
INVARIANTS
  TypeOK
  HashOfWholeLayer
  NothingLeftBehind
  TreeOfImage
  PartialImageReported
PROPERTIES
  CancellationEnds
