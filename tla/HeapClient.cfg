SPECIFICATION Spec
CONSTANTS
  HeapBytes = 100
  HeadCells = 2
  SizeMod = 65536
  Requests = {5}
  Resizes = {0, 32}
  Counts = {2, 13108}
  Data <- MCData
  GapRealloc = FALSE
  BadFrees = FALSE
INVARIANTS
  TypeOK
  IInv
  NoLeak
  CapacityHonoured
  NeverPanics
  CopyInBounds
PROPERTIES
  Implements
