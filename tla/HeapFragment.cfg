SPECIFICATION Spec
CONSTANTS
  HeapBytes = 156
  HeadCells = 3
  SizeMod = 65536
  Requests = {5, 24}
  Resizes = {}
  Counts = {}
  Data = {}
  GapRealloc = FALSE
  BadFrees = TRUE
INVARIANTS
  HeapIntact
  Unified
  FreeMemoryExact
PROPERTIES
  CallsReturn
  DoubleFreeCaught
