SPECIFICATION Spec
CONSTANTS
  HeapBytes = 92
  HeadCells = 2
  SizeMod = 65536
  Requests = {5, 65535}
  Resizes = {}
  Counts = {}
  Data = {}
  GapRealloc = FALSE
  BadFrees = FALSE
INVARIANTS
  RoundedUp
