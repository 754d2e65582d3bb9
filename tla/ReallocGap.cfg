SPECIFICATION Spec
CONSTANTS
  HeapBytes = 92
  HeadCells = 2
  SizeMod = 65536
  Requests = {5}
  Resizes = {16}
  Counts = {}
  Data = {}
  GapRealloc = TRUE
  BadFrees = FALSE
INVARIANTS
  CapacityHonoured
