SPECIFICATION Spec
CONSTANTS
  Data <- MCData
  MaxSections = 2
  MaxContexts = 3
  HandlerLocks = TRUE
INVARIANTS
  SectionsAtomic
