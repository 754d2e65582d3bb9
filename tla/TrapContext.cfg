SPECIFICATION Spec
CONSTANTS
  Data <- MCData
  MaxSections = 1
  MaxContexts = 3
  HandlerLocks = FALSE
INVARIANTS
  TypeOK
  SectionsAtomic
  StackBalanced
PROPERTIES
  Transparent
  PanicHalts
  InterruptsEnd
