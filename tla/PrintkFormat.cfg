SPECIFICATION Spec
CONSTANTS
  Char <- MCChar
  Directives <- MCDirectives
  IntMod = 64
  LongMod = 1024
  LLBits = 10
  PtrWidth = 3
INVARIANTS
  TypeOK
  FormatsAsISO
  NewlinesReturn
PROPERTIES
  PrintkReturns
