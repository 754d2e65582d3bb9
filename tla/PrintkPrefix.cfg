SPECIFICATION Spec
CONSTANTS
  Char <- MCChar
  Directives <- MCTest
  IntMod = 256
  LongMod = 1024
  LLBits = 10
  PtrWidth = 3
INVARIANTS
  AltFormAttached
