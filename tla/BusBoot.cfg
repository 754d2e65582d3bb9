SPECIFICATION Spec
CONSTANTS
  Drivers <- BothDrivers
  Trees <- MCTrees
  NodeKinds <- MCNodes
  MaxNodes = 3
INVARIANTS
  TypeOK
  BusMirrorsTree
  NoProbeLeaks
  FirstDriverWins
  ConsoleUsable
  ChosenConsole
PROPERTIES
  BootEnds
