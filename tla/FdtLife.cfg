CONSTANTS
    PhandleMod = 16
    BufSize = 200
    Grants = {68, 100, 200}
    Flags = {0, 1, 2}
    NodeNames <- MCNodeNames
    Props <- MCProps
    Ranges <- MCRanges
    Budget = 3
SPECIFICATION Spec
CHECK_DEADLOCK FALSE
INVARIANTS
    WritesInBuffer
    LayoutSound
    SoundWhenBalanced
    NavigationAgrees
    LookupsAgree
    FailuresLeaveNoTrace
PROPERTIES
    Implements
