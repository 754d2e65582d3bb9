CONSTANTS
    PhandleMod = 16
    BufSize = 640
    Rooms = {0, 40, 80, 120, 160, 200, 400}
    Bases = {"base", "unlabelled", "high"}
    Overlays = {"add", "rename", "stack", "two", "again", "dangling", "adrift"}
    Writing <- MCWriting
    Intent <- MCIntent
SPECIFICATION Spec
INVARIANTS
    OnlyWholeOverlays
    ReferencesHold
    SymbolsResolve
PROPERTIES
    PhandlesKept
