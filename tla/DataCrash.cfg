\* Two goroutines push; the process dies once and the application prunes.
SPECIFICATION Spec
CONSTANTS
    MaxBlock = 4
    FirstBlock = 1
    Chain <- MCChain
    LaneOf <- MCLaneOf
    blocksCacheSize = 2
    Pushers = {p1, p2}
    Prunes = TRUE
    MaxCrashes = 1
SYMMETRY Symmetry
INVARIANTS
    CursorChain
    MapsMatchCursors
    NeverHalts
    
    ReadsServed
    NextToExecuteExact
PROPERTY ExecutesInOrder
