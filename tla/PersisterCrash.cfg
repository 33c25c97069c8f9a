\* The machine loses power up to twice, then processes die up to twice.
SPECIFICATION Spec
CONSTANTS
    Data = {d1, d2}
    None = None
    Empty = Empty
    Corrupt = Corrupt
    MaxSeq = 5
    MaxCrashes = 2
    MaxPowerLosses = 2
    PowerAfterCrash = FALSE
CHECK_DEADLOCK FALSE
INVARIANTS
    PersisterInv
    AckedSurvives
PROPERTIES
    RegisterSpec
