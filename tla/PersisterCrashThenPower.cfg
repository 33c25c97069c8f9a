\* The process dies once and the machine loses power once.
SPECIFICATION Spec
CONSTANTS
    Data = {d1, d2}
    None = None
    Empty = Empty
    Corrupt = Corrupt
    MaxSeq = 3
    MaxCrashes = 1
    MaxPowerLosses = 1
    PowerAfterCrash = TRUE
CHECK_DEADLOCK FALSE
INVARIANTS
    AckedSurvives
