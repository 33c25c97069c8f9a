\* One goroutine pushes; the process dies twice; the smallest cache that works.
SPECIFICATION FairSpec
CONSTANTS
    MaxBlock = 4
    FirstBlock = 1
    Chain <- MCChain
    LaneOf <- MCLaneOf
    blocksCacheSize = 2
    Pushers = {p1}
    Prunes = FALSE
    MaxCrashes = 2
PROPERTY EverythingReported
