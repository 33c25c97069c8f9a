\* One lane, three roads, block numbers 0 to 3, one crash.
SPECIFICATION FairSpec
CONSTANTS
    Lanes = {l1}
    BlocksAt <- MCBlocksAt
    MaxBlock = 3
    MaxRoad = 2
    LaneNext <- MCLaneNext
    MaxLaneRangeInProposal = 1
    MaxCrashes = 1
CHECK_DEADLOCK FALSE
INVARIANTS
    RestartSucceeds
    NeverStops
    VotesDurable
    NoVoteEquivocation
PROPERTIES
    PublishedSurvives
    PersistCatchesUp
