\* One lane, three roads, no crash.
SPECIFICATION Spec
CONSTANTS
    Lanes = {l1}
    BlocksAt <- MCBlocksAt
    MaxBlock = 3
    MaxRoad = 2
    LaneNext <- MCLaneNext
    MaxLaneRangeInProposal = 1
    MaxCrashes = 0
CHECK_DEADLOCK FALSE
PROPERTIES
    BatchHasWork
