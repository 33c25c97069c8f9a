\* The lane of this node only, two roads, one crash.
SPECIFICATION ProducerSpec
CONSTANTS
    Lanes = {l1}
    Self = l1
    BlocksAt <- MCBlocksAt
    MaxBlock = 1
    MaxRoad = 1
    LaneNext <- MCLaneNext
    MaxLaneRangeInProposal = 1
    MaxCrashes = 1
CHECK_DEADLOCK FALSE
INVARIANTS
    LaneInSync
