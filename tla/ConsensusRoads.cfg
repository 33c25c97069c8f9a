\* Replica r1 has weight 3 and the faulty r4 weight 1, so r1 alone is a quorum;
\* two road indices of two views each, two crashes.
SPECIFICATION Spec
CONSTANTS
    Replicas = {r1, r4}
    Faulty = {r4}
    Quorums = {{r1}, {r1, r4}}
    Values = {v1, v2}
    Leader <- MCLeader
    FirstLeader = r4
    NextLeader = r1
    MaxIndex = 1
    MaxNumber = 1
    MaxCrashes = 2
    None = None
SYMMETRY Symmetry
CHECK_DEADLOCK FALSE
INVARIANTS
    ReplicaInv
    RestartSucceeds
PROPERTIES
    DiskMonotone
    VotingSpec
    RoadSpec
