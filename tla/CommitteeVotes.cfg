\* Every map of four keys to weights from 0 to 5, in every order of iteration;
\* votes of three views for each committee that this makes.
SPECIFICATION Spec
CONSTANTS
    Keys = {1, 2, 3, 4}
    MaxUint = 5
    MaxValidators = 3
    MaxView = 2
    Values = {v1, v2}
    None = None
CHECK_DEADLOCK FALSE
INVARIANTS
    AcceptedIffFits
    QuorumsShareHonest
    LeadersByWeight
    GroupsMatchVotes
    QCVerifies
    NoMissedQC
