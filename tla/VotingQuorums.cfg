\* Four replicas of equal weight, one of them faulty; two views.
SPECIFICATION VotingSpec
CONSTANTS
    Replicas = {r1, r2, r3, r4}
    Faulty = {r4}
    Quorums = {{r1, r2, r3}, {r1, r2, r4}, {r1, r3, r4}, {r2, r3, r4}}
    Values = {v1, v2}
    MaxIndex = 0
    MaxNumber = 1
    None = None
SYMMETRY Symmetry
CHECK_DEADLOCK FALSE
INVARIANTS
    VotingInv
    Agreement
