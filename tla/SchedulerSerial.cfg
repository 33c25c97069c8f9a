\* Every block of three of five transactions, with and without the synchronous rounds.
SPECIFICATION FairSpec
CONSTANTS
    Keys = {1, 2}
    Blocks <- MCBlocks
    Stores <- MCStores
    Workers = 3
    IterationLimits = {1, 10}
CHECK_DEADLOCK FALSE
INVARIANTS
    RoundBound
    OneSynchronousRound
    EstimatesOwned
PROPERTIES
    
    Terminates
