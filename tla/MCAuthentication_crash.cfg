CONSTANTS
    UpdateFails = FALSE
    MaxLives = 1
    MaxGen = 2
    MaxFaults = 2
SPECIFICATION FairSpec
INVARIANTS TypeOK CacheHonest
PROPERTIES EditsKept EventuallyMarked DeletionCompletes
CHECK_DEADLOCK FALSE
