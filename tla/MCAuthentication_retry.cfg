CONSTANTS
    UpdateFails = TRUE
    MaxLives = 1
    MaxGen = 2
    MaxFaults = 2
SPECIFICATION FairSpec
PROPERTY EventuallyMarked
CHECK_DEADLOCK FALSE
