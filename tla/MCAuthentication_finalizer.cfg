CONSTANTS
    UpdateFails = TRUE
    MaxLives = 1
    MaxGen = 1
    MaxFaults = 1
SPECIFICATION FairSpec
PROPERTY DeletionCompletes
CHECK_DEADLOCK FALSE
