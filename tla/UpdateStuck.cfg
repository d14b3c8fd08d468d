SPECIFICATION UpdateSpec
CONSTANTS
    Files <- TwoFiles
    LateFaults = TRUE
    MaxRelease = 2
    MaxAccepted = 1
    MaxFaults = 2
PROPERTY Recovers
CHECK_DEADLOCK FALSE
