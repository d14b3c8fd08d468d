SPECIFICATION UpdateSpec
CONSTANTS
    Files <- TwoFiles
    LateFaults = FALSE
    MaxRelease = 3
    MaxAccepted = 2
    MaxFaults = 5
INVARIANTS NothingLost OneRelease
PROPERTIES JobsFinish Recovers
CHECK_DEADLOCK FALSE
