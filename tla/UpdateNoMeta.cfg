SPECIFICATION UpdateSpec
CONSTANTS
    Files <- TwoFiles
    LateFaults = FALSE
    MaxRelease = 2
    MaxAccepted = 1
    MaxFaults = 1
PROPERTY NoMetaMeansUnchanged
CHECK_DEADLOCK FALSE
