SPECIFICATION FairSpec
CONSTANTS
    Projects = {p1}
    JobIds = {j1, j2, j3}
    None = None
    MaxNow = 0
    MaxFaults = 1
    MaxDbErrors = 1
PROPERTIES DeletionCompletes
