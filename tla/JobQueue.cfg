SPECIFICATION FairSpec
CONSTANTS
    Projects = {p1, p2}
    JobIds = {j1, j2, j3, j4}
    None = None
    MaxNow = 1
    MaxFaults = 1
    MaxDbErrors = 1
INVARIANTS NoWorkOnDeleting ToldOnFirstFailure
PROPERTIES KeepsContract DeletionsFinish
