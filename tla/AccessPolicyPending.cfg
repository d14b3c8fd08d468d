SPECIFICATION FairSpec
CONSTANTS
    Projects = {p1}
    Requests = {r1}
    MaxRevision = 3
    MaxFaults = 0
    MaxDbErrors = 0
    EarlyRequests = TRUE
PROPERTY PolicySettles
CHECK_DEADLOCK FALSE
