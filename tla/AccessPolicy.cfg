SPECIFICATION Spec
CONSTANTS
    Projects = {p1, p2}
    Requests = {r1}
    MaxRevision = 2
    MaxFaults = 1
    MaxDbErrors = 1
    EarlyRequests = TRUE
SYMMETRY Symmetry
INVARIANTS AppliedIsEnforced DeletedIsClosed
CHECK_DEADLOCK FALSE
