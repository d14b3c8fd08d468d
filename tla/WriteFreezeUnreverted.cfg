SPECIFICATION Spec
CONSTANTS
    Requests = {r1}
    MaxRequests = 1
    MaxPgFaults = 1
    MaxDbErrors = 0
INVARIANT ShownIsEnforced
