SPECIFICATION Spec
CONSTANTS
    Requests = {r1, r2}
    MaxRequests = 2
    MaxPgFaults = 0
    MaxDbErrors = 0
INVARIANT ShownIsEnforced
