SPECIFICATION Spec
CONSTANTS
    Projects = {p1}
    JobIds = {j1, j2, j3}
    None = None
    MaxNow = 0
    MaxFaults = 0
    MaxDbErrors = 0
INVARIANTS AtMostOneRestore
