SPECIFICATION Spec
CONSTANTS
    Requests = {r1, r2}
    MaxFaults = 2
PROPERTIES NeverCreatedAgain
