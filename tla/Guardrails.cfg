SPECIFICATION FairSpec
CONSTANTS
    Values = {1, 2}
    Requests = {r1, r2}
    MaxRevision = 3
    MaxDrift = 1
    MaxFailures = 2
INVARIANTS ShownIsSet
PROPERTIES Converges
