SPECIFICATION FairSpec
CONSTANTS
    Requests = {r1, r2}
    MaxFaults = 4
INVARIANTS NoOrphan CredentialsWork
PROPERTIES NothingStaysHalfDone
