SPECIFICATION FairSpec
CONSTANTS
    Hosts = {"h1", "h2"}
    FirstAccess = {"h1"}
    Obedient = TRUE
    MaxTrouble = 2
    MaxChanges = 2
    MaxLosses = 1
    MaxRenewals = 1
    MaxEvents = 3
INVARIANTS OneAccess UndoIsVerified ReleaseStays SecretsHold
PROPERTIES ChangesRecover InstallFinishes CertificateArrives
CHECK_DEADLOCK FALSE
