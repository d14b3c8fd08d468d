\* A second hostname command after an interrupted one overwrites its record.
SPECIFICATION Spec
CONSTANTS
    Hosts = {"h1", "h2"}
    FirstAccess = {"h1"}
    Obedient = FALSE
    MaxTrouble = 2
    MaxChanges = 2
    MaxLosses = 0
    MaxRenewals = 0
    MaxEvents = 4
INVARIANT UndoIsVerified
CHECK_DEADLOCK FALSE
