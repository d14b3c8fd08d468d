\* A delivery cut between its files and the reload is reported as served.
SPECIFICATION Spec
CONSTANTS
    Hosts = {"h1"}
    FirstAccess = {"h1"}
    Obedient = TRUE
    MaxTrouble = 1
    MaxChanges = 0
    MaxLosses = 0
    MaxRenewals = 1
    MaxEvents = 2
INVARIANT ReportedIsServed
CHECK_DEADLOCK FALSE
