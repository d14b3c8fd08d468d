SPECIFICATION AlertsSpec
CONSTANTS
    Others = {}
    Events = {}
    Receivers = {r1, r2}
    PostgresGrace = 2
    AlertClearAfter = 2
    AlertRepeat = 3
    AlertEventMaxAge = 2
    Forget = 4
    MaxNow = 6
    MaxFaults = 0
    MaxOutages = 0
    MaxChanges = 1
    MaxUpdates = 1
PROPERTIES ResolvedWasAlwaysWatched
SYMMETRY ReceiverSymmetry
CHECK_DEADLOCK FALSE
