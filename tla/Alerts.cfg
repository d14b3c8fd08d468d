SPECIFICATION AlertsSpec
CONSTANTS
    Others = {}
    Events = {e1}
    Receivers = {r1, r2}
    PostgresGrace = 2
    AlertClearAfter = 2
    AlertRepeat = 3
    AlertEventMaxAge = 2
    Forget = 4
    MaxNow = 5
    MaxFaults = 1
    MaxOutages = 1
    MaxChanges = 1
    MaxUpdates = 1
INVARIANTS ReceiverIsCurrent
PROPERTIES ResolvedWasWatched
SYMMETRY ReceiverSymmetry
CHECK_DEADLOCK FALSE
