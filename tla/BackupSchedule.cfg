SPECIFICATION Spec
CONSTANTS
    Projects = {1, 2}
    FifteenMinutes = 1
    OneHour = 2
    FourHours = 3
    Day = 4
    Policies <- Preferred
    MaxNow = 9
    MaxFaults = 2
INVARIANTS AnnouncedIsDue BacksOff
PROPERTIES NoOvertaking
CHECK_DEADLOCK FALSE
