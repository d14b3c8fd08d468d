SPECIFICATION FairSpec
CONSTANTS
    Times = {1, 14, 240, 2500}
    Stores = {s1, s2}
    Policy <- OneOfEach
    Hours <- Month
    Tried <- FewOfEach
    ForeignTimes = {14}
    Budgets <- Some
INVARIANTS ProvenanceKept ExpiresTheRest PeriodsSurvive
PROPERTIES NewestKept ForeignUntouched HalfDeletesFinish AbandonedUploadsCleaned
CHECK_DEADLOCK FALSE
