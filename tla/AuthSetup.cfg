SPECIFICATION Spec
CONSTANTS
    Logins = {l1}
    Modes <- Https
    CodeTries = 2
    LockEvery = 2
    MaxTokens = 4
    MaxStep = 1
INVARIANTS OneSetupEnrolment
CHECK_DEADLOCK FALSE
