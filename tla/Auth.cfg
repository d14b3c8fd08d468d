SPECIFICATION Spec
CONSTANTS
    Logins = {l1, l2}
    Modes <- TunnelToHttps
    CodeTries = 2
    LockEvery = 2
    MaxTokens = 5
    MaxStep = 2
SYMMETRY LoginSymmetry
CHECK_DEADLOCK FALSE
INVARIANTS SessionsAreCurrent WrongCodesLock
PROPERTIES OnlyNewestResetApplies
