SPECIFICATION Spec
CONSTANTS
    CallTimeout = 2
    HandleWait = 3
    MaxAttempts = 3
    RequestTimeout = 1
    StaleAfter = 4
    MaxNow = 6
    MaxCrashes = 0
CHECK_DEADLOCK FALSE
INVARIANT NoInversion
