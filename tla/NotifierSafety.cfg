SPECIFICATION FairSpec
CONSTANTS
    CallTimeout = 2
    HandleWait = 3
    MaxAttempts = 3
    RequestTimeout = 1
    StaleAfter = 4
    MaxNow = 10
    MaxCrashes = 1
CHECK_DEADLOCK FALSE
INVARIANTS
    TypeOK
    EditsInPlace
    IndInv
PROPERTIES
    NoOvertaking
    ResolvedEnds
