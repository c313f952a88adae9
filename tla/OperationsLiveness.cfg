SPECIFICATION FairSpec
CONSTANTS
    d1 = d1
    Op = {o1}
    Deployment = {d1}
    Target <- MCTarget
    Editable = {d1}
    Getter = {}
    Sweeper = sweeper
    ProgressDeadline <- MCDeadlineUnset
    DefaultDeadline = 2
    WatchGrace = 0
    StaleAfter = 2
    RequestTimeout = 1
    Report = {"progressing", "complete", "deadline"}
    LastRequest = 0
    MaxNow = 4
    MaxGeneration = 3
    MaxCrashes = 1
PROPERTIES
    NoOpStuckRunning
    WatcherEnds
INVARIANT IndInv
