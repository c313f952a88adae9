SPECIFICATION Spec
CONSTANTS
    d1 = d1
    Op = {o1}
    Deployment = {d1}
    Target <- MCTarget
    Editable = {d1}
    Getter = {}
    Sweeper = sweeper
    ProgressDeadline <- MCDeadlineUnset
    DefaultDeadline = 1
    WatchGrace = 0
    StaleAfter = 1
    RequestTimeout = 0
    Report = {"progressing", "complete", "deadline"}
    LastRequest = 0
    MaxNow = 2
    MaxGeneration = 2
    MaxCrashes = 1
INVARIANT SuccessImpliesPatched
