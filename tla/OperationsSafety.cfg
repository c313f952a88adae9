SPECIFICATION Spec
CONSTANTS
    d1 = d1
    Op = {o1}
    Deployment = {d1}
    Target <- MCTarget
    Editable = {d1}
    Getter = {g1}
    Sweeper = sweeper
    ProgressDeadline <- MCDeadlineUnset
    DefaultDeadline = 2
    WatchGrace = 0
    StaleAfter = 2
    RequestTimeout = 1
    Report = {"progressing", "complete", "deadline"}
    LastRequest = 0
    MaxNow = 4
    MaxGeneration = 3
    MaxCrashes = 1
INVARIANTS
    ChatTellsTheStory
    VerdictCoversPatch
    ResponseTellsTruth
    LiveRequestUndisturbed
PROPERTIES
    TerminalIsFinal
    ImplementsAuditTrail
