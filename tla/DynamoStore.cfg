SPECIFICATION Spec
CONSTANTS
    Rows = 2
    Caller = {c1}
    Others = others
    Nobody = nobody
    PageLimit = 1
    Radix = 2
    Digits = 2
    StaleAfter = 3
    PutDelay = 1
    Lag = 2
    Lifetime = 4
    Start = 4
    MaxNow = 7
INVARIANTS
    ListComplete
    ListSound
    AnswerIsTrue
    IndInv
PROPERTIES
    ImplementsInMemStore
    CallsEnd
