SPECIFICATION Spec
CONSTANTS
    Proc = {p1, p2}
    Timeout = 2
    ReadyTimeout = 3
    HTTPTimeout = 1
    Skew = 2
    Lifetime = {1, 3}
    MaxNow = 4
    MaxTokens = 2
INVARIANTS
    RetryCarriesNewToken
    InFlightTokenValid
    IndInv
PROPERTY CallsEnd
