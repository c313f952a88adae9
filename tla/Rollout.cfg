SPECIFICATION Spec
CONSTANTS
    Pod = {a, b, c}
    Replicas = {0, 2}
    Unset = unset
    Second = 2
    MaxPatches = 2
    MaxScales = 1
    MaxFailures = 1
INVARIANTS
    CompleteIsTrue
    AgreesWithReport
    IndInv
PROPERTIES
    PatchStartsOver
    Converges
