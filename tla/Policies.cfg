SPECIFICATION Spec
CONSTANTS
    Letter = {a, b}
    Star = star
    MaxLength = 2
    MaxPatterns = 2
    Action = {restart, rollout}
    Bare = bare
    Absent = absent
    Repository = {r1, r2}
    Namespace = {n1}
    Deployment = {d1, d2}
    MaxPermissions = 2
    MaxEdits = 5
INVARIANT ListDenotes
PROPERTIES
    EditsAreMonotone
    ActionsAreApart
    PermissionsAddUp
CHECK_DEADLOCK FALSE
