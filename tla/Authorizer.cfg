SPECIFICATION Spec
CONSTANTS
    p1 = p1
    p2 = p2
    branch = branch
    main = main
    repo = repo
    scope = scope
    Proc = {p1, p2}
    Request = {branch}
    Ref = {branch}
    Repository = {repo}
    Scope = {scope}
    RequestOf <- MCRequestOf
    RepositoryOf <- MCRepositoryOf
    ScopeOf <- MCScopeOf
    RefOf <- MCRefOf
    DecisionTTL = 1
    StaleFor = 1
    RefsTTL = 1
    UserIDTTL = 1
    Budget = 1
    MaxNow = 5
    MaxChanges = 1
SYMMETRY Symmetry
INVARIANTS
    RevocationTakesEffect
    NarrowingTakesEffect
    DeletionTakesEffect
    GrantingIsImmediate
    IndInv
