CONSTANTS
    Calls = {c1, c2}
    FailureThreshold = 2
    RecoveryTime = 2
    MaxFailures = 3
    Clients = {k1}
    Handlers = {h1, h2}
    Minute = 3
    RatePerMinute = 2
    Burst = 1
    MaxTime = 4
SPECIFICATION ResilienceSpec
SYMMETRY ResilienceSymmetry
INVARIANTS
    TypeOK
    GrantsBounded
PROPERTIES
    ImplementsContract
    RetryAfterSuffices
