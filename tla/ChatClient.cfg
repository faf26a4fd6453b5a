CONSTANTS
    MaxRequests = 3
    MaxSessions = 2
    MaxStored = 1
    MaxReloads = 1
SPECIFICATION Spec
INVARIANTS
    TypeOK
    PendingHasRequest
    BusyMatchesRequest
PROPERTY BecomesIdle
