CONSTANTS
    NKeys = 2
    Roles <- MCRoles
    RoleGroups <- MCRoleGroups
    RPM_LIMIT = 1
    TPM_LIMIT = 100
    RPD_LIMIT = 3
    TPD_LIMIT = 100
    TokenEstimate = 1
    Window = 2
    DayLength = 2
    Callers = {c1, c2}
    RoleOf <- MCRoleOf
    FailureThreshold = 2
    RecoveryTime = 1
    MaxAttempts = 2
    TotalTimeout = 2
    Delays = {1}
    CooldownTimes = {1}
    MaxTime = 2
    MaxFailures = 3
    MaxUses = 1
SPECIFICATION Spec
SYMMETRY CallerSymmetry
INVARIANTS
    TypeOK
    AtMostOneLateAttempt
    OvershootBounded
    BrokenStreamsBounded
PROPERTIES
    UsesBreaker
