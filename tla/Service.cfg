CONSTANTS
    Runners = {r1, r2}
    NStatements = 2
    NFiles = 2
    Probes = {p1, p2}
    Slots = {s1, s2, s3}
    Cache = 2
    Lag = 1
SPECIFICATION ServiceSpec
INVARIANTS
    ServiceTypeOK
    RecordsAreTrue
    ServedOnSchema
PROPERTIES
    ReadyIsRecent
    Recovers
