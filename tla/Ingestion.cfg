CONSTANTS
    Workers = {w1, w2}
    NoWorker = NoWorker
    MaxRuns = 2
    MaxFaults = 2
SPECIFICATION FairSpec
INVARIANTS
    TypeOK
    CyclesExclusive
    LiveRunNotSwept
PROPERTIES
    ClosedRunKeepsItsOutcome
    EveryRunIsClosed
