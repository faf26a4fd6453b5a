CONSTANTS
    Workers = {w1, w2}
    NoWorker = NoWorker
    MaxRuns = 2
    MaxFaults = 2
SPECIFICATION Spec
INVARIANT NoConcurrentRuns
