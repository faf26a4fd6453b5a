CONSTANTS
    Articles = {a1}
    Feeds = {f1, f2}
    Syncs = {s1, s2}
    Exclusive = TRUE
    MaxVersion = 2
    Blank = {}
    MaxFaults = 1
SPECIFICATION FairSpec
INVARIANTS
    TypeOK
    OneGeneration
PROPERTIES
    FeedsConverge
