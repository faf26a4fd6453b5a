CONSTANTS
    Articles = {a1, a2}
    Feeds = {f1}
    Syncs = {s1}
    Exclusive = TRUE
    MaxVersion = 2
    Blank = {2}
    MaxFaults = 2
SPECIFICATION FairSpec
PROPERTIES
    NeverUnindexed
    EveryArticleIndexed
