CONSTANTS
    Articles = {a1}
    Feeds = {f1}
    Syncs = {s1}
    Exclusive = TRUE
    MaxVersion = 2
    Blank = {}
    MaxFaults = 2
SPECIFICATION Spec
INVARIANT ChangedArticlesReembedded
