CONSTANTS
    MaxTokens = 4
    QueueSize = 2
    CacheEnabled = TRUE
SPECIFICATION FairSpec
INVARIANTS
    TypeOK
    KeptAnswerIsWhole
    TokensInOrder
    AtMostOneEventAfterCeiling
    GaugesBalanced
PROPERTIES
    ImplementsContract
    ProducerStops
    ResponseCloses
