SPECIFICATION Spec
CONSTANTS
    NThreadsA = 3
    NThreadsB = 2
    KMaxThreads = 3
    MaxGroup = 2
    GraphsA <- MCGraphsA
    GraphsB <- MCGraphsB
    Parallel = FALSE
INVARIANTS
    PoolsApart
    TurnsComplete
