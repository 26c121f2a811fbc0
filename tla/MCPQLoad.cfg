SPECIFICATION Spec
CONSTANTS
    Files <- MCFiles
    NLayers = 2
    MinDim = 4
    KMaxThreads = 2
    ArenaSize = 9
    DsChoices = {2, 3}
    ModeChoices = {0, 1, 2}
    Plain = FALSE
    Together = FALSE
INVARIANTS
    GroupsSound
    PoolSuffices
    UsesOwnWeights
    RegisteredAreUsed
