SPECIFICATION Spec
CONSTANTS
    NThreads = 3
    NBlocks = 4
    NExperts = 3
    Chunk = 2
    ChunkVec = 3
    Numa = FALSE
    Graphs <- MCGraphs
INVARIANTS
    ComputedOnce
    NodesComplete
    ReadsThisNode
    PairsInside
