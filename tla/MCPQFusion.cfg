SPECIFICATION Spec
CONSTANTS
    NThreads = 3
    KMaxThreads = 3
    MaxGroup = 2
    LoadsDuringCompute = FALSE
    Graphs <- MCGraphs
INVARIANTS
    BarrierLockstep
    ReadsReady
    PartialsComplete
    NothingPending
    AllComputed
PROPERTIES
    Terminates
    EvaluatesGraph
