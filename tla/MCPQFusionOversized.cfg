SPECIFICATION Spec
CONSTANTS
    NThreads = 3
    KMaxThreads = 2
    MaxGroup = 2
    LoadsDuringCompute = FALSE
    Graphs <- MCLayer
INVARIANTS
    BarrierLockstep
