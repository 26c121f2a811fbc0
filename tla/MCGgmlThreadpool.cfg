SPECIFICATION Spec
CONSTANTS
    NThreads = 3
    PollRounds = 1
    MaxGraphs = 3
INVARIANTS
    ParametersQuiet
    RunByItsThreads
PROPERTIES
    GraphsFinish
    FreeFinishes
