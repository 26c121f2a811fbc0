SPECIFICATION Spec
CONSTANTS
    NThreads = 3
    Width = 2
PROPERTIES
    ImplementsBarrier
    EveryEntryLeaves
