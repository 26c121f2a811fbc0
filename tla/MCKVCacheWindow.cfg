SPECIFICATION Spec
CONSTANTS
    Seqs <- MCSeqs
    Ubatch = 2
    Contexts <- MCOneWindow
    Ranges <- MCRanges
    Divided <- MCDivided
    Deltas <- MCDeltas
    Divisors = {2}
    MaxCopies = 1
INVARIANTS WindowKept
CHECK_DEADLOCK FALSE
