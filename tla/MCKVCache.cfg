SPECIFICATION Spec
CONSTANTS
    Seqs <- MCSeqs
    Ubatch = 2
    Contexts <- MCContexts
    Ranges <- MCRanges
    Divided <- MCDivided
    Deltas <- MCDeltas
    Divisors = {2}
    MaxCopies = 1
INVARIANTS KVTypeOK KFollowsCells ShiftsKnown SlotsStillUsable WindowKept UbatchFits
PROPERTIES PrepareRestores
CHECK_DEADLOCK FALSE
