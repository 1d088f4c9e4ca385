SPECIFICATION Spec
CONSTANTS
    Events <- ThreeEvents
    SealAt = 2
    Readers = {}
    Windows <- AllTime
    Cutoffs <- OneCutoff
    Ops = {"erase"}
    Faults = {}
    Resend = FALSE
    MaxSeq = 3
    MaxCrashes = 0
INVARIANTS ErasureComplete
