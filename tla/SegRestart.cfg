SPECIFICATION Spec
CONSTANTS
    Events <- ThreeEvents
    SealAt = 2
    Readers = {}
    Windows <- AllTime
    Cutoffs <- OneCutoff
    Ops = {"prune", "erase", "verify", "offlineScrub"}
    Faults = {"put", "manifest", "delete", "sync", "compact"}
    Resend = FALSE
    MaxSeq = 3
    MaxCrashes = 1
INVARIANTS TypeOK NoDanglingRef SegmentsIntact VerifyFindsNoProblem
PROPERTIES Immutable ImplementsEventStore
