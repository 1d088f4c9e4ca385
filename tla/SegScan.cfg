SPECIFICATION Spec
CONSTANTS
    Events <- ThreeEvents
    SealAt = 2
    Readers = {r1}
    Windows <- AllWindows
    Cutoffs <- OneCutoff
    Ops = {"flush", "erase", "clear"}
    Faults = {"get", "truncate"}
    Resend = FALSE
    MaxSeq = 3
    MaxCrashes = 0
INVARIANTS ScanExact GarbageIsRetired
