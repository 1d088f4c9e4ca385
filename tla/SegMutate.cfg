SPECIFICATION Spec
CONSTANTS
    Events <- ThreeEvents
    SealAt = 2
    Readers = {}
    Windows <- AllTime
    Cutoffs <- OneCutoff
    Ops = {"prune", "erase", "clear", "scrub"}
    Faults = {"manifest", "lostReply", "compact"}
    Resend = FALSE
    MaxSeq = 3
    MaxCrashes = 1
INVARIANTS OneCopy ColdErasureFinal
PROPERTIES QuietScrubIsSafe
ACTION_CONSTRAINT CalmBeforeCrash
