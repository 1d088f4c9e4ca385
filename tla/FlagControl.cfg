SPECIFICATION Spec
CONSTANTS
    Keys = {checkout}
    Arms = {a, b}
    Plans = {watched, blind}
    Guarded = {watched}
    Operators = {op}
    Objects <- SomeObjects
    Starts <- SomeStarts
    None = None
    Period = 2
    MaxDelay = 1
    MinGap = 2
    Warmup = 4
    AutoRevert = TRUE
    MaxCalls = 2
    MaxFaults = 1
INVARIANTS RevertJustified MemoryMatchesDisk
PROPERTIES LockHolds HurtingIsPulled
