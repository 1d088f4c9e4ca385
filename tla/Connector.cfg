SPECIFICATION Spec
CONSTANTS
    Window = 5
    Overlap = 2
    Chunk = 3
    Lateness = 1
    FirstDay = 5
    LastDay = 9
    MaxCount = 1
    MaxFaults = 1
    MaxCrashes = 1
INVARIANTS DaysExact
PROPERTIES CatchesUp
