SPECIFICATION Spec
CONSTANTS
    Events <- ThreeEvents
    Batches <- SomeBatches
    Cutoffs <- OneCutoff
    MaxEvents = 0
    Slack = 1
    Faults = {"compact", "rename", "truncate"}
    Crashes = {"power"}
    MayClear = FALSE
    MaxWrites = 4
    MaxCrashes = 2
INVARIANTS AckDurable MemoryMatchesFile ErasedGone
PROPERTIES ImplementsEventStore
