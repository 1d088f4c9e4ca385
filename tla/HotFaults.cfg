SPECIFICATION Spec
CONSTANTS
    Events <- ThreeEvents
    Batches <- SomeBatches
    Cutoffs <- OneCutoff
    MaxEvents = 1
    Slack = 1
    Faults = {"write", "truncate", "dirSync", "sync", "compact", "rename", "reopen"}
    Crashes = {"process"}
    MayClear = TRUE
    MaxWrites = 3
    MaxCrashes = 1
INVARIANTS DamageIsLocal AckServed
