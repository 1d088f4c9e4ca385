SPECIFICATION Spec
CONSTANTS
    Day = 2
    Week = 4
    Month = 8
    LifecycleDays = 3
    NoAmount = NoAmount
    Amount <- SomeAmount
    Second = 2
    GapLength = 2
    Identify = "$identify"
    MaxDayBuckets = 1
    MaxWeekBuckets = 1
    NoPlan = NoPlan
    Unbounded = Unbounded
    NoOne = NoOne
    Kinds <- SomeKinds
    Times <- SomeTimes
    Bounds <- SomeBounds
    Moments <- SomeMoments
    PageView = "visit"
    Queries <- SomeQueries
    MaxPeriods = 2
    MaxEvents = 4
    MaxFailures = 1
    MaxCompared = 3
    SqlWords <- SomeWords
    SqlRows = 2
    SqlGroups = 9
    Preview = "free"
    Preferred <- SomePreferred
    Live = 1
    Refused = Refused
INVARIANTS FunnelExact ReportsAgree SqlAgrees ToolsAgree
PROPERTIES TimeDecides ErasureCompletes
ACTION_CONSTRAINT BobsTimes
