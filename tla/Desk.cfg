SPECIFICATION Spec
CONSTANTS
    Gate <- MCGate
    CauseDims <- MCCauseDims
    MoneyProps <- MCMoneyProps
    Words <- MCWords
    Auto <- MCAuto
    PageView = "$pageview"
    Nobody = ""
    Reading <- MCReading
    Unset <- MCUnset
    MaxValues = 25
    Shapes <- MCShapes
    Usual = "normal"
    Declared <- MCDeclared
    Expected <- MCExpected
    Thrown = {"oops"}
    Bar <- MCBar
    Failures = {"$exception"}
    Convention <- MCConvention
    Acquisition = {"browser"}
    BlameProps <- MCBlameProps
    Identified = "$identify"
    Exception = "$exception"
    Message = "message"
    Intents = {"/join", "/pay"}
    Ref = "ref"
    Key = "flag"
    Receipt = "$experiment_reverted"
    DetectionEnabled = TRUE
    Lookback = 8
    Dated <- MCDated
    MaxActs = 10
    PastDays = 3
    LastDay = 4
    MaxMoves = 3
INVARIANTS DetectExact NobodyIsAskedInVain ReplayIsHistory AggregatesAgree VerdictIsTheReport
CHECK_DEADLOCK FALSE
