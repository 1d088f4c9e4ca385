SPECIFICATION Spec
CONSTANTS
    Alerts = {alert}
    Endpoints = {hook}
    Titles = {drop, spike}
    Jobs <- SomeJobs
    Window = 2
    Day = 2
    MaxAttempts = 2
    MaxFailures = 2
    MaxAnomalies = 1
    MaxChanges = 2
    MaxFaults = 1
    MaxCrashes = 1
    None = None
PROPERTIES CoolsDown OperatorDecides KeepsTelling BrokenIsPaused
