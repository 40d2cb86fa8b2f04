SPECIFICATION Spec
CONSTANTS
    Threads = {t1, t2}
    Primary = primary
    Secondary = secondary
    Monitoring <- MinimalMonitoring
    Choices <- NoChoices
    BeingTraced = FALSE
    Triggers <- AllTriggers
    MaxEvents = 2
    MaxReports = 3
    MaxReconfigs = 0
    NoReport = NoReport
INVARIANTS
    NextCrashRecorded
CHECK_DEADLOCK FALSE
