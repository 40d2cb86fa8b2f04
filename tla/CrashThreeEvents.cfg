SPECIFICATION Spec
CONSTANTS
    Threads = {t1, t2}
    Primary = primary
    Secondary = secondary
    Monitoring <- AllMonitoring
    Choices <- NoChoices
    BeingTraced = FALSE
    Triggers <- SuspendingTriggers
    MaxEvents = 3
    MaxReports = 4
    MaxReconfigs = 0
    NoReport = NoReport
INVARIANTS
    NonFatalLeavesNoTrace
    RecrashUninstalls
PROPERTIES
    RecordedStays
CHECK_DEADLOCK FALSE
