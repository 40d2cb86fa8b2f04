SPECIFICATION FairSpec
CONSTANTS
    Threads = {t1, t2}
    Primary = primary
    Secondary = secondary
    Monitoring <- MinimalMonitoring
    Choices <- SomeChoices
    BeingTraced = FALSE
    Triggers <- AllTriggers
    MaxEvents = 2
    MaxReports = 3
    MaxReconfigs = 1
    NoReport = NoReport
INVARIANTS
    OneWriter
    TypeOK
    NoDeathLoop
    LoneCrashRecorded
PROPERTIES
    HangsOnlyByCancel
    NonFatalKeepsMonitors
CHECK_DEADLOCK FALSE
