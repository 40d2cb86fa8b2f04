SPECIFICATION Spec
CONSTANTS
    FirstTime = 1
    MaxLaunches = 3
    MaxSessions = 2
    Environments <- MCEnvironments
INVARIANTS CountsSound LastCrashIsReal TimesAreReal
CHECK_DEADLOCK FALSE
