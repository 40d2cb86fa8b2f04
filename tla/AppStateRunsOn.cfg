SPECIFICATION Spec
CONSTANTS
    FirstTime = 1
    MaxLaunches = 3
    MaxSessions = 2
    Environments <- MCEnvironments
INVARIANT CrashOnPreviousLaunchKnown
CHECK_DEADLOCK FALSE
