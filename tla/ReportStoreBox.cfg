SPECIFICATION Spec
CONSTANTS
    w1 = w1
    w2 = w2
    s1 = s1
    s2 = s2
    Writers <- TwoWriters
    Senders <- TwoSenders
    Slots = 3
    PerSlot = 3
    FirstClock = 1
    LastClock = 2
    MaxReports = 3
    MaxExits = 1
    MaxCounts <- OnlyOne
    Behaviors <- OnSuccess
    MayFail = TRUE
    DeletesByID = FALSE
    AddsWhileListing = FALSE
PROPERTIES IsReportBox
SYMMETRY Symmetry
CHECK_DEADLOCK FALSE
