SPECIFICATION Spec
CONSTANTS
    w1 = w1
    w2 = w2
    s1 = s1
    s2 = s2
    Writers <- TwoWriters
    Senders <- OneSender
    Slots = 2
    PerSlot = 3
    FirstClock = 1
    LastClock = 3
    MaxReports = 3
    MaxExits = 2
    MaxCounts <- OneOrTwo
    Behaviors <- Deleting
    MayFail = TRUE
    DeletesByID = TRUE
    AddsWhileListing = TRUE
INVARIANTS OncePerProcess FilesApart
PROPERTIES Capped
SYMMETRY Symmetry
CHECK_DEADLOCK FALSE
