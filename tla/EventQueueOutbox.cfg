SPECIFICATION Spec
CONSTANTS
    t1 = t1
    t2 = t2
    Threads <- TwoThreads
    MaxEvents = 3
    MaxStored = 2
    MaxConcurrent = 2
    MaxExits = 1
    MaxToggles = 1
    Outcomes <- ThreeOutcomes
INVARIANTS TypeOK NothingLost OneRetryEach DiskLimited
PROPERTIES IsOutbox
SYMMETRY Symmetry
CHECK_DEADLOCK FALSE
