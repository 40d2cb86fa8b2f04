SPECIFICATION FairSpec
CONSTANTS
    t1 = t1
    t2 = t2
    Threads <- TwoThreads
    MaxEvents = 3
    MaxStored = 2
    MaxConcurrent = 2
    MaxExits = 0
    MaxToggles = 0
    Outcomes <- ThreeOutcomes
PROPERTIES CompletionCalled
CHECK_DEADLOCK FALSE
