SPECIFICATION FairSpec
CONSTANTS
    Threads = {t1, t2}
    Reporters = {r1, r2}
    MaxUpdates = 2
    MaxThreads = 2
    Absent = Absent
    Addresses = {a1, a2}
    AppThreads = {p1, p2}
    PlainClasses = {plain}
    Strings = {s1, s2}
    Nil = Nil
    MaxObjects = 2
    Setters = {u1, u2}
    MaxCalls = 3
    MaxMonitors = 2
    MaxSettings = 2
    MaxHangs = 2
    Memory = 8
    Asked = {0, 1, 2, 3, 5, 6, 8}
    Buffer = 3
    Captures <- MCCaptures
    ContextThreads = 2
    Walks <- MCWalks
    Images <- MCImages
    maxStackDepth = 4
    AddressSpan <- MCAddressSpan
    InstructionSize = 2
    Looks <- MCLooks
    Null = Null
    Unreadable = Unreadable
    ValidNames = {"NSObject", "NSBlock", "CFString", "CFArray", "Thing"}
    ClassType <- MCClassType
    MaxAncestors = 3
    TextSize = 6
INVARIANTS
    CrashReadsValid NamesTold ZombieTold SettingsReadable WatchdogSound
    LongestPrefix ThreadsTold LooksSafely
PROPERTIES WatchdogLive
CHECK_DEADLOCK FALSE
