SPECIFICATION Spec
CONSTANTS
    MaxEvents = 4
    MaxLevel = 3
    Names = {2, 3}
    Strings = {9, 10}
    Digits = 2
    FileBuffer = 20
    StringBuffer = 10
    NameBuffer = 3
    FixerDepth = 2
    Consumers = {"file", "element", "fixer", "objc"}
    WriteBuffer = 4
    ReadBuffer = 3
    LineBuffer = 4
    MaxBytes = 12
    MaxFailures = 2
    MaxFile = 9
    SearchDepth = 2
    Ivars = {"i1"}
    MaxElements = 2
    Notable = {"r0"}
    UserJSON = {"none", "object", "scalar", "invalid", "cut"}
INVARIANTS ReportWhole CopiedFaithfully  BuffersFaithful
CHECK_DEADLOCK FALSE
