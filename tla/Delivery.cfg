SPECIFICATION FairSpec
CONSTANTS
    Senders = {1, 2}
    Users = {"ann"}
    Shapes <- MCShapes
    MaxReports = 2
    MaxLaunches = 2
    Behaviors = {"always", "success"}
    FiltersFail = TRUE
    AnyClient = TRUE
    Trees <- MCTrees
    Inputs <- MCInputs
    Late <- MCLate
    MaxPre = 2
    Bad <- MCBad
    Properties = {p, q}
    MaxStrings = 5
CHECK_DEADLOCK FALSE
INVARIANTS EventTellsWho EventShowsCrash FieldsReadable
PROPERTIES DeliversWhatItDeletes SenderHears
