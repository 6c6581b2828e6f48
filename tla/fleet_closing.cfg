SPECIFICATION Spec
CONSTANTS
    NBoards = 2
    NRows = 2
    MaxParallel = 0
    Verify = TRUE
    WaitAdb = TRUE
    EveryWrite = FALSE
    RebootsTo = {"adb", "loader"}
    Strangers = TRUE
    MaxFaults = 1
    MaxGen = 1
INVARIANTS
    GateLdApart
    ClosingIsTrue
    OnlyCompleteReset
PROPERTIES
    RunEnds
    LinesTellAll
