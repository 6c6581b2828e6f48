SPECIFICATION Spec
CONSTANTS
    NBoards = 4
    NRows = 1
    MaxParallel = 3
    Verify = FALSE
    WaitAdb = FALSE
    EveryWrite = TRUE
    RebootsTo = {"adb"}
    Strangers = FALSE
    MaxFaults = 1
    MaxGen = 0
INVARIANTS
    WritesAreMeant
    SlotsAreUsed
PROPERTIES
    ChecksHold
