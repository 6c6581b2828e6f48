SPECIFICATION BoardSpec
CONSTANTS
    MaxOperations = 2
    Starters = {"flash", "mcu", "info", "pull-flash", "fleet-flash"}
    Blocks = 2 Retries = 2 Numbers = 4 MaxFaults = 1 MaxRuns = 2
    Images = {"A", "B"} KnownLayouts = {"*"} MaxBoards = 3
INVARIANTS
    LockCoversTheWork
    NothingIsLeft
    SuccessIsComplete
    FlashedIsThePackage
    PlanHolds
PROPERTIES
    JobEnds
    BoardEnds
CHECK_DEADLOCK FALSE
