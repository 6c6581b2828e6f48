SPECIFICATION ToolsSpec
CONSTANTS
    Boards <- BothBoards BoardOf <- TwoBoards ImageKinds <- TwoImages Settings <- SomeChoices
    MaxEvents = 2 MaxPolls = 1 kMaxPlanRounds = 3
    MaxInput = 2 MaxOutput = 2
    MaxLinks = 6
    MaxBuilds = 3 MaxPulls = 3
    Modes = {"adb", "loader"} MaxUpdates = 2 MaxWrites = 2
    MaxOptions = 3 MaxEntries = 2 MaxSignals = 2 MaxQuestions = 1
    MaxFaults = 1
INVARIANTS
    ProcessIsTold
    FlashIsJudged
    BridgeHolds
    FilesAreTrue
    CliHolds
PROPERTIES
    WritesAreSafe
    ToolsEnd
CHECK_DEADLOCK FALSE
