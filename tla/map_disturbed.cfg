SPECIFICATION Spec
CONSTANTS
    NBoards = 2
    NStrangers = 1
    StrangersAt = {"adb", "loader"}
    Layouts = {"ok", "unreadable", "mixed", "mixedPid"}
    Modes = {"loader", "maskrom"}
    Lag = {"adb", "ld"}
    Late = TRUE
    DryRuns = {TRUE, FALSE}
    MaxFaults = 1
INVARIANTS
    HealthyBenchMaps
    IdentityIsLearned
PROPERTIES
    MappingIsTold
