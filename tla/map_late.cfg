SPECIFICATION Spec
CONSTANTS
    NBoards = 2
    NStrangers = 0
    StrangersAt = {"adb"}
    Layouts = {"ok"}
    Modes = {"loader"}
    Lag = {}
    Late = TRUE
    DryRuns = {FALSE}
    MaxFaults = 1
INVARIANTS
    NeverGuessed
