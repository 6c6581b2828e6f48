SPECIFICATION Spec
CONSTANTS
    MaxBytes = 6 MaxChunk = 4
    MaxParams = 2 MaxSubParams = 1 MaxString = 3 MaxOsc = 1 MaxInter = 2
    MaxCols = 4
    Heights = {1, 2} Limits = {2} MaxOutput = 4 MaxMoves = 1 MaxQueue = 2
    MaxExtras = 3
INVARIANTS
    ScreenIsTheOutput
    LinesStayTheirOwn
CHECK_DEADLOCK FALSE
