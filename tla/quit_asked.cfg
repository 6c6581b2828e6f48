SPECIFICATION WindowSpec
CONSTANTS
    Sessions = {s1, s2}
    MaxMoves = 6
INVARIANT
    WriteOutlivesTheQuestion
CHECK_DEADLOCK FALSE
