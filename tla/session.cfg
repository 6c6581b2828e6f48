SPECIFICATION SessionSpec
CONSTANTS
    Secrets = {p1, p2} NoSecret = NoSecret Worlds <- SomeWorlds
    MaxAuthAttempts = 1 MaxGen = 2 MaxFaults = 1
    Blocks = 3 Asked = 2 InFlight = 2 MaxStarts = 2
    Hosts = {"h1", "h2"} Names = {"a", "b"} MaxEdits = 3
    Chunks = 5 MaxDisconnects = 2
    Sessions = {s1, s2} MaxMoves = 6
INVARIANTS
    AbortWakesTheWait
    GenerationsApart
    DestinationIsMeant
    FileLeavesInOrder
    QuitLeavesNothing
PROPERTIES
    CopyIsExact
    SessionsEnd
CHECK_DEADLOCK FALSE
