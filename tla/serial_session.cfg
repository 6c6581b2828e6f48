SPECIFICATION SessionSpec
CONSTANTS
    Rates = {r1, r2, r3}
    Supported = {r1, r2}
    Candidates = {r2, r3}
    Talks = {r1, r2, Binary, Silent}
    Binary = Binary
    Silent = Silent
    Ports = {"serial", "sim"}
    MaxFlaps = 2
    MaxFaults = 2
INVARIANTS
    StateIsTrue
    SearchIsQuiet
    BarTellsTheRate
PROPERTIES
    ReplayIsOfTheWinner
    LinkRecovers
    IsTransport
