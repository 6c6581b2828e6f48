SPECIFICATION InventorySpec
CONSTANTS
    Modes = {"adb"}
    MaxUpdates = 2
    MaxWrites = 2
    MaxFaults = 1
INVARIANT
    NeverSkipsACut
CHECK_DEADLOCK FALSE
