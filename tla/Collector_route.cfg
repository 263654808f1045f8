SPECIFICATION FairSpec
CONSTANTS
    MaxRows = 2
    Limit = 2
    Signals = 1
    MaxReadings = 2
    Now <- WallClock
    MaxBoots = 2
    MaxLate = 1
    Endpoint = "batch"
PROPERTIES BufferDrains
