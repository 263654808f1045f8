SPECIFICATION FairSpec
CONSTANTS
    MaxRows = 3
    Limit = 2
    Signals = 2
    MaxReadings = 6
    Now <- WallClock
    MaxBoots = 2
    MaxLate = 1
    Endpoint = "gateway"
INVARIANTS TypeOK NoGaps BufferBounded StampsFollowCollection
PROPERTIES LeavesForCause ViewNewest BufferDrains
