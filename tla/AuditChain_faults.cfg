SPECIFICATION FairSpec
CONSTANTS
    Api = {a1, a2}
    MaxEvents = 3
    DbFaults = TRUE
INVARIANTS MemoryVerifies
 
